------------------------ MODULE OffsetCommit_proofs ------------------------
(***************************************************************************)
(* Proofs about OffsetCommit, for every configuration, every log end and   *)
(* every budget of faults, rebalances and calls: no callback of an         *)
(* asynchronous commit is left without a worker, and the group never       *)
(* stores an offset that the application has not finished.  The second     *)
(* half is about the order in which commits arrive.                        *)
(***************************************************************************)
EXTENDS OffsetCommit, TLAPS

\* The state of commit_async_state tells whether a worker runs; a callback waits for a caller
\* that is about to schedule it, for the next round of the worker, or for one that is marked.
WorkerFollowsState ==
  /\ async.state = "IDLE" <=> async.pc = "gone"
  /\ callbacks > 0 => \/ app.pc = "pushed" \/ async.pc \in {"turn", "take"}
                      \/ async.state = "DIRTY"

\* Every offset on its way to the group, and each that may still be sent, is one that the
\* application has finished.
OffsetsProcessed ==
  /\ CommitsProcessed
  /\ polled.off <= ghost.frontier
  /\ rpc.off <= ghost.frontier
  /\ app.pc \in {"attempt", "record", "sent"} => app.off <= ghost.frontier
  /\ app.pc = "positions" /\ app.own # 0 => pos <= ghost.frontier
  /\ \A conn \in {"data", "task"} : \A i \in DOMAIN wire[conn] :
       wire[conn][i].off <= ghost.frontier

\* The holder of commit_serialization, and what it does.
LockHeld ==
  /\ lock = "sync" <=> app.pc \in {"attempt", "record", "sent"}
  /\ lock = "async" <=> async.pc \in {"take", "offsets", "sent"}
  /\ lock = "task" <=> task.pc \in {"attempt", "sent"}

\* The holder has one request on the way and waits for its answer: a request whose sender has
\* given up is not live any more.
OneExchange ==
  /\ rpc.at # "none" => \/ lock = "auto" \/ app.pc = "sent" \/ async.pc = "sent"
                        \/ task.pc = "sent"
  /\ rpc.at # "none" => rpc.off # NoPos
  /\ \A conn \in {"data", "task"} : \A i \in DOMAIN wire[conn] :
       wire[conn][i].live =>
         /\ rpc.at = "sent" /\ (conn = "task" <=> task.pc = "sent")
         /\ \A other \in {"data", "task"} : \A j \in DOMAIN wire[other] :
              wire[other][j].live => other = conn /\ j = i

\* An offset that may be sent is one.
OffsetsKnown ==
  /\ app.pc \in {"attempt", "record", "sent"} => app.off # NoPos
  /\ polled.own # 0 => polled.off # NoPos

Inv == /\ TypeOK /\ LockHeld /\ OneExchange /\ OffsetsKnown
       /\ WorkerFollowsState /\ OffsetsProcessed

Wires == [{"data", "task"} -> Seq(Requests)]
Ghosts == [frontier : Offsets, best : Offsets]

\* The offsets of the exchange and of the wire are finished ones.
ExchangeProcessed ==
  /\ rpc.off <= ghost.frontier
  /\ \A conn \in {"data", "task"} : \A i \in DOMAIN wire[conn] :
       wire[conn][i].off <= ghost.frontier

ExchangeInv == rpc \in Exchanges /\ wire \in Wires /\ OneExchange /\ ExchangeProcessed

-----------------------------------------------------------------------------
(* Offsets, the lock and the wire.                                         *)

LEMMA OffsetFacts ==
  /\ Offsets \subseteq Nat /\ Offsets \subseteq Positions /\ NoPos \in Positions
  /\ \A p \in Positions : p \in Int /\ (p # NoPos <=> p \in Offsets) /\ p >= NoPos
  /\ \A o \in Offsets : o > NoPos
  /\ NoGen \in Gens /\ Nat \subseteq Gens
  /\ \A g \in Gens : g \in Int /\ g >= NoGen /\ g + 1 \in Nat
BY BoundsAssumption DEF Offsets, Positions, NoPos, Gens, NoGen

\* Processing an offset raises the frontier to it and leaves the best commit alone.
LEMMA FrontierGrows ==
  ASSUME TypeOK, NEW off \in Positions, Processed(off)
  PROVE  /\ ghost' \in Ghosts /\ ghost'.best = ghost.best
         /\ ghost'.frontier >= ghost.frontier /\ ghost'.frontier >= off
<1>1. PICK f \in Offsets, b \in Offsets : ghost = [frontier |-> f, best |-> b]
  BY DEF TypeOK
<1>2. ghost' = [frontier |-> Larger(f, off), best |-> b]
  BY <1>1 DEF Processed
<1>3. Larger(f, off) \in Offsets /\ Larger(f, off) >= f /\ Larger(f, off) >= off
  BY OffsetFacts DEF Larger
<1> QED
  BY <1>1, <1>2, <1>3 DEF Ghosts

\* A request that is sent: the last one on its connection, live, and awaited.
LEMMA SendAppends ==
  ASSUME TypeOK, OneExchange, rpc.at # "sent", NEW conn \in {"data", "task"},
         NEW off \in Offsets, NEW gen \in Gens, NEW kind \in Kinds, NEW sends \in 0..2,
         Send(conn, off, gen, kind, sends)
  PROVE  /\ rpc' \in Exchanges /\ wire' \in Wires
         /\ rpc'.at = "sent" /\ rpc'.off = off /\ rpc'.gen = gen /\ rpc'.sends = sends
         /\ \A c \in {"data", "task"} : \A i \in DOMAIN wire'[c] :
              \/ c = conn /\ i = Len(wire[conn]) + 1
                 /\ wire'[c][i] = [off |-> off, gen |-> gen, kind |-> kind, live |-> TRUE]
              \/ i \in DOMAIN wire[c] /\ wire'[c][i] = wire[c][i] /\ ~wire'[c][i].live
<1> DEFINE r == [off |-> off, gen |-> gen, kind |-> kind, live |-> TRUE]
<1>1. /\ rpc' = [at |-> "sent", off |-> off, gen |-> gen, sends |-> sends]
      /\ wire' = [wire EXCEPT ![conn] = Append(@, r)]
  BY DEF Send
<1>2. r \in Requests
  BY DEF Requests
<1> HIDE DEF r
<1>3. \A c \in {"data", "task"} : wire[c] \in Seq(Requests)
  BY DEF TypeOK
<1>4. wire' \in Wires /\ wire'[conn] = Append(wire[conn], r)
  BY <1>1, <1>2, <1>3 DEF TypeOK, Wires
<1>5. \A c \in {"data", "task"} : c # conn => wire'[c] = wire[c]
  BY <1>1 DEF TypeOK
<1>6. /\ DOMAIN wire'[conn] = 1..(Len(wire[conn]) + 1) /\ wire'[conn][Len(wire[conn]) + 1] = r
      /\ DOMAIN wire[conn] = 1..Len(wire[conn]) /\ Len(wire[conn]) \in Nat
      /\ \A i \in DOMAIN wire[conn] : wire'[conn][i] = wire[conn][i]
  BY <1>2, <1>3, <1>4
<1>7. \A c \in {"data", "task"} : \A i \in DOMAIN wire[c] : ~wire[c][i].live
  BY DEF OneExchange
<1>8. rpc' \in Exchanges
  BY <1>1, OffsetFacts DEF Exchanges
<1>9. ASSUME NEW c \in {"data", "task"}, NEW i \in DOMAIN wire'[c]
      PROVE  \/ c = conn /\ i = Len(wire[conn]) + 1 /\ wire'[c][i] = r
             \/ i \in DOMAIN wire[c] /\ wire'[c][i] = wire[c][i] /\ ~wire'[c][i].live
  <2>1. CASE c # conn
    BY <1>5, <1>7, <2>1
  <2>2. CASE c = conn
    BY <1>6, <1>7, <2>2
  <2> QED
    BY <2>1, <2>2
<1> QED
  BY <1>1, <1>4, <1>8, <1>9 DEF r

\* The parts of the invariant that a request which is sent touches.
LEMMA SendKeeps ==
  ASSUME Inv, rpc.at # "sent", NEW conn \in {"data", "task"},
         NEW off \in Offsets, NEW gen \in Gens, NEW kind \in Kinds, NEW sends \in 0..2,
         Send(conn, off, gen, kind, sends), ghost' \in Ghosts,
         off <= ghost'.frontier, ghost'.frontier >= ghost.frontier,
         lock' = "auto" \/ app'.pc = "sent" \/ async'.pc = "sent" \/ task'.pc = "sent",
         conn = "task" <=> task'.pc = "sent"
  PROVE  ExchangeInv'
<1>1. /\ rpc' \in Exchanges /\ wire' \in Wires
      /\ rpc'.at = "sent" /\ rpc'.off = off
      /\ \A c \in {"data", "task"} : \A i \in DOMAIN wire'[c] :
           \/ c = conn /\ i = Len(wire[conn]) + 1
              /\ wire'[c][i] = [off |-> off, gen |-> gen, kind |-> kind, live |-> TRUE]
           \/ i \in DOMAIN wire[c] /\ wire'[c][i] = wire[c][i] /\ ~wire'[c][i].live
  BY SendAppends DEF Inv
<1>2. OneExchange'
  BY <1>1, OffsetFacts DEF OneExchange
<1>3. ASSUME NEW c \in {"data", "task"}, NEW i \in DOMAIN wire'[c]
      PROVE  wire'[c][i].off <= ghost'.frontier
  <2>1. CASE wire'[c][i] = [off |-> off, gen |-> gen, kind |-> kind, live |-> TRUE]
    BY <2>1
  <2>2. CASE i \in DOMAIN wire[c] /\ wire'[c][i] = wire[c][i]
    <3>1. wire[c][i] \in Requests
      BY <2>2 DEF Inv, TypeOK
    <3>2. wire[c][i].off \in Int /\ ghost.frontier \in Int /\ ghost'.frontier \in Int
      BY <3>1, OffsetFacts DEF Inv, TypeOK, Requests, Ghosts
    <3> QED
      BY <2>2, <3>2 DEF Inv, OffsetsProcessed
  <2> QED
    BY <1>1, <2>1, <2>2
<1> QED
  BY <1>1, <1>2, <1>3 DEF ExchangeInv, ExchangeProcessed

\* The parts of the invariant about the exchange, for a step that sends nothing.
LEMMA ExchangeKept ==
  ASSUME Inv, UNCHANGED <<rpc, wire>>, ghost' \in Ghosts, ghost'.frontier >= ghost.frontier,
         lock = "auto" => lock' = "auto", app.pc = "sent" => app'.pc = "sent",
         async.pc = "sent" => async'.pc = "sent", task.pc = "sent" <=> task'.pc = "sent"
  PROVE  ExchangeInv'
<1>1. rpc \in Exchanges /\ wire \in Wires
  BY DEF Inv, TypeOK, Wires
<1>2. OneExchange'
  BY DEF Inv, OneExchange
<1>3. ghost.frontier \in Int /\ ghost'.frontier \in Int /\ rpc.off \in Int
  BY <1>1, OffsetFacts DEF Inv, TypeOK, Exchanges, Ghosts
<1>4. ASSUME NEW c \in {"data", "task"}, NEW i \in DOMAIN wire[c]
      PROVE  wire[c][i].off <= ghost'.frontier
  <2>1. wire[c][i] \in Requests
    BY <1>1 DEF Wires
  <2>2. wire[c][i].off \in Int
    BY <2>1, OffsetFacts DEF Requests
  <2> QED
    BY <1>3, <2>2 DEF Inv, OffsetsProcessed
<1>5. rpc.off <= ghost'.frontier
  BY <1>3 DEF Inv, OffsetsProcessed
<1> QED
  BY <1>1, <1>2, <1>4, <1>5 DEF ExchangeInv, ExchangeProcessed

\* The same for a holder that has its answer, or has asked for none, and ends its exchange.
LEMMA ExchangeEnds ==
  ASSUME Inv, rpc.at # "sent", rpc' = NoRpc, UNCHANGED <<wire, ghost>>
  PROVE  ExchangeInv'
<1>1. wire' \in Wires /\ rpc'.at = "none" /\ rpc'.off = NoPos /\ rpc' \in Exchanges
  BY OffsetFacts DEF Inv, TypeOK, Wires, NoRpc, Exchanges
<1>2. OneExchange'
  BY <1>1 DEF Inv, OneExchange
<1>3. rpc'.off <= ghost'.frontier
  BY <1>1, OffsetFacts DEF Inv, TypeOK, NoPos
<1> QED
  BY <1>1, <1>2, <1>3 DEF Inv, OffsetsProcessed, ExchangeInv, ExchangeProcessed

\* Nobody holds a free lock.
LEMMA FreeLock ==
  ASSUME Inv, lock = "free"
  PROVE  /\ rpc.at = "none" /\ app.pc \notin {"attempt", "record", "sent"}
         /\ async.pc \notin {"take", "offsets", "sent"} /\ task.pc \notin {"attempt", "sent"}
BY DEF Inv, LockHeld, OneExchange

-----------------------------------------------------------------------------
(* Types, variable by variable.                                            *)

LEMMA RecordTypes ==
  /\ Idle \in Apps /\ NoWorker \in Workers /\ NoRpc \in Exchanges /\ Nobody \in PolledOffsets
  /\ TypeOK => Returned \in Apps
<1>1. Idle \in Apps
  BY OffsetFacts DEF Idle, Apps
<1>2. NoWorker \in Workers
  BY OffsetFacts DEF NoWorker, Workers
<1>3. NoRpc \in Exchanges
  BY OffsetFacts DEF NoRpc, Exchanges
<1>4. Nobody \in PolledOffsets
  BY OffsetFacts DEF Nobody, PolledOffsets, Kinds
<1>5. TypeOK => Returned \in Apps
  BY <1>1 DEF Returned, Apps
<1> QED
  BY <1>1, <1>2, <1>3, <1>4, <1>5

LEMMA AppType ==
  ASSUME Inv, Next
  PROVE  app' \in Apps
<1>1. app \in Apps /\ ident \in Idents /\ pos \in Positions
  BY DEF Inv, TypeOK
<1>2. ASSUME PollStart PROVE app' \in Apps
  BY <1>1, <1>2 DEF PollStart, Idents, Apps
<1>3. ASSUME (\E due \in BOOLEAN : PollRecord(due)) \/ (\E n \in 0..1 : PollFetch(n))
             \/ PushCallback \/ Schedule \/ Close \/ CloseDrained
      PROVE  app' \in Apps
  BY <1>1, <1>3, RecordTypes DEF PollRecord, PollFetch, PushCallback, Schedule, Close,
                                 CloseDrained, Apps
<1>4. ASSUME NEW pick \in BOOLEAN, CommitSync(pick) PROVE app' \in Apps
  <2>1. PICK off \in Positions : app' = [Idle EXCEPT !.pc = "turn", !.pick = pick, !.off = off]
    BY <1>4, OffsetFacts DEF CommitSync
  <2> QED
    BY <2>1, RecordTypes DEF Apps
<1>5. ASSUME SyncTurn PROVE app' \in Apps
  <2>1. Returned \in Apps
    BY RecordTypes DEF Inv
  <2>2. app.off \in Positions /\ ident.own \in Nat
    BY <1>1 DEF Apps, Idents
  <2>3. PICK off \in Positions :
          app' = Returned \/ app' = [app EXCEPT !.pc = "attempt", !.off = off, !.own = ident.own]
    BY <1>1, <1>5, <2>2 DEF SyncTurn
  <2> QED
    BY <1>1, <2>1, <2>2, <2>3 DEF Apps
<1>6. ASSUME SyncAttempt \/ SyncSend \/ SyncEnds PROVE app' \in Apps
  <2>1. Returned \in Apps
    BY RecordTypes DEF Inv
  <2>2. \/ app' = Returned \/ app' = [app EXCEPT !.pc = "record", !.gen = ident.gen]
        \/ app' = [app EXCEPT !.pc = "sent"] \/ app' = [app EXCEPT !.pc = "attempt"]
    BY <1>6 DEF SyncAttempt, SyncSend, SyncEnds
  <2> QED
    BY <1>1, <2>1, <2>2 DEF Apps, Idents
<1>7. ASSUME AutoCommitEnds \/ Worker \/ TaskGoesOn \/ BrokerGoesOn \/ Trouble
      PROVE  app' = app
  BY <1>7 DEF AutoCommitEnds, Worker, WorkerTurn, WorkerTake, WorkerSend, WorkerAnswer,
              WorkerAfter,
              TaskGoesOn, TaskStart, TaskTurn, TaskCommit, TaskAnswer, TaskPrime,
              TaskInstallGeneration, TaskInstall, LoseMembership, BrokerGoesOn, BrokerCommit,
              JoinsComplete, Synced, Trouble, Disconnect, Evict, Rebalance, OtherCommits,
              TaskGivesUp
<1> QED
  BY <1>1, <1>2, <1>3, <1>4, <1>5, <1>6, <1>7 DEF Next, AppGoesOn, AppCalls

LEMMA WorkerType ==
  ASSUME Inv, Next
  PROVE  async' \in Workers /\ callbacks' \in Nat
<1>1. async \in Workers /\ ident \in Idents /\ callbacks \in Nat
  BY DEF Inv, TypeOK
<1> DEFINE States == {"IDLE", "RUNNING", "DIRTY"}
           Pcs == {"gone", "turn", "take", "offsets", "sent", "after"}
<1>a. PICK state \in States, pc \in Pcs, own \in Nat, gen \in Gens, taken \in Nat :
        async = [state |-> state, pc |-> pc, own |-> own, gen |-> gen, taken |-> taken]
  BY <1>1 DEF Workers
<1>b. ASSUME NEW s \in States, NEW p \in Pcs, NEW o \in Nat, NEW g \in Gens, NEW n \in Nat
      PROVE  [state |-> s, pc |-> p, own |-> o, gen |-> g, taken |-> n] \in Workers
  BY DEF Workers
<1>2. ASSUME Schedule \/ PushCallback PROVE async' \in Workers /\ callbacks' \in Nat
  <2>1. PICK s \in States, p \in Pcs :
          async' = [state |-> s, pc |-> p, own |-> own, gen |-> gen, taken |-> taken]
    BY <1>2, <1>a DEF Schedule, PushCallback
  <2>2. callbacks' \in Nat
    BY <1>1, <1>2 DEF Schedule, PushCallback
  <2> QED
    BY <1>b, <2>1, <2>2
<1>3. ASSUME WorkerTurn \/ WorkerTake PROVE async' \in Workers /\ callbacks' \in Nat
  <2>1. CASE WorkerTurn
    BY <1>1, <2>1 DEF WorkerTurn, Workers
  <2>2. CASE WorkerTake
    <3>1. /\ async' = [async EXCEPT !.pc = "offsets", !.taken = callbacks, !.own = ident.own,
                                    !.gen = ident.gen]
          /\ callbacks' = 0 /\ ident.own \in Nat /\ ident.gen \in Gens
      BY <1>1, <2>2 DEF WorkerTake, Idents
    <3> QED
      BY <1>1, <3>1 DEF Workers
  <2> QED
    BY <1>3, <2>1, <2>2
<1>4. ASSUME WorkerSend \/ WorkerAnswer PROVE async' \in Workers /\ callbacks' = callbacks
  <2>1. \/ async' = async \/ async' = [async EXCEPT !.pc = "sent"]
        \/ async' = [state |-> state, pc |-> "after", own |-> 0, gen |-> NoGen, taken |-> 0]
    BY <1>4, <1>a DEF WorkerSend, WorkerAnswer, WorkerServed
  <2>2. callbacks' = callbacks
    BY <1>4 DEF WorkerSend, WorkerAnswer
  <2>3. NoGen \in Gens
    BY OffsetFacts
  <2>4. [state |-> state, pc |-> "after", own |-> 0, gen |-> NoGen, taken |-> 0] \in Workers
    BY <1>b, <2>3
  <2> QED
    BY <1>1, <2>1, <2>2, <2>4 DEF Workers
<1>5. ASSUME WorkerAfter PROVE async' \in Workers /\ callbacks' = callbacks
  BY <1>1, <1>5, RecordTypes DEF WorkerAfter, Workers
<1>6. ASSUME \/ \E due \in BOOLEAN : PollRecord(due)
             \/ \E n \in 0..1 : PollFetch(n)
             \/ \E pick \in BOOLEAN : CommitSync(pick)
             \/ SyncTurn \/ SyncAttempt \/ SyncSend \/ SyncEnds \/ CloseDrained \/ PollStart
             \/ Close \/ AutoCommitEnds \/ TaskGoesOn \/ BrokerGoesOn \/ Trouble
      PROVE  async' = async /\ callbacks' = callbacks
  BY <1>6 DEF PollRecord, PollFetch, CommitSync, SyncTurn, SyncAttempt, SyncSend, SyncEnds,
              CloseDrained, PollStart, Close, AutoCommitEnds,
              TaskGoesOn, TaskStart, TaskTurn, TaskCommit, TaskAnswer, TaskPrime,
              TaskInstallGeneration, TaskInstall, LoseMembership, BrokerGoesOn, BrokerCommit,
              JoinsComplete, Synced, Trouble, Disconnect, Evict, Rebalance, OtherCommits,
              TaskGivesUp
<1> QED
  BY <1>1, <1>2, <1>3, <1>4, <1>5, <1>6 DEF Next, AppGoesOn, AppCalls, Worker

LEMMA TaskType ==
  ASSUME Inv, Next
  PROVE  task' \in Tasks
<1>1. task \in Tasks /\ broker \in Brokers
  BY DEF Inv, TypeOK
<1>2. ASSUME PollStart \/ TaskStart \/ TaskTurn \/ TaskCommit \/ TaskAnswer \/ TaskPrime
             \/ TaskInstallGeneration \/ TaskGivesUp
             \/ \E barred \in BOOLEAN : LoseMembership(barred)
      PROVE  task' \in Tasks
  BY <1>1, <1>2 DEF PollStart, TaskStart, TaskTurn, TaskCommit, TaskAnswer, TaskPrime,
                    TaskInstallGeneration, TaskGivesUp, LoseMembership, Tasks
<1>3. ASSUME TaskInstall PROVE task' \in Tasks
  BY <1>1, <1>3, OffsetFacts DEF TaskInstall, Tasks
<1>4. ASSUME NEW owner \in {"me", "other", "none"}, Synced(owner) PROVE task' \in Tasks
  BY <1>1, <1>4, OffsetFacts DEF Synced, Tasks, Brokers
<1>5. ASSUME \/ AppGoesOn \/ PushCallback \/ Close \/ AutoCommitEnds \/ Worker
             \/ \E pick \in BOOLEAN : CommitSync(pick)
             \/ \E conn \in {"data", "task"} : BrokerCommit(conn)
             \/ \E conn \in {"data", "task"}, processed \in BOOLEAN : Disconnect(conn, processed)
             \/ JoinsComplete \/ Evict \/ Rebalance \/ OtherCommits
      PROVE  task' = task
  BY <1>5 DEF AppGoesOn, PollRecord, PollFetch, CommitSync, SyncTurn, SyncAttempt, SyncSend,
              SyncEnds, CloseDrained, Schedule, PushCallback, Close, AutoCommitEnds, Worker,
              WorkerTurn, WorkerTake, WorkerSend, WorkerAnswer,
              WorkerAfter, BrokerCommit, Disconnect,
              JoinsComplete, Evict, Rebalance, OtherCommits
<1> QED
  BY <1>1, <1>2, <1>3, <1>4, <1>5
     DEF Next, AppCalls, TaskGoesOn, BrokerGoesOn, Trouble

LEMMA IdentType ==
  ASSUME Inv, Next
  PROVE  ident' \in Idents
<1>1. task \in Tasks /\ ident \in Idents
  BY DEF Inv, TypeOK
<1>2. ASSUME TaskInstallGeneration \/ \E barred \in BOOLEAN : LoseMembership(barred)
      PROVE  ident' \in Idents
  BY <1>1, <1>2, OffsetFacts DEF TaskInstallGeneration, LoseMembership, Idents, Tasks
<1>3. ASSUME TaskInstall PROVE ident' \in Idents
  <2>1. task.gen \in Gens /\ NextOwn \in Nat /\ ident.own \in Nat
    BY <1>1, OffsetFacts DEF Tasks, Idents, NextOwn
  <2>2. PICK own \in Nat : ident' = [gen |-> task.gen, barred |-> FALSE, own |-> own]
    BY <1>3, <2>1 DEF TaskInstall
  <2> QED
    BY <2>1, <2>2 DEF Idents
<1>4. ASSUME \/ AppGoesOn \/ AppCalls \/ AutoCommitEnds \/ Worker \/ BrokerGoesOn \/ Trouble
             \/ TaskStart \/ TaskTurn \/ TaskCommit \/ TaskAnswer \/ TaskPrime
      PROVE  ident' = ident
  BY <1>4 DEF AppGoesOn, PollRecord, PollFetch, CommitSync, SyncTurn, SyncAttempt, SyncSend,
              SyncEnds, CloseDrained, Schedule, AppCalls, PollStart, PushCallback, Close,
              AutoCommitEnds, Worker, WorkerTurn, WorkerTake, WorkerSend, WorkerAnswer,
              WorkerAfter,
              BrokerGoesOn, BrokerCommit, JoinsComplete, Synced, Trouble, Disconnect, Evict,
              Rebalance, OtherCommits, TaskGivesUp, TaskStart, TaskTurn, TaskCommit,
              TaskAnswer, TaskPrime
<1> QED
  BY <1>1, <1>2, <1>3, <1>4 DEF Next, TaskGoesOn

LEMMA PosType ==
  ASSUME Inv, Next
  PROVE  pos' \in Positions
<1>1. pos \in Positions /\ broker.committed \in Positions
  BY OffsetFacts DEF Inv, TypeOK, Brokers
<1>2. ASSUME NEW n \in 0..1, PollFetch(n) PROVE pos' \in Positions
  <2>1. pos' = pos + n /\ (n = 0 \/ (pos # NoPos /\ pos + n <= MaxPos))
    BY <1>2 DEF PollFetch
  <2>2. CASE n = 0
    BY <1>1, <2>1, <2>2, OffsetFacts
  <2>3. CASE n # 0
    <3>1. pos \in Offsets /\ n = 1 /\ pos + n <= MaxPos
      BY <1>1, <2>1, <2>3, OffsetFacts
    <3>2. pos + n \in Offsets
      BY <3>1, BoundsAssumption DEF Offsets
    <3> QED
      BY <2>1, <3>2, OffsetFacts
  <2> QED
    BY <2>2, <2>3
<1>3. ASSUME TaskPrime \/ TaskInstall PROVE pos' \in Positions
  BY <1>1, <1>3, OffsetFacts DEF TaskPrime, TaskInstall
<1>4. ASSUME \/ \E due \in BOOLEAN : PollRecord(due)
             \/ SyncTurn \/ SyncAttempt \/ SyncSend \/ SyncEnds \/ Schedule \/ CloseDrained
             \/ AppCalls \/ AutoCommitEnds \/ Worker \/ BrokerGoesOn \/ Trouble
             \/ TaskStart \/ TaskTurn \/ TaskCommit \/ TaskAnswer \/ TaskInstallGeneration
             \/ \E barred \in BOOLEAN : LoseMembership(barred)
      PROVE  pos' = pos
  BY <1>4 DEF PollRecord, CommitSync, SyncTurn, SyncAttempt, SyncSend,
              SyncEnds, CloseDrained, Schedule, AppCalls, PollStart, PushCallback, Close,
              AutoCommitEnds, Worker, WorkerTurn, WorkerTake, WorkerSend, WorkerAnswer,
              WorkerAfter,
              BrokerGoesOn, BrokerCommit, JoinsComplete, Synced, Trouble, Disconnect, Evict,
              Rebalance, OtherCommits, TaskGivesUp, TaskStart, TaskTurn, TaskCommit,
              TaskAnswer, TaskInstallGeneration, LoseMembership
<1> QED
  BY <1>1, <1>2, <1>3, <1>4 DEF Next, AppGoesOn, TaskGoesOn

\* What the group stores, and the ghosts that follow it.
LEMMA ApplyEffect ==
  ASSUME TypeOK, NEW r \in Requests, Apply(r)
  PROVE  /\ broker' \in Brokers /\ ghost' \in Ghosts /\ ghost'.frontier = ghost.frontier
         /\ broker'.committed \in {broker.committed, r.off}
<1>1. PICK gen \in Nat, phase \in {"Stable", "Preparing", "Completing"},
           owner \in {"me", "other", "none"}, known \in BOOLEAN, committed \in Offsets :
        broker = [gen |-> gen, phase |-> phase, owner |-> owner, known |-> known,
                  committed |-> committed]
  BY DEF TypeOK, Brokers
<1>2. PICK f \in Offsets, b \in Offsets : ghost = [frontier |-> f, best |-> b]
  BY DEF TypeOK
<1>3. CASE ~Accepts(r)
  BY <1>3 DEF Apply, TypeOK, Ghosts
<1>4. CASE Accepts(r)
  <2>1. r.off \in Offsets
    BY DEF Requests
  <2>2. broker' = [gen |-> gen, phase |-> phase, owner |-> owner, known |-> known,
                   committed |-> r.off]
    BY <1>1, <1>4 DEF Apply
  <2>3. PICK n \in Offsets : ghost' = [frontier |-> f, best |-> n]
    <3>1. Larger(b, r.off) \in Offsets /\ Smaller(b, r.off) \in Offsets
      BY <2>1 DEF Larger, Smaller
    <3> QED
      BY <1>2, <1>4, <3>1 DEF Apply
  <2> QED
    BY <1>2, <2>1, <2>2, <2>3 DEF Brokers, Ghosts
<1> QED
  BY <1>3, <1>4

LEMMA FirstRequest ==
  ASSUME TypeOK, NEW conn \in {"data", "task"}, wire[conn] # <<>>
  PROVE  /\ 1 \in DOMAIN wire[conn] /\ Head(wire[conn]) = wire[conn][1]
         /\ Head(wire[conn]) \in Requests
         /\ Tail(wire[conn]) \in Seq(Requests)
         /\ \A i \in DOMAIN Tail(wire[conn]) : /\ i \in Nat /\ i + 1 \in DOMAIN wire[conn]
                                               /\ i + 1 # 1
                                               /\ Tail(wire[conn])[i] = wire[conn][i + 1]
<1>1. wire[conn] \in Seq(Requests)
  BY DEF TypeOK
<1> QED
  BY <1>1

LEMMA BrokerType ==
  ASSUME Inv, Next
  PROVE  broker' \in Brokers /\ ghost' \in Ghosts /\ ghost'.frontier >= ghost.frontier
         /\ broker'.committed <= ghost'.frontier
<1>1. /\ broker \in Brokers /\ ghost \in Ghosts /\ ident \in Idents /\ pos \in Positions /\ TypeOK
      /\ app.off \in Positions
  BY DEF Inv, TypeOK, Ghosts, Apps
<1>2. /\ ghost.frontier \in Int /\ ghost.frontier >= ghost.frontier
      /\ broker.committed \in Int /\ broker.committed <= ghost.frontier
  <2>1. ghost.frontier \in Nat /\ broker.committed \in Nat
    BY <1>1, OffsetFacts DEF Ghosts, Brokers
  <2>2. broker.committed <= ghost.frontier
    BY DEF Inv, OffsetsProcessed, CommitsProcessed
  <2> QED
    BY <2>1, <2>2
<1>3. PICK gen \in Nat, phase \in {"Stable", "Preparing", "Completing"},
           owner \in {"me", "other", "none"}, known \in BOOLEAN, committed \in Offsets :
        broker = [gen |-> gen, phase |-> phase, owner |-> owner, known |-> known,
                  committed |-> committed]
  BY <1>1 DEF Brokers
<1>4. ASSUME PollStart \/ SyncTurn \/ WorkerSend
      PROVE  broker' = broker /\ ghost' \in Ghosts /\ ghost'.frontier >= ghost.frontier
  <2>1. broker' = broker /\ (ghost' = ghost \/ \E off \in Positions : Processed(off))
    BY <1>1, <1>4 DEF PollStart, SyncTurn, WorkerSend
  <2> QED
    BY <1>1, <1>2, <2>1, FrontierGrows
<1>5. ASSUME Evict \/ Rebalance \/ JoinsComplete \/ (\E o \in {"me", "other", "none"} : Synced(o))
      PROVE  broker' \in Brokers /\ broker'.committed = broker.committed /\ ghost' = ghost
  <2>1. PICK g \in Nat, p \in {"Stable", "Preparing", "Completing"},
             o \in {"me", "other", "none"}, k \in BOOLEAN :
          broker' = [gen |-> g, phase |-> p, owner |-> o, known |-> k, committed |-> committed]
    <3>1. gen + 1 \in Nat
      OBVIOUS
    <3>2. CASE Evict \/ Rebalance
      BY <1>3, <3>2 DEF Evict, Rebalance
    <3>3. CASE JoinsComplete
      BY <1>3, <3>1, <3>3 DEF JoinsComplete
    <3>4. CASE \E o \in {"me", "other", "none"} : Synced(o)
      BY <1>3, <3>4 DEF Synced
    <3> QED
      BY <1>5, <3>2, <3>3, <3>4
  <2>2. ghost' = ghost
    BY <1>5 DEF Evict, Rebalance, JoinsComplete, Synced
  <2> QED
    BY <1>3, <2>1, <2>2 DEF Brokers
<1>6. ASSUME OtherCommits
      PROVE  /\ broker' \in Brokers /\ ghost' \in Ghosts /\ ghost'.frontier >= ghost.frontier
             /\ broker'.committed <= ghost'.frontier
  <2>1. PICK f \in Offsets, b \in Offsets : ghost = [frontier |-> f, best |-> b]
    BY <1>1 DEF Ghosts
  <2>2. committed + 1 \in Offsets
    BY <1>3, <1>6, BoundsAssumption DEF OtherCommits, Offsets
  <2>3. /\ broker' = [gen |-> gen, phase |-> phase, owner |-> owner, known |-> known,
                      committed |-> committed + 1]
        /\ ghost' = [frontier |-> Larger(f, committed + 1), best |-> Larger(b, committed + 1)]
    BY <1>3, <1>6, <2>1 DEF OtherCommits
  <2>4. /\ Larger(f, committed + 1) \in Offsets /\ Larger(b, committed + 1) \in Offsets
        /\ Larger(f, committed + 1) >= f /\ Larger(f, committed + 1) >= committed + 1
    BY <2>2, OffsetFacts DEF Larger
  <2> QED
    BY <2>1, <2>2, <2>3, <2>4 DEF Brokers, Ghosts
<1>7. ASSUME NEW conn \in {"data", "task"},
             BrokerCommit(conn) \/ \E processed \in BOOLEAN : Disconnect(conn, processed)
      PROVE  /\ broker' \in Brokers /\ ghost' \in Ghosts /\ ghost'.frontier >= ghost.frontier
             /\ broker'.committed <= ghost'.frontier
  <2>1. wire[conn] # <<>> /\ (UNCHANGED <<broker, ghost>> \/ Apply(Head(wire[conn])))
    BY <1>7 DEF BrokerCommit, Disconnect
  <2>2. Head(wire[conn]) \in Requests /\ Head(wire[conn]).off <= ghost.frontier
    BY <1>1, <2>1, FirstRequest DEF Inv, OffsetsProcessed
  <2> QED
    BY <1>1, <1>2, <2>1, <2>2, ApplyEffect
<1>8. ASSUME \/ \E due \in BOOLEAN : PollRecord(due)
             \/ \E n \in 0..1 : PollFetch(n)
             \/ SyncAttempt \/ SyncSend \/ SyncEnds \/ Schedule \/ CloseDrained
             \/ \E pick \in BOOLEAN : CommitSync(pick)
             \/ PushCallback \/ Close \/ AutoCommitEnds \/ WorkerTurn \/ WorkerTake \/ WorkerAnswer
             \/ WorkerAfter \/ TaskGoesOn \/ TaskGivesUp
      PROVE  broker' = broker /\ ghost' = ghost
  BY <1>8 DEF PollRecord, PollFetch, CommitSync, SyncAttempt, SyncSend,
              SyncEnds, CloseDrained, Schedule, PushCallback, Close,
              AutoCommitEnds, WorkerTurn, WorkerTake, WorkerAnswer, WorkerAfter,
              TaskGivesUp, TaskGoesOn, TaskStart, TaskTurn, TaskCommit, TaskPrime,
              TaskAnswer, TaskInstallGeneration, TaskInstall, LoseMembership
<1>9. ASSUME broker' \in Brokers, ghost' \in Ghosts, ghost'.frontier >= ghost.frontier,
             broker'.committed = broker.committed
      PROVE  broker'.committed <= ghost'.frontier
  <2>1. ghost'.frontier \in Int
    BY <1>9, OffsetFacts DEF Ghosts
  <2> QED
    BY <1>2, <1>9, <2>1
<1> QED
  BY <1>1, <1>2, <1>4, <1>5, <1>6, <1>7, <1>8, <1>9
     DEF Next, AppGoesOn, AppCalls, Worker, BrokerGoesOn, Trouble

-----------------------------------------------------------------------------
(* The lock, the worker and the offsets in hand.                           *)

LEMMA RecordSentEffect ==
  ASSUME Inv, NEW off \in Offsets, NEW own \in Nat, NEW kind \in Kinds,
         RecordSent(off, own, kind), ghost' \in Ghosts,
         ghost'.frontier >= ghost.frontier, off <= ghost'.frontier
  PROVE  /\ polled' \in PolledOffsets /\ (polled'.own # 0 => polled'.off # NoPos)
         /\ polled'.off <= ghost'.frontier
<1>1. /\ polled \in PolledOffsets /\ (polled.own # 0 => polled.off # NoPos)
      /\ polled.off <= ghost.frontier
  BY DEF Inv, TypeOK, OffsetsKnown, OffsetsProcessed
<1>2. polled.off \in Int /\ ghost.frontier \in Int /\ ghost'.frontier \in Int
  BY <1>1, OffsetFacts DEF PolledOffsets, Inv, TypeOK, Ghosts
<1>3. polled.off <= ghost'.frontier
  BY <1>1, <1>2
<1> DEFINE s == [off |-> off, own |-> own, kind |-> kind]
<1>4. s \in PolledOffsets /\ s.off # NoPos /\ s.off = off
  BY OffsetFacts DEF PolledOffsets
<1>5. polled' = polled \/ polled' = s
  BY DEF RecordSent, MergeSentPositions
<1> QED
  BY <1>1, <1>3, <1>4, <1>5

LEMMA PolledStep ==
  ASSUME Inv, Next
  PROVE  /\ polled' \in PolledOffsets /\ (polled'.own # 0 => polled'.off # NoPos)
         /\ polled'.off <= ghost'.frontier
<1>1. /\ polled \in PolledOffsets /\ (polled.own # 0 => polled.off # NoPos)
      /\ polled.off <= ghost.frontier
  BY DEF Inv, TypeOK, OffsetsKnown, OffsetsProcessed
<1>2. ghost' \in Ghosts /\ ghost'.frontier >= ghost.frontier
  BY BrokerType
<1>3. polled.off \in Int /\ ghost.frontier \in Int /\ ghost'.frontier \in Nat
  BY <1>1, <1>2, OffsetFacts DEF PolledOffsets, Inv, TypeOK, Ghosts
<1>4. polled.off <= ghost'.frontier
  BY <1>1, <1>2, <1>3
<1>5. /\ pos \in Positions /\ app \in Apps /\ async \in Workers
  BY DEF Inv, TypeOK
<1>6. ASSUME NEW due \in BOOLEAN, PollRecord(due)
      PROVE  /\ polled' \in PolledOffsets /\ (polled'.own # 0 => polled'.off # NoPos)
             /\ polled'.off <= ghost'.frontier
  <2> DEFINE s == [off |-> pos, own |-> app.own, kind |-> "position"]
  <2>1. /\ ghost' = ghost /\ app.pc = "positions"
        /\ polled' = Nobody \/ (polled' = s /\ app.own # 0 /\ pos # NoPos)
    BY <1>6 DEF PollRecord
  <2>2. Nobody.own = 0 /\ Nobody.off = NoPos /\ NoPos <= ghost'.frontier
    BY <1>3, OffsetFacts DEF Nobody, NoPos
  <2>3. /\ s \in PolledOffsets /\ s.off = pos
        /\ app.own # 0 => pos <= ghost'.frontier
    BY <1>5, <2>1 DEF PolledOffsets, Apps, Kinds, Inv, OffsetsProcessed
  <2> QED
    BY <2>1, <2>2, <2>3, RecordTypes
<1>7. ASSUME SyncSend \/ SyncEnds
      PROVE  /\ polled' \in PolledOffsets /\ (polled'.own # 0 => polled'.off # NoPos)
             /\ polled'.off <= ghost'.frontier
  <2>1. /\ app.pc \in {"record", "sent"} /\ ghost' = ghost
        /\ polled' = polled \/ \E kind \in {"position", "raised"} : RecordSent(app.off, app.own, kind)
    BY <1>7 DEF SyncSend, SyncEnds
  <2>2. app.off \in Offsets /\ app.own \in Nat /\ app.off <= ghost'.frontier
    BY <1>5, <2>1, OffsetFacts DEF Apps, Inv, OffsetsKnown, OffsetsProcessed
  <2>3. {"position", "raised"} \subseteq Kinds
    BY DEF Kinds
  <2> QED
    BY <1>1, <1>2, <1>4, <2>1, <2>2, <2>3, RecordSentEffect
<1>8. ASSUME WorkerSend
      PROVE  /\ polled' \in PolledOffsets /\ (polled'.own # 0 => polled'.off # NoPos)
             /\ polled'.off <= ghost'.frontier
  <2>1. CASE async.own # 0 /\ pos # NoPos
    <3>1. RecordSent(pos, async.own, "position") /\ Processed(pos)
      BY <1>8, <2>1 DEF WorkerSend
    <3>2. pos \in Offsets /\ async.own \in Nat /\ pos <= ghost'.frontier
      BY <1>3, <1>5, <2>1, <3>1, FrontierGrows, OffsetFacts DEF Workers, Inv
    <3> QED
      BY <1>2, <3>1, <3>2, RecordSentEffect DEF Kinds
  <2>2. CASE ~(async.own # 0 /\ pos # NoPos)
    BY <1>1, <1>4, <1>8, <2>2 DEF WorkerSend
  <2> QED
    BY <2>1, <2>2
<1>9. ASSUME \/ \E n \in 0..1 : PollFetch(n)
             \/ SyncTurn \/ SyncAttempt \/ Schedule \/ CloseDrained
             \/ AppCalls \/ AutoCommitEnds \/ WorkerTurn \/ WorkerTake \/ WorkerAnswer
             \/ WorkerAfter \/ TaskGoesOn \/ BrokerGoesOn \/ Trouble
      PROVE  polled' = polled
  BY <1>9 DEF PollFetch, CommitSync, SyncTurn, SyncAttempt, CloseDrained, Schedule, AppCalls,
              PollStart, PushCallback, Close, AutoCommitEnds, WorkerTurn, WorkerTake,
              WorkerAnswer, WorkerAfter, BrokerGoesOn, BrokerCommit, JoinsComplete, Synced, Trouble, Disconnect,
              Evict, Rebalance, OtherCommits, TaskGivesUp, TaskGoesOn, TaskStart, TaskTurn,
              TaskCommit, TaskAnswer, TaskPrime, TaskInstallGeneration, TaskInstall, LoseMembership
<1> QED
  BY <1>1, <1>4, <1>6, <1>7, <1>8, <1>9 DEF Next, AppGoesOn, Worker

\* The end of a synchronous commit is not inside one.
LEMMA ReturnedFields ==
  /\ Returned.pc \in {"idle", "draining"}
  /\ Idle.pc = "idle" /\ Idle.own = 0
BY DEF Returned, Idle

\* What the application does, by its program counter.
LEMMA AppMoves ==
  ASSUME Inv
  PROVE  /\ \A n \in 0..1 : PollFetch(n) => app.pc = "fetch" /\ app'.pc = "idle"
         /\ \A pick \in BOOLEAN : CommitSync(pick) => app.pc = "idle" /\ app'.pc = "turn"
         /\ PushCallback => app.pc = "idle" /\ app'.pc = "pushed"
         /\ Schedule => app.pc = "pushed" /\ app'.pc = "idle"
         /\ Close => app.pc = "idle" /\ app'.pc \in {"turn", "draining"}
         /\ CloseDrained => app.pc = "draining" /\ app'.pc = "closed"
         /\ SyncTurn => /\ app.pc = "turn" /\ lock = "free"
                        /\ \/ app'.pc \in {"idle", "draining"} /\ lock' = lock
                           \/ app'.pc = "attempt" /\ lock' = "sync"
         /\ SyncAttempt => /\ app.pc = "attempt"
                           /\ \/ app'.pc \in {"idle", "draining"} /\ lock' = "free"
                              \/ app'.pc = "record" /\ lock' = lock
         /\ SyncSend => app.pc = "record" /\ app'.pc = "sent" /\ lock' = lock
         /\ SyncEnds => /\ app.pc = "sent"
                        /\ \/ app'.pc \in {"idle", "draining"} /\ lock' = "free"
                           \/ app'.pc = "attempt" /\ lock' = lock
<1>1. app \in Apps
  BY DEF Inv, TypeOK
<1>2. \A n \in 0..1 : PollFetch(n) => app.pc = "fetch" /\ app'.pc = "idle"
  BY DEF PollFetch, Idle
<1>3. \A pick \in BOOLEAN : CommitSync(pick) => app.pc = "idle" /\ app'.pc = "turn"
  BY DEF CommitSync, Idle
<1>4. /\ PushCallback => app.pc = "idle" /\ app'.pc = "pushed"
      /\ Schedule => app.pc = "pushed" /\ app'.pc = "idle"
      /\ Close => app.pc = "idle" /\ app'.pc \in {"turn", "draining"}
  <2>1. PushCallback => app.pc = "idle" /\ app'.pc = "pushed"
    BY DEF PushCallback, Idle
  <2>2. Schedule => app.pc = "pushed" /\ app'.pc = "idle"
    BY DEF Schedule, Idle
  <2>3. Close => app.pc = "idle" /\ app'.pc \in {"turn", "draining"}
    BY DEF Close, Idle
  <2> QED
    BY <2>1, <2>2, <2>3
<1>5. CloseDrained => app.pc = "draining" /\ app'.pc = "closed"
  BY <1>1 DEF CloseDrained, Apps
<1>6. ASSUME SyncTurn
      PROVE  /\ app.pc = "turn" /\ lock = "free"
             /\ \/ app'.pc \in {"idle", "draining"} /\ lock' = lock
                \/ app'.pc = "attempt" /\ lock' = "sync"
  <2>1. /\ app.pc = "turn" /\ lock = "free"
        /\ \/ app' = Returned /\ lock' = lock
           \/ /\ lock' = "sync"
              /\ \E off : app' = [app EXCEPT !.pc = "attempt", !.off = off, !.own = ident.own]
    BY <1>6 DEF SyncTurn
  <2> QED
    BY <1>1, <2>1, ReturnedFields DEF Apps
<1>7. SyncAttempt => /\ app.pc = "attempt"
                     /\ \/ app'.pc \in {"idle", "draining"} /\ lock' = "free"
                        \/ app'.pc = "record" /\ lock' = lock
  BY <1>1, ReturnedFields DEF SyncAttempt, Apps, Release
<1>8. SyncSend => app.pc = "record" /\ app'.pc = "sent" /\ lock' = lock
  BY <1>1 DEF SyncSend, Apps
<1>9. SyncEnds => /\ app.pc = "sent"
                  /\ \/ app'.pc \in {"idle", "draining"} /\ lock' = "free"
                     \/ app'.pc = "attempt" /\ lock' = lock
  <2>1. SyncEnds => /\ app.pc = "sent"
                    /\ \/ app' = Returned /\ lock' = "free"
                       \/ app' = [app EXCEPT !.pc = "attempt"] /\ lock' = lock
    BY DEF SyncEnds, Release
  <2> QED
    BY <1>1, <2>1, ReturnedFields DEF Apps
<1> QED
  BY <1>2, <1>3, <1>4, <1>5, <1>6, <1>7, <1>8, <1>9

LEMMA LockStep ==
  ASSUME Inv, Next
  PROVE  LockHeld' /\ lock' \in {"free", "sync", "auto", "async", "task"}
<1>1. /\ app \in Apps /\ async \in Workers /\ task \in Tasks /\ LockHeld
      /\ lock \in {"free", "sync", "auto", "async", "task"}
  BY DEF Inv, TypeOK
<1> DEFINE Goal == LockHeld' /\ lock' \in {"free", "sync", "auto", "async", "task"}
<1>2. ASSUME PollStart PROVE Goal
  BY <1>1, <1>2 DEF PollStart, LockHeld, Apps, Tasks
<1>3. ASSUME NEW due \in BOOLEAN, PollRecord(due) PROVE Goal
  BY <1>1, <1>3 DEF PollRecord, LockHeld, Apps, Idle
<1>4. ASSUME (\E n \in 0..1 : PollFetch(n)) \/ (\E pick \in BOOLEAN : CommitSync(pick))
             \/ PushCallback \/ Schedule \/ Close \/ CloseDrained
      PROVE  Goal
  <2>1. /\ app.pc \notin {"attempt", "record", "sent"} /\ UNCHANGED <<lock, task>>
        /\ app'.pc \notin {"attempt", "record", "sent"}
    <3>1. UNCHANGED <<lock, task>>
      BY <1>4 DEF PollFetch, CommitSync, PushCallback, Schedule, Close, CloseDrained
    <3> QED
      BY <1>4, <3>1, AppMoves
  <2>2. async'.pc \in {"take", "offsets", "sent"} <=> async.pc \in {"take", "offsets", "sent"}
    <3>1. CASE Schedule
      <4>1. CASE async.state = "IDLE"
        BY <1>1, <3>1, <4>1 DEF Schedule, Workers, Inv, WorkerFollowsState
      <4>2. CASE async.state # "IDLE"
        BY <1>1, <3>1, <4>2 DEF Schedule, Workers
      <4> QED
        BY <4>1, <4>2
    <3>2. CASE async' = async
      BY <3>2
    <3> QED
      BY <1>4, <3>1, <3>2 DEF PollFetch, CommitSync, PushCallback, Close, CloseDrained
  <2> QED
    BY <1>1, <2>1, <2>2 DEF LockHeld
<1>5. ASSUME SyncTurn \/ SyncAttempt \/ SyncSend \/ SyncEnds PROVE Goal
  <2>1. UNCHANGED <<async, task>>
    BY <1>5 DEF SyncTurn, SyncAttempt, SyncSend, SyncEnds
  <2> QED
    BY <1>1, <1>5, <2>1, AppMoves DEF LockHeld
<1>6. ASSUME AutoCommitEnds PROVE Goal
  BY <1>1, <1>6 DEF AutoCommitEnds, LockHeld, Release
<1>7. ASSUME WorkerTurn \/ WorkerTake PROVE Goal
  BY <1>1, <1>7 DEF WorkerTurn, WorkerTake, LockHeld, Workers
<1>8. ASSUME WorkerSend \/ WorkerAnswer PROVE Goal
  <2>1. /\ async.pc \in {"offsets", "sent"} /\ UNCHANGED <<app, task>>
        /\ \/ async'.pc = "sent" /\ lock' = lock
           \/ async'.pc = "after" /\ lock' = "free"
    BY <1>1, <1>8 DEF WorkerSend, WorkerAnswer, WorkerServed, Release, Workers
  <2> QED
    BY <1>1, <2>1 DEF LockHeld
<1>9. ASSUME WorkerAfter PROVE Goal
  BY <1>1, <1>9 DEF WorkerAfter, LockHeld, Workers, NoWorker
<1>10. ASSUME \/ TaskStart \/ TaskTurn \/ TaskCommit \/ TaskAnswer \/ TaskPrime
              \/ TaskInstallGeneration \/ TaskInstall \/ TaskGivesUp
              \/ \E barred \in BOOLEAN : LoseMembership(barred)
              \/ \E owner \in {"me", "other", "none"} : Synced(owner)
       PROVE  Goal
  <2>1. /\ UNCHANGED <<app, async>>
        /\ \/ /\ task.pc \notin {"attempt", "sent"} /\ task'.pc \notin {"attempt", "sent"}
              /\ lock' = lock
           \/ lock = "free" /\ lock' = "task" /\ task'.pc = "attempt"
           \/ task.pc \in {"attempt", "sent"} /\ lock' = lock /\ task'.pc \in {"attempt", "sent"}
           \/ task.pc \in {"attempt", "sent"} /\ lock' = "free" /\ task'.pc \in {"join", "lost"}
    BY <1>1, <1>10 DEF TaskStart, TaskTurn, TaskCommit, TaskAnswer, TaskPrime,
              TaskInstallGeneration, TaskInstall, TaskGivesUp, LoseMembership, Synced, Release,
              Tasks
  <2> QED
    BY <1>1, <2>1 DEF LockHeld
<1>11. ASSUME \/ JoinsComplete \/ Evict \/ Rebalance \/ OtherCommits
              \/ \E conn \in {"data", "task"} : BrokerCommit(conn)
              \/ \E conn \in {"data", "task"}, processed \in BOOLEAN : Disconnect(conn, processed)
       PROVE  UNCHANGED <<lock, app, async, task>>
  BY <1>11 DEF JoinsComplete, Evict, Rebalance, OtherCommits, BrokerCommit, Disconnect
<1>12. UNCHANGED <<lock, app, async, task>> => Goal
  BY <1>1 DEF LockHeld
<1> QED
  BY <1>2, <1>3, <1>4, <1>5, <1>6, <1>7, <1>8, <1>9, <1>10, <1>11, <1>12
     DEF Next, AppGoesOn, AppCalls, Worker, TaskGoesOn, BrokerGoesOn, Trouble

\* The worker of the asynchronous commits.
LEMMA WorkerStep ==
  ASSUME Inv, Next
  PROVE  WorkerFollowsState'
<1>1. app \in Apps /\ async \in Workers /\ callbacks \in Nat /\ WorkerFollowsState
  BY DEF Inv, TypeOK
<1>2. ASSUME PushCallback PROVE WorkerFollowsState'
  BY <1>1, <1>2, AppMoves DEF PushCallback, WorkerFollowsState
<1>3. ASSUME Schedule PROVE WorkerFollowsState'
  <2>1. CASE async.state = "IDLE"
    BY <1>1, <1>3, <2>1 DEF Schedule, WorkerFollowsState, Workers
  <2>2. CASE async.state # "IDLE"
    BY <1>1, <1>3, <2>2 DEF Schedule, WorkerFollowsState, Workers
  <2> QED
    BY <2>1, <2>2
<1>4. ASSUME WorkerTurn PROVE WorkerFollowsState'
  <2>1. async'.state = "RUNNING" /\ async'.pc = "take"
    BY <1>1, <1>4 DEF WorkerTurn, Workers
  <2> QED
    BY <2>1 DEF WorkerFollowsState
<1>8. ASSUME WorkerTake PROVE WorkerFollowsState'
  <2>1. /\ async.pc = "take" /\ async'.state = async.state /\ async'.pc = "offsets"
        /\ callbacks' = 0
    BY <1>1, <1>8 DEF WorkerTake, Workers
  <2> QED
    BY <1>1, <2>1 DEF WorkerFollowsState
<1>5. ASSUME WorkerSend \/ WorkerAnswer PROVE WorkerFollowsState'
  <2>1. /\ async.pc \in {"offsets", "sent"} /\ async'.state = async.state
        /\ async'.pc \in {"sent", "after"} /\ UNCHANGED <<app, callbacks>>
    BY <1>1, <1>5 DEF WorkerSend, WorkerAnswer, WorkerServed, Workers
  <2> QED
    BY <1>1, <2>1 DEF WorkerFollowsState
<1>6. ASSUME WorkerAfter PROVE WorkerFollowsState'
  <2>1. /\ async.pc = "after" /\ UNCHANGED <<app, callbacks>>
        /\ \/ async.state = "RUNNING" /\ async'.state = "IDLE" /\ async'.pc = "gone"
           \/ async.state # "RUNNING" /\ async'.state = "RUNNING" /\ async'.pc = "turn"
    BY <1>1, <1>6 DEF WorkerAfter, NoWorker, Workers
  <2> QED
    BY <1>1, <2>1 DEF WorkerFollowsState
<1>7. ASSUME \/ \E n \in 0..1 : PollFetch(n)
             \/ \E due \in BOOLEAN : PollRecord(due)
             \/ \E pick \in BOOLEAN : CommitSync(pick)
             \/ SyncTurn \/ SyncAttempt \/ SyncSend \/ SyncEnds \/ CloseDrained \/ PollStart
             \/ Close \/ AutoCommitEnds \/ TaskGoesOn \/ BrokerGoesOn \/ Trouble
      PROVE  WorkerFollowsState'
  <2>1. UNCHANGED <<async, callbacks>>
    BY <1>7 DEF PollRecord, PollFetch, CommitSync, SyncTurn, SyncAttempt, SyncSend, SyncEnds,
              CloseDrained, PollStart, Close, AutoCommitEnds,
              TaskGoesOn, TaskStart, TaskTurn, TaskCommit, TaskAnswer, TaskPrime,
              TaskInstallGeneration, TaskInstall, LoseMembership, BrokerGoesOn, BrokerCommit,
              JoinsComplete, Synced, Trouble, Disconnect, Evict, Rebalance, OtherCommits,
              TaskGivesUp
  <2>2. app.pc # "pushed" \/ app' = app
    <3>1. CASE AutoCommitEnds \/ TaskGoesOn \/ BrokerGoesOn \/ Trouble
      BY <3>1 DEF AutoCommitEnds, TaskGoesOn, TaskStart, TaskTurn, TaskCommit, TaskAnswer,
              TaskPrime, TaskInstallGeneration, TaskInstall, LoseMembership, BrokerGoesOn,
              BrokerCommit, JoinsComplete, Synced, Trouble, Disconnect, Evict, Rebalance,
              OtherCommits, TaskGivesUp
    <3>2. CASE ~(AutoCommitEnds \/ TaskGoesOn \/ BrokerGoesOn \/ Trouble)
      BY <1>7, <3>2 DEF PollRecord, PollFetch, CommitSync, SyncTurn, SyncAttempt, SyncSend,
              SyncEnds, CloseDrained, PollStart, Close
    <3> QED
      BY <3>1, <3>2
  <2> QED
    BY <1>1, <2>1, <2>2 DEF WorkerFollowsState
<1> QED
  BY <1>2, <1>3, <1>4, <1>5, <1>6, <1>7, <1>8 DEF Next, AppGoesOn, AppCalls, Worker

\* The offset that a synchronous commit works on, and the position that a poll records.
LEMMA InHandStep ==
  ASSUME Inv, Next
  PROVE  /\ app'.pc \in {"attempt", "record", "sent"} =>
              app'.off # NoPos /\ app'.off <= ghost'.frontier
         /\ app'.pc = "positions" /\ app'.own # 0 => pos' <= ghost'.frontier
<1>1. /\ app \in Apps /\ ident \in Idents /\ pos \in Positions /\ TypeOK /\ broker \in Brokers
      /\ app.off \in Int /\ pos \in Int /\ ghost.frontier \in Nat
  BY OffsetFacts DEF Inv, TypeOK, Apps
<1>2. ghost' \in Ghosts /\ ghost'.frontier >= ghost.frontier /\ ghost'.frontier \in Nat
  BY BrokerType, OffsetFacts DEF Ghosts
<1>3. /\ app.pc \in {"attempt", "record", "sent"} =>
           app.off # NoPos /\ app.off <= ghost'.frontier
      /\ app.pc = "positions" /\ app.own # 0 => pos <= ghost'.frontier
  BY <1>1, <1>2 DEF Inv, OffsetsKnown, OffsetsProcessed
<1>4. ASSUME PollStart
      PROVE  /\ app'.pc \in {"positions", "fetch"}
             /\ app'.own # 0 => pos' <= ghost'.frontier
  <2>1. /\ app'.pc \in {"positions", "fetch"} /\ app'.own = ident.own /\ pos' = pos
        /\ ident.own # 0 => Processed(pos)
    BY <1>1, <1>4 DEF PollStart, Apps
  <2>2. ident.own # 0 => pos <= ghost'.frontier
    BY <1>1, <1>2, <2>1, FrontierGrows
  <2> QED
    BY <2>1, <2>2
<1>5. ASSUME NEW due \in BOOLEAN, PollRecord(due) PROVE app'.pc = "fetch"
  BY <1>5 DEF PollRecord, Idle
<1>6. ASSUME SyncTurn
      PROVE  app'.pc = "attempt" => app'.off # NoPos /\ app'.off <= ghost'.frontier
  <2>1. PICK off : /\ off = IF app.pick THEN app.off ELSE pos
                   /\ \/ app' = Returned
                      \/ /\ app' = [app EXCEPT !.pc = "attempt", !.off = off, !.own = ident.own]
                         /\ off # NoPos /\ Processed(off)
    BY <1>6 DEF SyncTurn
  <2>2. off \in Positions
    BY <1>1, <2>1 DEF Apps
  <2>3. CASE app' = Returned
    BY <2>3, ReturnedFields
  <2>4. CASE /\ app' = [app EXCEPT !.pc = "attempt", !.off = off, !.own = ident.own]
             /\ off # NoPos /\ Processed(off)
    <3>1. app'.off = off
      BY <1>1, <2>4 DEF Apps
    <3>2. off <= ghost'.frontier
      BY <1>1, <1>2, <2>2, <2>4, FrontierGrows, OffsetFacts
    <3> QED
      BY <2>4, <3>1, <3>2
  <2> QED
    BY <2>1, <2>3, <2>4
<1>7. ASSUME SyncAttempt \/ SyncSend \/ SyncEnds
      PROVE  /\ app.pc \in {"attempt", "record", "sent"} /\ app'.pc # "positions"
             /\ app'.pc \in {"attempt", "record", "sent"} => app'.off = app.off
  <2>1. \/ app' = Returned \/ app' = [app EXCEPT !.pc = "record", !.gen = ident.gen]
        \/ app' = [app EXCEPT !.pc = "sent"] \/ app' = [app EXCEPT !.pc = "attempt"]
    BY <1>7 DEF SyncAttempt, SyncSend, SyncEnds
  <2>2. app.pc \in {"attempt", "record", "sent"}
    BY <1>7 DEF SyncAttempt, SyncSend, SyncEnds
  <2> QED
    BY <1>1, <2>1, <2>2, ReturnedFields DEF Apps
<1>8. ASSUME \/ \E n \in 0..1 : PollFetch(n)
             \/ \E pick \in BOOLEAN : CommitSync(pick)
             \/ PushCallback \/ Schedule \/ Close \/ CloseDrained
      PROVE  app'.pc \notin {"attempt", "record", "sent", "positions"}
  BY <1>8, AppMoves
<1>9. ASSUME \/ TaskPrime \/ TaskInstall
      PROVE  /\ app' = app
             /\ app.pc = "positions" /\ app.own # 0 => pos' <= ghost'.frontier
  <2>1. app' = app /\ ghost' = ghost /\ pos' \in {pos, NoPos, broker.committed}
    BY <1>9 DEF TaskPrime, TaskInstall
  <2>2. NoPos <= ghost'.frontier /\ broker.committed <= ghost'.frontier
    BY <1>2, <2>1 DEF NoPos, Inv, OffsetsProcessed, CommitsProcessed
  <2> QED
    BY <1>3, <2>1, <2>2
<1>10. ASSUME \/ AutoCommitEnds \/ Worker \/ BrokerGoesOn \/ Trouble
              \/ TaskStart \/ TaskTurn \/ TaskCommit \/ TaskAnswer \/ TaskInstallGeneration
              \/ \E barred \in BOOLEAN : LoseMembership(barred)
       PROVE  UNCHANGED <<app, pos>>
  BY <1>10 DEF AutoCommitEnds, Worker, WorkerTurn, WorkerTake, WorkerSend, WorkerAnswer,
              WorkerAfter,
              BrokerGoesOn, BrokerCommit, JoinsComplete, Synced, Trouble, Disconnect, Evict,
              Rebalance, OtherCommits, TaskGivesUp, TaskStart, TaskTurn, TaskCommit,
              TaskAnswer, TaskInstallGeneration, LoseMembership
<1>11. ASSUME SyncTurn PROVE app'.pc \notin {"record", "sent", "positions"}
  BY <1>11, AppMoves
<1> QED
  BY <1>3, <1>4, <1>5, <1>6, <1>7, <1>8, <1>9, <1>10, <1>11
     DEF Next, AppGoesOn, AppCalls, TaskGoesOn

-----------------------------------------------------------------------------
(* The exchange of the holder of the lock.                                 *)

\* A commit that is given up: its request is not live any more.
LEMMA GiveUpEffect ==
  ASSUME Inv, NEW conn \in {"data", "task"}, GiveUp(conn)
  PROVE  /\ wire' \in Wires
         /\ \A c \in {"data", "task"} : \A i \in DOMAIN wire'[c] :
              /\ i \in DOMAIN wire[c]
              /\ wire'[c][i].off = wire[c][i].off /\ wire'[c][i].gen = wire[c][i].gen
              /\ c # conn => wire'[c][i] = wire[c][i]
              /\ c = conn => /\ ~wire'[c][i].live
                             /\ conf.auto => wire'[c][i].kind = "lowering"
                             /\ ~conf.auto => wire'[c][i].kind = wire[c][i].kind
<1>1. \A c \in {"data", "task"} : wire[c] \in Seq(Requests)
  BY DEF Inv, TypeOK
<1> DEFINE d == [i \in DOMAIN wire[conn] |-> Late(wire[conn][i])]
<1>2. wire' = [wire EXCEPT ![conn] = d]
  BY DEF GiveUp
<1>3. wire \in Wires
  BY DEF Inv, TypeOK, Wires
<1>4. ASSUME NEW r \in Requests
      PROVE  /\ Late(r) \in Requests /\ Late(r).off = r.off /\ Late(r).gen = r.gen
             /\ ~Late(r).live /\ (conf.auto => Late(r).kind = "lowering")
             /\ ~conf.auto => Late(r).kind = r.kind
  BY DEF Late, Requests, Kinds
<1>5. ASSUME NEW i \in DOMAIN d
      PROVE  /\ i \in DOMAIN wire[conn] /\ wire[conn][i] \in Requests
             /\ d[i] = Late(wire[conn][i])
  BY <1>1
<1>6. d \in Seq(Requests)
  <2>1. DOMAIN wire[conn] = 1..Len(wire[conn]) /\ Len(wire[conn]) \in Nat
    BY <1>1
  <2>2. DOMAIN d = 1..Len(wire[conn])
    BY <2>1
  <2>3. d = [i \in 1..Len(wire[conn]) |-> d[i]]
    BY <2>1
  <2> HIDE DEF d
  <2>4. \A i \in DOMAIN d : d[i] \in Requests
    BY <1>4, <1>5
  <2>5. d \in [1..Len(wire[conn]) -> Requests]
    BY <2>2, <2>3, <2>4
  <2> QED
    BY <2>1, <2>5
<1> HIDE DEF d
<1>7. wire' \in Wires /\ wire'[conn] = d
  BY <1>2, <1>3, <1>6 DEF Wires
<1>8. \A c \in {"data", "task"} : c # conn => wire'[c] = wire[c]
  BY <1>2, <1>3 DEF Wires
<1>9. ASSUME NEW c \in {"data", "task"}, NEW i \in DOMAIN wire'[c]
      PROVE  /\ i \in DOMAIN wire[c]
             /\ wire'[c][i].off = wire[c][i].off /\ wire'[c][i].gen = wire[c][i].gen
             /\ c # conn => wire'[c][i] = wire[c][i]
             /\ c = conn => /\ ~wire'[c][i].live
                            /\ conf.auto => wire'[c][i].kind = "lowering"
                            /\ ~conf.auto => wire'[c][i].kind = wire[c][i].kind
  <2>1. CASE c # conn
    BY <1>8, <2>1
  <2>2. CASE c = conn
    <3>1. i \in DOMAIN d /\ wire'[c][i] = d[i]
      BY <1>7, <2>2
    <3> QED
      BY <1>4, <1>5, <2>2, <3>1
  <2> QED
    BY <2>1, <2>2
<1> QED
  BY <1>7, <1>9

LEMMA AbandonStep ==
  ASSUME Inv, rpc' = NoRpc, ghost' = ghost, NEW conn \in {"data", "task"}, GiveUp(conn),
         \/ conn = "data" /\ app.pc = "sent"
         \/ conn = "task" /\ task.pc \in {"attempt", "sent"}
  PROVE  ExchangeInv'
<1>1. rpc'.at = "none" /\ rpc'.off = NoPos /\ rpc' \in Exchanges
  BY RecordTypes DEF NoRpc
<1>2. \A c \in {"data", "task"} : c # conn => \A i \in DOMAIN wire[c] : ~wire[c][i].live
  <2>1. conn = "data" => task.pc \notin {"attempt", "sent"}
    BY DEF Inv, LockHeld
  <2>2. task.pc = "attempt" => rpc.at = "none"
    BY DEF Inv, LockHeld, OneExchange
  <2> QED
    BY <2>1, <2>2 DEF Inv, OneExchange
<1>3. \A c \in {"data", "task"} : \A i \in DOMAIN wire'[c] :
        /\ ~wire'[c][i].live /\ i \in DOMAIN wire[c] /\ wire'[c][i].off = wire[c][i].off
  BY <1>2, GiveUpEffect
<1>4. OneExchange'
  BY <1>1, <1>3 DEF OneExchange
<1>5. ExchangeProcessed'
  <2>1. rpc'.off <= ghost'.frontier
    BY <1>1, OffsetFacts DEF Inv, TypeOK, NoPos
  <2> QED
    BY <1>3, <2>1 DEF ExchangeProcessed, Inv, OffsetsProcessed
<1> QED
  BY <1>1, <1>4, <1>5, GiveUpEffect DEF ExchangeInv

\* The broker answers the first request of a connection.
LEMMA AnswerStep ==
  ASSUME Inv, NEW conn \in {"data", "task"}, BrokerCommit(conn), ghost' \in Ghosts,
         ghost'.frontier >= ghost.frontier
  PROVE  ExchangeInv'
<1> DEFINE r == Head(wire[conn])
<1>1. /\ wire[conn] # <<>> /\ wire' = [wire EXCEPT ![conn] = Tail(wire[conn])]
      /\ \/ rpc' = rpc /\ ~r.live
         \/ r.live /\ \E a \in {"ok", "refused"} : rpc' = [rpc EXCEPT !.at = a]
      /\ UNCHANGED <<lock, app, async, task>>
  BY DEF BrokerCommit
<1>2. /\ 1 \in DOMAIN wire[conn] /\ r = wire[conn][1] /\ Tail(wire[conn]) \in Seq(Requests)
      /\ \A i \in DOMAIN Tail(wire[conn]) : /\ i \in Nat /\ i + 1 \in DOMAIN wire[conn]
                                            /\ i + 1 # 1
                                            /\ Tail(wire[conn])[i] = wire[conn][i + 1]
  BY <1>1, FirstRequest DEF Inv
<1>3. /\ rpc \in Exchanges /\ wire \in Wires
  BY DEF Inv, TypeOK, Wires
<1>4. wire' \in Wires /\ rpc' \in Exchanges
  BY <1>1, <1>2, <1>3 DEF Wires, Exchanges
<1>5. rpc'.off = rpc.off /\ (rpc'.at = rpc.at \/ r.live)
  BY <1>1, <1>3 DEF Exchanges
<1>6. /\ wire'[conn] = Tail(wire[conn])
      /\ \A c \in {"data", "task"} : c # conn => wire'[c] = wire[c]
  BY <1>1, <1>3 DEF Wires
<1>7. /\ r.live => rpc.at = "sent"
      /\ r.live => \A c \in {"data", "task"} : \A i \in DOMAIN wire[c] :
           wire[c][i].live => c = conn /\ i = 1
  BY <1>2 DEF Inv, OneExchange
<1>8. ASSUME NEW c \in {"data", "task"}, NEW i \in DOMAIN wire'[c]
      PROVE  \E j \in DOMAIN wire[c] : /\ wire'[c][i] = wire[c][j]
                                       /\ j = IF c = conn THEN i + 1 ELSE i
                                       /\ c = conn => j # 1 /\ i \in Nat
  <2>1. CASE c = conn
    <3>1. i \in DOMAIN Tail(wire[conn]) /\ wire'[c][i] = Tail(wire[conn])[i]
      BY <1>6, <2>1
    <3>2. /\ i \in Nat /\ i + 1 \in DOMAIN wire[conn] /\ i + 1 # 1
          /\ Tail(wire[conn])[i] = wire[conn][i + 1]
      BY <1>2, <3>1
    <3> QED
      BY <2>1, <3>1, <3>2
  <2>2. CASE c # conn
    <3>1. wire'[c] = wire[c]
      BY <1>6, <2>2
    <3> QED
      BY <2>2, <3>1
  <2> QED
    BY <2>1, <2>2
<1>9. OneExchange'
  <2>1. CASE ~r.live
    BY <1>1, <1>8, <2>1 DEF Inv, OneExchange
  <2>2. CASE r.live
    <3>1. \A c \in {"data", "task"} : \A i \in DOMAIN wire'[c] : ~wire'[c][i].live
      BY <1>7, <1>8, <2>2
    <3>2. rpc.at = "sent"
      BY <1>7, <2>2
    <3>3. (rpc.at # "none" => \/ lock = "auto" \/ app.pc = "sent" \/ async.pc = "sent"
                              \/ task.pc = "sent")
          /\ (rpc.at # "none" => rpc.off # NoPos)
      BY DEF Inv, OneExchange
    <3>4. /\ lock' = "auto" \/ app'.pc = "sent" \/ async'.pc = "sent" \/ task'.pc = "sent"
          /\ rpc'.off # NoPos
      BY <1>1, <1>5, <3>2, <3>3
    <3> QED
      BY <3>1, <3>4 DEF OneExchange
  <2> QED
    BY <2>1, <2>2
<1>10. ExchangeProcessed'
  <2>1. \A c \in {"data", "task"} : \A i \in DOMAIN wire[c] : wire[c][i].off \in Int
    <3>1. ASSUME NEW c \in {"data", "task"}, NEW i \in DOMAIN wire[c]
          PROVE  wire[c][i].off \in Int
      <4>1. wire[c][i] \in Requests
        BY <1>3 DEF Wires
      <4> QED
        BY <4>1, OffsetFacts DEF Requests
    <3> QED
      BY <3>1
  <2>2. ghost.frontier \in Int /\ ghost'.frontier \in Int /\ rpc.off \in Int
    BY <1>3, OffsetFacts DEF Inv, TypeOK, Ghosts, Exchanges
  <2>3. /\ rpc.off <= ghost'.frontier
        /\ \A c \in {"data", "task"} : \A i \in DOMAIN wire[c] :
             wire[c][i].off <= ghost'.frontier
    BY <2>1, <2>2 DEF Inv, OffsetsProcessed
  <2>4. ASSUME NEW c \in {"data", "task"}, NEW i \in DOMAIN wire'[c]
        PROVE  wire'[c][i].off <= ghost'.frontier
    BY <1>8, <2>3
  <2> QED
    BY <1>5, <2>3, <2>4 DEF ExchangeProcessed
<1> QED
  BY <1>4, <1>9, <1>10 DEF ExchangeInv

\* The connection breaks.
LEMMA DisconnectStep ==
  ASSUME Inv, NEW conn \in {"data", "task"}, NEW processed \in BOOLEAN,
         Disconnect(conn, processed), ghost' \in Ghosts, ghost'.frontier >= ghost.frontier
  PROVE  ExchangeInv'
<1>1. /\ wire' = [wire EXCEPT ![conn] = <<>>] /\ UNCHANGED <<lock, app, async, task>>
      /\ \/ rpc' = rpc /\ \A i \in DOMAIN wire[conn] : ~wire[conn][i].live
         \/ /\ rpc' = [rpc EXCEPT !.at = "lost"]
            /\ \E i \in DOMAIN wire[conn] : wire[conn][i].live
  BY DEF Disconnect
<1>2. /\ rpc \in Exchanges /\ wire \in Wires /\ <<>> \in Seq(Requests)
  BY DEF Inv, TypeOK, Wires
<1>3. wire' \in Wires /\ rpc' \in Exchanges /\ rpc'.off = rpc.off
  BY <1>1, <1>2 DEF Wires, Exchanges
<1>4. \A c \in {"data", "task"} : \A i \in DOMAIN wire'[c] :
        c # conn /\ i \in DOMAIN wire[c] /\ wire'[c][i] = wire[c][i]
  BY <1>1, <1>2 DEF Wires
<1>5. OneExchange'
  <2>1. CASE rpc' = rpc
    BY <1>1, <1>4, <2>1 DEF Inv, OneExchange
  <2>2. CASE rpc' = [rpc EXCEPT !.at = "lost"] /\ \E i \in DOMAIN wire[conn] : wire[conn][i].live
    <3>1. \A c \in {"data", "task"} : \A i \in DOMAIN wire'[c] : ~wire'[c][i].live
      BY <1>4, <2>2 DEF Inv, OneExchange
    <3>2. rpc.at = "sent"
      BY <2>2 DEF Inv, OneExchange
    <3> QED
      BY <1>1, <1>3, <3>1, <3>2 DEF Inv, OneExchange
  <2> QED
    BY <1>1, <2>1, <2>2
<1>6. ExchangeProcessed'
  <2>1. \A c \in {"data", "task"} : \A i \in DOMAIN wire[c] : wire[c][i].off \in Int
    <3>1. ASSUME NEW c \in {"data", "task"}, NEW i \in DOMAIN wire[c]
          PROVE  wire[c][i].off \in Int
      <4>1. wire[c][i] \in Requests
        BY <1>2 DEF Wires
      <4> QED
        BY <4>1, OffsetFacts DEF Requests
    <3> QED
      BY <3>1
  <2>2. ghost.frontier \in Int /\ ghost'.frontier \in Int /\ rpc.off \in Int
    BY <1>2, OffsetFacts DEF Inv, TypeOK, Ghosts, Exchanges
  <2>3. /\ rpc.off <= ghost'.frontier
        /\ \A c \in {"data", "task"} : \A i \in DOMAIN wire[c] :
             wire[c][i].off <= ghost'.frontier
    BY <2>1, <2>2 DEF Inv, OffsetsProcessed
  <2> QED
    BY <1>3, <1>4, <2>3 DEF ExchangeProcessed
<1> QED
  BY <1>3, <1>5, <1>6 DEF ExchangeInv

\* A holder of the lock that has not sent yet awaits no answer.
LEMMA NothingAwaited ==
  ASSUME Inv, \/ lock = "free" \/ app.pc \in {"attempt", "record"}
              \/ async.pc \in {"take", "offsets"}
              \/ task.pc = "attempt"
  PROVE  rpc.at = "none"
BY DEF Inv, LockHeld, OneExchange

\* A second send, of an interval commit or of the worker.
LEMMA ResendKeeps ==
  ASSUME Inv, Resend, ghost' = ghost,
         lock' = "auto" \/ app'.pc = "sent" \/ async'.pc = "sent", task'.pc # "sent"
  PROVE  ExchangeInv'
<1>1. rpc \in Exchanges /\ rpc.at = "lost" /\ Send("data", rpc.off, rpc.gen, "position", 2)
  BY DEF Inv, TypeOK, Resend
<1>2. rpc.off \in Offsets /\ rpc.gen \in Gens /\ rpc.off <= ghost.frontier
  BY <1>1, OffsetFacts DEF Exchanges, Inv, OneExchange, OffsetsProcessed
<1>3. ghost' \in Ghosts /\ ghost'.frontier >= ghost.frontier /\ rpc.off <= ghost'.frontier
  <2>1. ghost' \in Ghosts
    BY DEF Inv, TypeOK, Ghosts
  <2>2. ghost.frontier \in Int
    BY <2>1, OffsetFacts DEF Ghosts
  <2> QED
    BY <1>2, <2>1, <2>2
<1>4. "position" \in Kinds /\ 2 \in 0..2 /\ rpc.at # "sent"
  BY <1>1 DEF Kinds
<1> QED
  BY <1>1, <1>2, <1>3, <1>4, SendKeeps

LEMMA ExchangeStep ==
  ASSUME Inv, Next
  PROVE  ExchangeInv'
<1>1. /\ app \in Apps /\ async \in Workers /\ task \in Tasks /\ ident \in Idents
      /\ pos \in Positions /\ polled \in PolledOffsets /\ TypeOK
  BY DEF Inv, TypeOK
<1>2. ghost' \in Ghosts /\ ghost'.frontier >= ghost.frontier
  BY BrokerType
<1>3. "position" \in Kinds /\ "lowering" \in Kinds /\ 1 \in 0..2
  BY DEF Kinds
<1>4. ASSUME NEW due \in BOOLEAN, PollRecord(due) PROVE ExchangeInv'
  <2>1. app.pc = "positions" /\ UNCHANGED <<async, task, ghost>>
    BY <1>4 DEF PollRecord
  <2>2. CASE due /\ app.own # 0 /\ pos # NoPos /\ lock = "free"
    <3>1. lock' = "auto" /\ Send("data", pos, app.gen, "position", 1)
      BY <1>4, <2>2 DEF PollRecord
    <3>a. task'.pc # "sent"
      BY <2>1, <2>2, FreeLock
    <3>2. pos \in Offsets /\ app.gen \in Gens /\ pos <= ghost'.frontier /\ rpc.at # "sent"
      BY <1>1, <2>1, <2>2, OffsetFacts, NothingAwaited DEF Apps, Inv, OffsetsProcessed
    <3> QED
      BY <1>2, <1>3, <3>1, <3>2, <3>a, SendKeeps
  <2>3. CASE ~(due /\ app.own # 0 /\ pos # NoPos /\ lock = "free")
    <3>1. UNCHANGED <<lock, rpc, wire>>
      BY <1>4, <2>3 DEF PollRecord
    <3> QED
      BY <1>2, <2>1, <3>1, ExchangeKept
  <2> QED
    BY <2>2, <2>3
<1>5. ASSUME AutoCommitEnds PROVE ExchangeInv'
  <2>1. /\ lock = "auto" /\ UNCHANGED <<ghost, task>>
        /\ (Resend /\ lock' = lock) \/ (rpc.at # "sent" /\ rpc' = NoRpc /\ wire' = wire)
    BY <1>5 DEF AutoCommitEnds, Answered, Release
  <2>2. task'.pc # "sent"
    BY <2>1 DEF Inv, LockHeld
  <2> QED
    BY <2>1, <2>2, ResendKeeps, ExchangeEnds
<1>6. ASSUME SyncAttempt PROVE ExchangeInv'
  <2>1. /\ app.pc = "attempt" /\ UNCHANGED <<async, task, ghost, wire>>
        /\ rpc' = NoRpc \/ UNCHANGED <<lock, rpc>>
    BY <1>6 DEF SyncAttempt, Release
  <2>2. rpc.at # "sent"
    BY <2>1, NothingAwaited
  <2> QED
    BY <1>2, <2>1, <2>2, ExchangeKept, ExchangeEnds
<1>7. ASSUME SyncSend PROVE ExchangeInv'
  <2>1. PICK kind \in {"lowering", "position"} :
          /\ app.pc = "record" /\ ghost' = ghost /\ Send("data", app.off, app.gen, kind, 1)
    BY <1>7 DEF SyncSend
  <2>2. /\ app.off \in Offsets /\ app.gen \in Gens /\ app.off <= ghost'.frontier
        /\ rpc.at # "sent" /\ kind \in Kinds
    BY <1>1, <1>3, <2>1, OffsetFacts, NothingAwaited
       DEF Apps, Inv, OffsetsProcessed, OffsetsKnown
  <2>3. app'.pc = "sent" /\ task'.pc # "sent"
    <3>1. app'.pc = "sent"
      BY <1>7, AppMoves
    <3>2. task' = task
      BY <1>7 DEF SyncSend
    <3> QED
      BY <2>1, <3>1, <3>2 DEF Inv, LockHeld
  <2> QED
    BY <1>2, <1>3, <2>1, <2>2, <2>3, SendKeeps
<1>8. ASSUME SyncEnds PROVE ExchangeInv'
  <2>1. /\ app.pc = "sent" /\ ghost' = ghost /\ rpc' = NoRpc
        /\ \/ rpc.at # "sent" /\ wire' = wire
           \/ GiveUp("data")
    BY <1>8 DEF SyncEnds, Release
  <2> QED
    BY <2>1, AbandonStep, ExchangeEnds
<1>9. ASSUME WorkerSend PROVE ExchangeInv'
  <2>1. async.pc = "offsets" /\ rpc.at # "sent"
    BY <1>9, NothingAwaited DEF WorkerSend
  <2>2. CASE async.own # 0 /\ pos # NoPos
    <3>1. /\ Processed(pos) /\ Send("data", pos, async.gen, "position", 1)
          /\ async' = [async EXCEPT !.pc = "sent"] /\ task' = task
      BY <1>9, <2>2 DEF WorkerSend
    <3>4. task'.pc # "sent"
      BY <2>1, <3>1 DEF Inv, LockHeld
    <3>2. /\ pos \in Offsets /\ async.gen \in Gens /\ async'.pc = "sent"
      BY <1>1, <2>2, <3>1, OffsetFacts DEF Workers
    <3>3. pos <= ghost'.frontier
      <4>1. pos \in Int /\ ghost'.frontier \in Int
        BY <1>1, <1>2, OffsetFacts DEF Ghosts
      <4> QED
        BY <1>1, <3>1, <4>1, FrontierGrows
    <3> QED
      BY <1>2, <1>3, <2>1, <3>1, <3>2, <3>3, <3>4, SendKeeps
  <2>3. CASE ~(async.own # 0 /\ pos # NoPos)
    BY <1>9, <2>1, <2>3, ExchangeEnds DEF WorkerSend, Release
  <2> QED
    BY <2>2, <2>3
<1>10. ASSUME WorkerAnswer PROVE ExchangeInv'
  <2>1. /\ async.pc = "sent" /\ UNCHANGED <<ghost, task>>
        /\ (Resend /\ async' = async) \/ (rpc.at # "sent" /\ rpc' = NoRpc /\ wire' = wire)
    BY <1>10 DEF WorkerAnswer, Answered, Release
  <2>2. task'.pc # "sent"
    BY <2>1 DEF Inv, LockHeld
  <2> QED
    BY <2>1, <2>2, ResendKeeps, ExchangeEnds
<1>11. ASSUME TaskCommit PROVE ExchangeInv'
  <2>1. task.pc = "attempt" /\ rpc.at # "sent" /\ ghost' = ghost
    BY <1>11, NothingAwaited DEF TaskCommit
  <2>2. CASE PreJoinOffsets = Nobody
    BY <1>11, <2>1, <2>2, ExchangeEnds DEF TaskCommit, Release
  <2>3. CASE PreJoinOffsets # Nobody
    <3>1. PreJoinOffsets = polled /\ polled.own # 0
      BY <1>1, <2>3 DEF PreJoinOffsets, Idents
    <3>2. /\ task' = [task EXCEPT !.pc = "sent"]
          /\ Send("task", polled.off, ident.gen, polled.kind, 1)
      BY <1>11, <2>3, <3>1 DEF TaskCommit
    <3>3. /\ polled.off \in Offsets /\ polled.kind \in Kinds /\ ident.gen \in Gens
          /\ polled.off <= ghost'.frontier /\ task'.pc = "sent"
      BY <1>1, <2>1, <3>1, <3>2, OffsetFacts
         DEF PolledOffsets, Idents, Tasks, Inv, OffsetsKnown, OffsetsProcessed
    <3> QED
      BY <1>2, <1>3, <2>1, <3>2, <3>3, SendKeeps
  <2> QED
    BY <2>2, <2>3
<1>12. ASSUME TaskAnswer PROVE ExchangeInv'
  <2>1. rpc.at # "sent" /\ rpc' = NoRpc /\ UNCHANGED <<wire, ghost>>
    BY <1>12 DEF TaskAnswer, Release
  <2> QED
    BY <2>1, ExchangeEnds
<1>13. ASSUME NEW conn \in {"data", "task"}, BrokerCommit(conn) PROVE ExchangeInv'
  BY <1>2, <1>13, AnswerStep
<1>14. ASSUME NEW conn \in {"data", "task"}, NEW processed \in BOOLEAN, Disconnect(conn, processed)
       PROVE  ExchangeInv'
  BY <1>2, <1>14, DisconnectStep
<1>15. ASSUME \/ \E n \in 0..1 : PollFetch(n)
              \/ \E pick \in BOOLEAN : CommitSync(pick)
              \/ PushCallback \/ Schedule \/ Close \/ CloseDrained \/ PollStart \/ SyncTurn
       PROVE  ExchangeInv'
  <2>1. UNCHANGED <<rpc, wire>> /\ (lock' = lock \/ lock = "free") /\ app.pc # "sent"
    BY <1>15 DEF PollFetch, CommitSync, PushCallback, Schedule, Close, CloseDrained, PollStart,
                 SyncTurn
  <2>2. async.pc = "sent" => async'.pc = "sent"
    <3>1. CASE async' = async
      BY <3>1
    <3>2. CASE Schedule
      BY <1>1, <3>2 DEF Schedule, Workers, Inv, WorkerFollowsState
    <3> QED
      BY <1>15, <3>1, <3>2 DEF PollFetch, CommitSync, PushCallback, Close, CloseDrained,
                               PollStart, SyncTurn
  <2>3. task.pc = "sent" <=> task'.pc = "sent"
    BY <1>1, <1>15 DEF PollFetch, CommitSync, PushCallback, Schedule, Close, CloseDrained,
                       PollStart, SyncTurn, Tasks
  <2> QED
    BY <1>2, <2>1, <2>2, <2>3, ExchangeKept
<1>16. ASSUME WorkerTurn \/ WorkerTake \/ WorkerAfter PROVE ExchangeInv'
  <2>1. /\ UNCHANGED <<rpc, wire, app, task>> /\ (lock' = lock \/ lock = "free")
        /\ async.pc # "sent"
    BY <1>16 DEF WorkerTurn, WorkerTake, WorkerAfter
  <2> QED
    BY <1>2, <2>1, ExchangeKept
<1>17. ASSUME \/ TaskStart \/ TaskTurn \/ TaskPrime \/ TaskInstallGeneration \/ TaskInstall
              \/ \E barred \in BOOLEAN : LoseMembership(barred)
              \/ JoinsComplete \/ Evict \/ Rebalance \/ OtherCommits
              \/ \E owner \in {"me", "other", "none"} : Synced(owner)
       PROVE  ExchangeInv'
  <2>1. /\ UNCHANGED <<rpc, wire, app, async>> /\ (lock' = lock \/ lock = "free")
        /\ (task.pc # "sent" /\ task'.pc # "sent") \/ task' = task
    BY <1>1, <1>17 DEF TaskStart, TaskTurn, TaskPrime, TaskInstallGeneration, TaskInstall,
                 LoseMembership, JoinsComplete, Evict, Rebalance, OtherCommits, Synced, Tasks
  <2> QED
    BY <1>2, <2>1, ExchangeKept
<1>18. ASSUME TaskGivesUp PROVE ExchangeInv'
  <2>1. UNCHANGED <<app, async, ghost>> /\ task'.pc \in {"join", "lost"}
    BY <1>1, <1>18 DEF TaskGivesUp, Tasks
  <2>2. CASE task.pc = "turn"
    <3>1. UNCHANGED <<lock, rpc, wire>>
      BY <1>18, <2>2 DEF TaskGivesUp
    <3> QED
      BY <1>2, <2>1, <2>2, <3>1, ExchangeKept
  <2>3. CASE task.pc # "turn"
    <3>1. task.pc \in {"attempt", "sent"} /\ rpc' = NoRpc /\ GiveUp("task")
      BY <1>18, <2>3 DEF TaskGivesUp, Release
    <3> QED
      BY <2>1, <3>1, AbandonStep
  <2> QED
    BY <2>2, <2>3
<1> QED
  BY <1>4, <1>5, <1>6, <1>7, <1>8, <1>9, <1>10, <1>11, <1>12, <1>13, <1>14, <1>15, <1>16, <1>17,
     <1>18 DEF Next, AppGoesOn, AppCalls, Worker, TaskGoesOn, BrokerGoesOn, Trouble

-----------------------------------------------------------------------------
(* The theorems.                                                           *)

LEMMA BudgetStep ==
  ASSUME Inv, Next
  PROVE  conf' \in Confs /\ left' \in [faults : Nat, rebalances : Nat, calls : Nat]
<1>1. conf \in Confs /\ left \in [faults : Nat, rebalances : Nat, calls : Nat]
  BY DEF Inv, TypeOK
<1>2. conf' = conf
  BY DEF Next, AppGoesOn, PollRecord, PollFetch, CommitSync, SyncTurn, SyncAttempt, SyncSend,
         SyncEnds, CloseDrained, Schedule, AppCalls, PollStart, PushCallback, Close,
         AutoCommitEnds, Worker, WorkerTurn, WorkerTake, WorkerSend, WorkerAnswer,
              WorkerAfter,
         BrokerGoesOn, BrokerCommit, JoinsComplete, Synced, Trouble, Disconnect, Evict,
         Rebalance, OtherCommits, TaskGivesUp, TaskGoesOn, TaskStart, TaskTurn, TaskCommit,
         TaskAnswer, TaskPrime, TaskInstallGeneration, TaskInstall, LoseMembership
<1>3. ASSUME PushCallback \/ (\E pick \in BOOLEAN : CommitSync(pick)) \/ Evict \/ Rebalance
             \/ TaskGivesUp
             \/ \E conn \in {"data", "task"}, processed \in BOOLEAN : Disconnect(conn, processed)
      PROVE  left' \in [faults : Nat, rebalances : Nat, calls : Nat]
  <2>1. \/ left.calls > 0 /\ left' = [left EXCEPT !.calls = @ - 1]
        \/ left.faults > 0 /\ left' = [left EXCEPT !.faults = @ - 1]
        \/ left.rebalances > 0 /\ left' = [left EXCEPT !.rebalances = @ - 1]
        \/ left' = left
    BY <1>3 DEF PushCallback, CommitSync, Evict, Rebalance, TaskGivesUp, Disconnect, Spend
  <2> QED
    BY <1>1, <2>1
<1>4. ASSUME \/ AppGoesOn \/ PollStart \/ Close \/ AutoCommitEnds \/ Worker \/ TaskGoesOn
             \/ BrokerGoesOn \/ OtherCommits
      PROVE  left' = left
  BY <1>4 DEF AppGoesOn, PollRecord, PollFetch, SyncTurn, SyncAttempt, SyncSend, SyncEnds,
         CloseDrained, Schedule, PollStart, Close, AutoCommitEnds, Worker, WorkerTurn, WorkerTake,
         WorkerSend, WorkerAnswer, WorkerAfter, BrokerGoesOn, BrokerCommit, JoinsComplete, Synced,
         OtherCommits, TaskGoesOn, TaskStart, TaskTurn, TaskCommit, TaskAnswer, TaskPrime,
         TaskInstallGeneration, TaskInstall, LoseMembership
<1> QED
  BY <1>1, <1>2, <1>3, <1>4 DEF Next, AppCalls, Trouble

LEMMA InitInv == Init => Inv
<1> SUFFICES ASSUME Init PROVE Inv
  OBVIOUS
<1>1. 0 \in Offsets
  BY BoundsAssumption DEF Offsets
<1>2. wire = [c \in {"data", "task"} |-> <<>>] /\ <<>> \in Seq(Requests)
  BY DEF Init
<1>3. \A c \in {"data", "task"} : wire[c] = <<>> /\ DOMAIN wire[c] = {}
  BY <1>2
<1>4. TypeOK
  <2>1. ident \in Idents /\ pos \in Positions /\ polled \in PolledOffsets
    BY <1>1, OffsetFacts, RecordTypes DEF Init, Idents
  <2>2. task \in Tasks
    BY OffsetFacts DEF Init, Tasks
  <2>3. broker \in Brokers
    BY <1>1 DEF Init, Brokers
  <2>4. ghost \in [frontier : Offsets, best : Offsets]
    BY <1>1 DEF Init
  <2>5. left \in [faults : Nat, rebalances : Nat, calls : Nat] /\ conf \in Confs
    BY BoundsAssumption DEF Init
  <2>6. wire \in [{"data", "task"} -> Seq(Requests)]
    BY <1>2
  <2>7. app \in Apps /\ async \in Workers /\ rpc \in Exchanges
    BY RecordTypes DEF Init
  <2>8. callbacks \in Nat /\ lock \in {"free", "sync", "auto", "async", "task"}
    BY DEF Init
  <2> QED
    BY <2>1, <2>2, <2>3, <2>4, <2>5, <2>6, <2>7, <2>8 DEF TypeOK
<1>5. LockHeld
  BY DEF Init, LockHeld, Idle, NoWorker
<1>6. OneExchange
  BY <1>3 DEF Init, OneExchange, NoRpc
<1>7. OffsetsKnown /\ WorkerFollowsState
  BY DEF Init, OffsetsKnown, WorkerFollowsState, Idle, NoWorker, Nobody
<1>8. OffsetsProcessed
  <2>1. ghost.frontier = 0 /\ broker.committed = 0 /\ polled.off = NoPos /\ rpc.off = NoPos
        /\ app.pc = "idle"
    BY DEF Init, Nobody, NoRpc, Idle
  <2>2. NoPos <= 0 /\ 0 <= 0 /\ app.pc \notin {"attempt", "record", "sent", "positions"}
    BY <2>1 DEF NoPos
  <2> QED
    BY <1>3, <2>1, <2>2 DEF OffsetsProcessed, CommitsProcessed
<1> QED
  BY <1>4, <1>5, <1>6, <1>7, <1>8 DEF Inv

LEMMA InvStep ==
  ASSUME Inv, [Next]_vars
  PROVE  Inv'
<1>1. CASE UNCHANGED vars
  BY <1>1 DEF vars, Inv, TypeOK, LockHeld, OneExchange, OffsetsKnown, WorkerFollowsState,
              OffsetsProcessed, CommitsProcessed
<1>2. CASE Next
  <2>1. /\ ident' \in Idents /\ pos' \in Positions /\ app' \in Apps /\ task' \in Tasks
        /\ async' \in Workers /\ callbacks' \in Nat
    BY <1>2, IdentType, PosType, AppType, TaskType, WorkerType
  <2>2. /\ conf' \in Confs /\ left' \in [faults : Nat, rebalances : Nat, calls : Nat]
    BY <1>2, BudgetStep
  <2>3. /\ broker' \in Brokers /\ ghost' \in Ghosts /\ CommitsProcessed'
    BY <1>2, BrokerType DEF CommitsProcessed
  <2>4. /\ polled' \in PolledOffsets /\ (polled'.own # 0 => polled'.off # NoPos)
        /\ polled'.off <= ghost'.frontier
    BY <1>2, PolledStep
  <2>5. LockHeld' /\ lock' \in {"free", "sync", "auto", "async", "task"}
    BY <1>2, LockStep
  <2>6. WorkerFollowsState'
    BY <1>2, WorkerStep
  <2>7. /\ app'.pc \in {"attempt", "record", "sent"} =>
             app'.off # NoPos /\ app'.off <= ghost'.frontier
        /\ app'.pc = "positions" /\ app'.own # 0 => pos' <= ghost'.frontier
    BY <1>2, InHandStep
  <2>8. ExchangeInv'
    BY <1>2, ExchangeStep
  <2>9. TypeOK'
    BY <2>1, <2>2, <2>3, <2>4, <2>5, <2>8 DEF TypeOK, ExchangeInv, Wires, Ghosts
  <2>10. OffsetsKnown' /\ OneExchange'
    BY <2>4, <2>7, <2>8 DEF OffsetsKnown, ExchangeInv
  <2>11. OffsetsProcessed'
    BY <2>3, <2>4, <2>7, <2>8 DEF OffsetsProcessed, ExchangeInv, ExchangeProcessed
  <2> QED
    BY <2>5, <2>6, <2>9, <2>10, <2>11 DEF Inv
<1> QED
  BY <1>1, <1>2

\* The inductive invariant holds in every state of every run of the commits.
THEOREM Invariance == Spec => []Inv
<1>1. Inv /\ [Next]_vars => Inv'
  BY InvStep
<1> QED
  BY <1>1, InitInv, PTL DEF Spec

\* The records of the module keep their types: no step of a commit, of the worker or of the
\* coordinator task leaves a field without a meaning.
THEOREM TypeCorrect == Spec => []TypeOK
<1>1. Inv => TypeOK
  BY DEF Inv
<1> QED
  BY <1>1, Invariance, PTL

\* A callback of commit_async, and a mark, always has a worker that will take it or a caller
\* that is about to start one (schedule_commit_async).
THEOREM CallbackAlwaysHasWorker == Spec => []CallbackHasWorker
<1>1. Inv => CallbackHasWorker
  BY DEF Inv, TypeOK, Workers, WorkerFollowsState, CallbackHasWorker
<1> QED
  BY <1>1, Invariance, PTL

\* The group never stores an offset past what the application has finished, whichever commit
\* sends it, on whichever connection, however late it arrives.
THEOREM CommitsAlwaysProcessed == Spec => []CommitsProcessed
<1>1. Inv => CommitsProcessed
  BY DEF Inv, OffsetsProcessed
<1> QED
  BY <1>1, Invariance, PTL

-----------------------------------------------------------------------------
(***************************************************************************)
(* The committed offset does not move back, but for a selected offset or a *)
(* request that was given up beside automatic commits.                     *)
(*                                                                         *)
(* The coordinator accepts only requests of its generation.  While the     *)
(* member is in that generation and owns the partition, its position is    *)
(* not below any position that was committed, and the positions it has in  *)
(* hand are in the order in which they go out.  A request of an earlier    *)
(* generation, which may be lower, is refused.                             *)
(***************************************************************************)

Conns == {"data", "task"}

\* The member has joined the generation of the coordinator.
Current == ident.gen = broker.gen

\* The coordinator may accept a request of this generation.
Valid(gen) == gen = broker.gen /\ broker.known

\* The member has the partition and no other member has been given it.
Owns == ident.own # 0 /\ broker.owner # "other"

\* What was read from the identity is of a generation that exists; the ownership id of the next
\* assignment is a new one.
OldOwn(own) == own <= broker.gen + 1 /\ (own = broker.gen + 1 => Current \/ ~broker.known)
OldGen(gen) == gen <= broker.gen

SnapshotsOld ==
  /\ OldOwn(ident.own) /\ OldOwn(polled.own) /\ OldOwn(app.own) /\ OldOwn(async.own)
  /\ OldGen(ident.gen) /\ OldGen(app.gen) /\ OldGen(async.gen) /\ OldGen(rpc.gen)
  /\ \A c \in Conns : \A i \in DOMAIN wire[c] : OldGen(wire[c][i].gen)

\* A join, from the answer of the coordinator to the assignment that is published.
JoinFits ==
  /\ task.pc \in {"synced", "primed", "revoking"} =>
       task.gen = broker.gen /\ broker.known /\ (task.mine <=> broker.owner = "me")
  /\ task.pc \in {"synced", "primed"} => ~Current
  /\ task.pc = "primed" => Added
  /\ task.pc = "revoking" => ~task.mine
  /\ broker.phase = "Completing" => task.pc = "join" /\ broker.known /\ ~Current
  /\ broker.owner = "other" /\ ident.own # 0 => task.pc = "synced" /\ ~conf.coop

\* A request that was given up: beside automatic commits it may only lower the best commit,
\* and without them it is one of a synchronous commit.
GivenUp(c, r) == ~r.live /\ (conf.auto => r.kind = "lowering") /\ (~conf.auto => c = "data")

ModesFit ==
  /\ polled.own # 0 => conf.auto
  /\ app.pc = "positions" => conf.auto
  /\ task.pc \in {"turn", "attempt", "sent"} => conf.auto
  /\ app.pc = "sent" => rpc.off = app.off
  /\ \A c \in Conns : \A i \in DOMAIN wire[c] :
       /\ wire[c][i].live \/ GivenUp(c, wire[c][i])
       /\ wire[c][i].kind = "raised" => c = "task"
       /\ wire[c][i].live => /\ wire[c][i].off = rpc.off
                             /\ app.pc = "sent" /\ app.pick => wire[c][i].kind = "lowering"

Base == Inv /\ SnapshotsOld /\ JoinFits /\ ModesFit

-----------------------------------------------------------------------------
(* The generations.                                                        *)

\* The actions that change neither the identity nor the generation and the members of the
\* group.
Elsewhere ==
  \/ AppGoesOn \/ AppCalls \/ AutoCommitEnds \/ Worker
  \/ TaskStart \/ TaskTurn \/ TaskCommit \/ TaskAnswer \/ TaskPrime \/ TaskGivesUp
  \/ (\E conn \in Conns : BrokerCommit(conn))
  \/ (\E conn \in Conns, processed \in BOOLEAN : Disconnect(conn, processed))
  \/ OtherCommits

LEMMA NextSplit ==
  Next <=> \/ Elsewhere \/ (\E barred \in BOOLEAN : LoseMembership(barred))
           \/ TaskInstallGeneration \/ TaskInstall
           \/ JoinsComplete \/ (\E owner \in {"me", "other", "none"} : Synced(owner))
           \/ Evict \/ Rebalance
BY DEF Next, Elsewhere, TaskGoesOn, BrokerGoesOn, Trouble, Conns

LEMMA ElsewhereKeeps ==
  ASSUME Inv, Elsewhere
  PROVE  /\ UNCHANGED <<conf, ident>>
         /\ broker'.gen = broker.gen /\ broker'.known = broker.known
         /\ broker'.owner = broker.owner /\ broker'.phase = broker.phase
<1>1. broker \in Brokers
  BY DEF Inv, TypeOK
<1>2. ASSUME \/ AppGoesOn \/ AppCalls \/ AutoCommitEnds \/ Worker
             \/ TaskStart \/ TaskTurn \/ TaskCommit \/ TaskAnswer \/ TaskPrime \/ TaskGivesUp
      PROVE  UNCHANGED <<conf, ident, broker>>
  BY <1>2 DEF AppGoesOn, PollRecord, PollFetch, CommitSync, SyncTurn, SyncAttempt, SyncSend,
              SyncEnds, CloseDrained, Schedule, AppCalls, PollStart, PushCallback, Close,
              AutoCommitEnds, Worker, WorkerTurn, WorkerTake, WorkerSend, WorkerAnswer,
              WorkerAfter,
              TaskStart, TaskTurn, TaskCommit, TaskAnswer, TaskPrime, TaskGivesUp
<1>3. ASSUME NEW r, Apply(r)
      PROVE  /\ broker'.gen = broker.gen /\ broker'.known = broker.known
             /\ broker'.owner = broker.owner /\ broker'.phase = broker.phase
  BY <1>1, <1>3 DEF Apply, Brokers
<1>4. ASSUME NEW conn \in Conns, BrokerCommit(conn)
      PROVE  UNCHANGED <<conf, ident>> /\ Apply(Head(wire[conn]))
  BY <1>4 DEF BrokerCommit
<1>5. ASSUME NEW conn \in Conns, NEW processed \in BOOLEAN, Disconnect(conn, processed)
      PROVE  UNCHANGED <<conf, ident>> /\ (broker' = broker \/ Apply(Head(wire[conn])))
  BY <1>5 DEF Disconnect
<1>6. ASSUME OtherCommits
      PROVE  /\ UNCHANGED <<conf, ident>>
             /\ broker'.gen = broker.gen /\ broker'.known = broker.known
             /\ broker'.owner = broker.owner /\ broker'.phase = broker.phase
  BY <1>1, <1>6 DEF OtherCommits, Brokers
<1> QED
  BY <1>2, <1>3, <1>4, <1>5, <1>6 DEF Elsewhere

\* The other actions, in the fields that matter here.
LEMMA GroupMoves ==
  ASSUME Inv
  PROVE  /\ \A barred \in BOOLEAN : LoseMembership(barred) =>
              /\ task.pc \in {"idle", "lost", "join"} /\ ~broker.known
              /\ ident'.own = 0 /\ ident'.gen = NoGen
              /\ task'.pc \in {"idle", "fenced", "join"}
              /\ UNCHANGED <<conf, pos, polled, lock, app, async, rpc, wire, broker, ghost>>
         /\ TaskInstallGeneration =>
              /\ task.pc = "synced" /\ conf.coop /\ ~task.mine /\ ident.own # 0
              /\ ident'.own = ident.own /\ ident'.gen = task.gen
              /\ task'.pc = "revoking" /\ task'.gen = task.gen /\ task'.mine = task.mine
              /\ UNCHANGED <<conf, pos, polled, lock, app, async, rpc, wire, broker, ghost>>
         /\ TaskInstall =>
              /\ task.pc \in {"synced", "primed", "revoking"}
              /\ task.pc = "synced" => ~Added
              /\ ident'.gen = task.gen /\ task'.pc = "idle"
              /\ ~task.mine => ident'.own = 0 /\ pos' = NoPos
              /\ task.mine => pos' = pos
              /\ task.mine /\ conf.coop /\ ident.own # 0 => ident'.own = ident.own
              /\ task.mine /\ ~(conf.coop /\ ident.own # 0) => ident'.own = task.gen + 1
              /\ UNCHANGED <<conf, polled, lock, app, async, rpc, wire, broker, ghost>>
<1>1. ident \in Idents /\ task \in Tasks
  BY DEF Inv, TypeOK
<1>2. ASSUME NEW barred \in BOOLEAN, LoseMembership(barred)
      PROVE  /\ task.pc \in {"idle", "lost", "join"} /\ ~broker.known
             /\ ident'.own = 0 /\ ident'.gen = NoGen
             /\ task'.pc \in {"idle", "fenced", "join"}
             /\ UNCHANGED <<conf, pos, polled, lock, app, async, rpc, wire, broker, ghost>>
  BY <1>1, <1>2 DEF LoseMembership, Tasks
<1>3. ASSUME TaskInstallGeneration
      PROVE  /\ task.pc = "synced" /\ conf.coop /\ ~task.mine /\ ident.own # 0
             /\ ident'.own = ident.own /\ ident'.gen = task.gen
             /\ task'.pc = "revoking" /\ task'.gen = task.gen /\ task'.mine = task.mine
             /\ UNCHANGED <<conf, pos, polled, lock, app, async, rpc, wire, broker, ghost>>
  BY <1>1, <1>3 DEF TaskInstallGeneration, Tasks, Idents
<1>4. ASSUME TaskInstall
      PROVE  /\ task.pc \in {"synced", "primed", "revoking"}
             /\ task.pc = "synced" => ~Added
             /\ ident'.gen = task.gen /\ task'.pc = "idle"
             /\ ~task.mine => ident'.own = 0 /\ pos' = NoPos
             /\ task.mine => pos' = pos
             /\ task.mine /\ conf.coop /\ ident.own # 0 => ident'.own = ident.own
             /\ task.mine /\ ~(conf.coop /\ ident.own # 0) => ident'.own = task.gen + 1
             /\ UNCHANGED <<conf, polled, lock, app, async, rpc, wire, broker, ghost>>
  BY <1>1, <1>4 DEF TaskInstall, Tasks, NextOwn
<1> QED
  BY <1>2, <1>3, <1>4

LEMMA CoordinatorMoves ==
  ASSUME Inv
  PROVE  /\ JoinsComplete =>
              /\ broker.phase = "Preparing" /\ task.pc = "join"
              /\ broker'.phase = "Completing" /\ broker'.gen = broker.gen + 1 /\ broker'.known
              /\ broker'.owner = broker.owner
              /\ UNCHANGED <<conf, ident, pos, polled, lock, app, async, task, rpc, wire, ghost>>
         /\ \A owner \in {"me", "other", "none"} : Synced(owner) =>
              /\ broker.phase = "Completing" /\ task.pc = "join"
              /\ owner = "other" => ~(conf.coop /\ ident.own # 0)
              /\ broker'.phase = "Stable" /\ broker'.gen = broker.gen
              /\ broker'.known = broker.known /\ broker'.owner = owner
              /\ task'.pc = "synced" /\ task'.gen = broker.gen /\ task'.mine = (owner = "me")
              /\ UNCHANGED <<conf, ident, pos, polled, lock, app, async, rpc, wire, ghost>>
         /\ Evict => /\ task.pc \in {"idle", "turn", "attempt", "sent"}
                     /\ broker'.gen = broker.gen /\ ~broker'.known /\ broker'.owner = "none"
                     /\ broker'.phase = "Preparing"
                     /\ UNCHANGED <<conf, ident, pos, polled, lock, app, async, task, rpc, wire,
                                    ghost>>
         /\ Rebalance => /\ broker'.gen = broker.gen /\ broker'.known = broker.known
                         /\ broker'.owner = broker.owner /\ broker'.phase = "Preparing"
                         /\ UNCHANGED <<conf, ident, pos, polled, lock, app, async, task, rpc,
                                        wire, ghost>>
<1>1. broker \in Brokers /\ task \in Tasks
  BY DEF Inv, TypeOK
<1>2. ASSUME JoinsComplete
      PROVE  /\ broker.phase = "Preparing" /\ task.pc = "join"
             /\ broker'.phase = "Completing" /\ broker'.gen = broker.gen + 1 /\ broker'.known
             /\ broker'.owner = broker.owner
             /\ UNCHANGED <<conf, ident, pos, polled, lock, app, async, task, rpc, wire, ghost>>
  BY <1>1, <1>2 DEF JoinsComplete, Brokers
<1>3. ASSUME NEW owner \in {"me", "other", "none"}, Synced(owner)
      PROVE  /\ broker.phase = "Completing" /\ task.pc = "join"
             /\ owner = "other" => ~(conf.coop /\ ident.own # 0)
             /\ broker'.phase = "Stable" /\ broker'.gen = broker.gen
             /\ broker'.known = broker.known /\ broker'.owner = owner
             /\ task'.pc = "synced" /\ task'.gen = broker.gen /\ task'.mine = (owner = "me")
             /\ UNCHANGED <<conf, ident, pos, polled, lock, app, async, rpc, wire, ghost>>
  <2>1. /\ broker' = [broker EXCEPT !.phase = "Stable", !.owner = owner]
        /\ task' = [task EXCEPT !.pc = "synced", !.gen = broker.gen, !.mine = owner = "me"]
        /\ broker.phase = "Completing" /\ task.pc = "join"
        /\ owner = "other" => ~(conf.coop /\ ident.own # 0)
        /\ UNCHANGED <<conf, ident, pos, polled, lock, app, async, rpc, wire, ghost>>
    BY <1>3 DEF Synced
  <2> QED
    BY <1>1, <2>1 DEF Brokers, Tasks
<1>4. ASSUME Evict
      PROVE  /\ task.pc \in {"idle", "turn", "attempt", "sent"}
             /\ broker'.gen = broker.gen /\ ~broker'.known /\ broker'.owner = "none"
             /\ broker'.phase = "Preparing"
             /\ UNCHANGED <<conf, ident, pos, polled, lock, app, async, task, rpc, wire, ghost>>
  BY <1>1, <1>4 DEF Evict, Brokers
<1>5. ASSUME Rebalance
      PROVE  /\ broker'.gen = broker.gen /\ broker'.known = broker.known
             /\ broker'.owner = broker.owner /\ broker'.phase = "Preparing"
             /\ UNCHANGED <<conf, ident, pos, polled, lock, app, async, task, rpc, wire, ghost>>
  BY <1>1, <1>5 DEF Rebalance, Brokers
<1> QED
  BY <1>2, <1>3, <1>4, <1>5

\* What is old stays old.
LEMMA OldStays ==
  ASSUME Base, Next
  PROVE  /\ \A own \in Nat : OldOwn(own) => OldOwn(own)'
         /\ \A gen \in Gens : OldGen(gen) => OldGen(gen)'
<1>1. /\ broker.gen \in Nat /\ Inv /\ JoinFits
      /\ \A g \in Gens : g \in Int
  BY OffsetFacts DEF Base, Inv, TypeOK, Brokers
<1> DEFINE Goal == /\ \A own \in Nat : OldOwn(own) => OldOwn(own)'
                   /\ \A gen \in Gens : OldGen(gen) => OldGen(gen)'
<1>2. ASSUME Elsewhere PROVE Goal
  BY <1>1, <1>2, ElsewhereKeeps DEF OldOwn, OldGen, Current
<1>3. ASSUME NEW barred \in BOOLEAN, LoseMembership(barred) PROVE Goal
  BY <1>1, <1>3, GroupMoves DEF OldOwn, OldGen, Current
<1>4. ASSUME TaskInstallGeneration \/ TaskInstall PROVE Goal
  <2>1. broker' = broker /\ ident'.gen = broker.gen
    BY <1>1, <1>4, GroupMoves DEF JoinFits
  <2> QED
    BY <1>1, <2>1 DEF OldOwn, OldGen, Current
<1>5. ASSUME JoinsComplete PROVE Goal
  <2>1. broker'.gen = broker.gen + 1 /\ broker'.known
    BY <1>1, <1>5, CoordinatorMoves
  <2> QED
    BY <1>1, <2>1 DEF OldOwn, OldGen, Current
<1>6. ASSUME Evict \/ Rebalance \/ \E owner \in {"me", "other", "none"} : Synced(owner)
      PROVE  Goal
  <2>1. ident' = ident /\ broker'.gen = broker.gen /\ (broker'.known => broker.known)
    BY <1>1, <1>6, CoordinatorMoves
  <2> QED
    BY <1>1, <2>1 DEF OldOwn, OldGen, Current
<1> QED
  BY <1>2, <1>3, <1>4, <1>5, <1>6, NextSplit

-----------------------------------------------------------------------------
(* The requests on the way.                                                *)

SameRequest(r, s) ==
  r.off = s.off /\ r.gen = s.gen /\ (r.kind = s.kind \/ r.kind = "lowering")

\* Requests leave at the front, or all of them are lost, or nobody waits for them any more.
Shrinks ==
  \A c \in Conns : \E d \in Nat : \A i \in DOMAIN wire'[c] :
    /\ i + d \in DOMAIN wire[c] /\ SameRequest(wire'[c][i], wire[c][i + d])
    /\ wire'[c][i].live = wire[c][i + d].live \/ GivenUp(c, wire'[c][i])

PollSends ==
  /\ app.pc = "positions" /\ app.own # 0 /\ pos # NoPos
  /\ lock = "free" /\ lock' = "auto" /\ app' = [Idle EXCEPT !.pc = "fetch"]
  /\ Send("data", pos, app.gen, "position", 1)
  /\ polled' = [off |-> pos, own |-> app.own, kind |-> "position"]
  /\ UNCHANGED <<conf, ident, pos, async, task, broker, ghost>>

WorkerSends ==
  /\ async.pc = "offsets" /\ async.own # 0 /\ pos # NoPos
  /\ Send("data", pos, async.gen, "position", 1)
  /\ RecordSent(pos, async.own, "position") /\ Processed(pos)
  /\ async' = [async EXCEPT !.pc = "sent"]
  /\ UNCHANGED <<conf, ident, pos, lock, app, task, broker>>

TaskSends ==
  /\ task.pc = "attempt" /\ ident.own # 0 /\ polled.own = ident.own
  /\ Send("task", polled.off, ident.gen, polled.kind, 1)
  /\ task' = [task EXCEPT !.pc = "sent"]
  /\ UNCHANGED <<conf, ident, pos, polled, lock, app, async, broker, ghost>>

Resends ==
  /\ lock \in {"auto", "async"} /\ Resend
  /\ UNCHANGED <<conf, ident, pos, polled, lock, app, async, task, broker, ghost>>

Sends == PollSends \/ SyncSend \/ WorkerSends \/ TaskSends \/ Resends

LEMMA SameWire ==
  ASSUME Inv, wire' = wire
  PROVE  Shrinks
<1>1. \A c \in Conns : wire[c] \in Seq(Requests)
  BY DEF Inv, TypeOK, Conns
<1>2. \A c \in Conns : \A i \in DOMAIN wire[c] : i \in Nat /\ i + 0 = i
  BY <1>1
<1> QED
  BY <1>2 DEF Shrinks, SameRequest

LEMMA ShorterWire ==
  ASSUME Inv, NEW conn \in Conns, wire[conn] # <<>>,
         \/ wire' = [wire EXCEPT ![conn] = Tail(@)] \/ wire' = [wire EXCEPT ![conn] = <<>>]
  PROVE  Shrinks
<1>1. \A c \in Conns : wire[c] \in Seq(Requests) /\ DOMAIN wire = Conns
  BY DEF Inv, TypeOK, Conns
<1>2. SUFFICES ASSUME NEW c \in Conns
               PROVE  \E d \in Nat : \A i \in DOMAIN wire'[c] :
                        /\ i + d \in DOMAIN wire[c] /\ SameRequest(wire'[c][i], wire[c][i + d])
                        /\ wire'[c][i].live = wire[c][i + d].live \/ GivenUp(c, wire'[c][i])
  BY DEF Shrinks
<1>3. CASE c # conn
  <2>1. wire'[c] = wire[c] /\ \A i \in DOMAIN wire[c] : i + 0 = i
    BY <1>1, <1>3
  <2> QED
    BY <2>1 DEF SameRequest
<1>4. CASE c = conn
  <2>1. wire'[c] = Tail(wire[c]) \/ wire'[c] = <<>>
    BY <1>1, <1>4
  <2>2. CASE wire'[c] = Tail(wire[c])
    <3>1. \A i \in DOMAIN wire'[c] : i + 1 \in DOMAIN wire[c] /\ wire'[c][i] = wire[c][i + 1]
      BY <1>4, <2>2, FirstRequest DEF Inv, Conns
    <3> QED
      BY <3>1 DEF SameRequest
  <2>3. CASE wire'[c] = <<>>
    BY <2>3
  <2> QED
    BY <2>1, <2>2, <2>3
<1> QED
  BY <1>3, <1>4

LEMMA GiveUpShrinks ==
  ASSUME Inv, NEW conn \in Conns, GiveUp(conn), conn = "task" => conf.auto
  PROVE  Shrinks
<1>1. \A c \in Conns : \A i \in DOMAIN wire'[c] :
        /\ i \in DOMAIN wire[c]
        /\ wire'[c][i].off = wire[c][i].off /\ wire'[c][i].gen = wire[c][i].gen
        /\ c # conn => wire'[c][i] = wire[c][i]
        /\ c = conn => /\ ~wire'[c][i].live
                       /\ conf.auto => wire'[c][i].kind = "lowering"
                       /\ ~conf.auto => wire'[c][i].kind = wire[c][i].kind
  BY GiveUpEffect DEF Conns
<1>2. \A c \in Conns : \A i \in DOMAIN wire[c] : i + 0 = i
  BY DEF Inv, TypeOK, Conns
<1> QED
  BY <1>1, <1>2 DEF Shrinks, SameRequest, GivenUp, Conns

\* What a step does to the requests on the way.
LEMMA WireStep ==
  ASSUME Base, Next
  PROVE  Shrinks \/ Sends
<1>1. Inv /\ ModesFit
  BY DEF Base
<1>2. ASSUME NEW due \in BOOLEAN, PollRecord(due) PROVE Shrinks \/ Sends
  BY <1>1, <1>2, SameWire DEF PollRecord, Sends, PollSends
<1>3. ASSUME SyncEnds \/ TaskGivesUp PROVE Shrinks
  <2>1. wire' = wire \/ GiveUp("data") \/ (GiveUp("task") /\ conf.auto)
    BY <1>1, <1>3 DEF SyncEnds, TaskGivesUp, ModesFit
  <2>2. CASE wire' = wire
    BY <1>1, <2>2, SameWire
  <2>3. ASSUME NEW conn \in Conns, GiveUp(conn), conn = "task" => conf.auto PROVE Shrinks
    BY <1>1, <2>3, GiveUpShrinks
  <2> QED
    BY <2>1, <2>2, <2>3 DEF Conns
<1>4. ASSUME AutoCommitEnds \/ WorkerAnswer PROVE Shrinks \/ Sends
  BY <1>1, <1>4, SameWire DEF AutoCommitEnds, WorkerAnswer, Sends, Resends, Release, Inv, LockHeld, Resend
<1>5. ASSUME WorkerSend PROVE Shrinks \/ Sends
  BY <1>1, <1>5, SameWire DEF WorkerSend, Sends, WorkerSends
<1>6. ASSUME TaskCommit PROVE Shrinks \/ Sends
  BY <1>1, <1>6, SameWire DEF TaskCommit, PreJoinOffsets, Sends, TaskSends
<1>7. ASSUME NEW conn \in Conns, BrokerCommit(conn) PROVE Shrinks
  BY <1>1, <1>7, ShorterWire DEF BrokerCommit
<1>8. ASSUME NEW conn \in Conns, NEW processed \in BOOLEAN, Disconnect(conn, processed)
      PROVE  Shrinks
  BY <1>1, <1>8, ShorterWire DEF Disconnect
<1>9. ASSUME \/ (\E n \in 0..1 : PollFetch(n)) \/ SyncTurn \/ SyncAttempt \/ Schedule
             \/ CloseDrained \/ AppCalls \/ WorkerTurn \/ WorkerTake \/ WorkerAfter
             \/ TaskStart \/ TaskTurn \/ TaskAnswer \/ TaskPrime \/ OtherCommits
      PROVE  wire' = wire
  BY <1>9 DEF PollFetch, SyncTurn, SyncAttempt, Schedule, CloseDrained, AppCalls, PollStart,
              CommitSync, PushCallback, Close, WorkerTurn, WorkerTake, WorkerAfter, TaskStart,
              TaskTurn, TaskAnswer, TaskPrime, OtherCommits
<1>10. ASSUME ~Elsewhere PROVE wire' = wire
  BY <1>1, <1>10, NextSplit, GroupMoves, CoordinatorMoves
<1> QED
  BY <1>1, <1>2, <1>3, <1>4, <1>5, <1>6, <1>7, <1>8, <1>9, <1>10, SameWire
     DEF Elsewhere, AppGoesOn, Worker, Sends

\* Where the generations and ownership ids of a step come from.
LEMMA AppSnapshots ==
  ASSUME Inv, Next
  PROVE  /\ app'.own \in {app.own, ident.own, 0} /\ app'.gen \in {app.gen, ident.gen, NoGen}
         /\ polled'.own \in {polled.own, app.own, async.own, 0}
         /\ async'.own \in {async.own, ident.own, 0}
         /\ async'.gen \in {async.gen, ident.gen, NoGen}
<1>1. app \in Apps /\ async \in Workers /\ polled \in PolledOffsets
  BY DEF Inv, TypeOK
<1>2. Idle.own = 0 /\ Idle.gen = NoGen /\ Returned.own = 0 /\ Returned.gen = NoGen
  BY DEF Idle, Returned
<1>3. /\ \A off, own, kind : RecordSent(off, own, kind) => polled'.own \in {polled.own, own}
      /\ Nobody.own = 0
  BY DEF RecordSent, MergeSentPositions, Nobody
<1> DEFINE Goal == /\ app'.own \in {app.own, ident.own, 0}
                   /\ app'.gen \in {app.gen, ident.gen, NoGen}
                   /\ polled'.own \in {polled.own, app.own, async.own, 0}
                   /\ async'.own \in {async.own, ident.own, 0}
                   /\ async'.gen \in {async.gen, ident.gen, NoGen}
<1>4. ASSUME PollStart PROVE Goal
  BY <1>1, <1>4 DEF PollStart, Apps
<1>5. ASSUME NEW due \in BOOLEAN, PollRecord(due) PROVE Goal
  <2>1. /\ app' = [Idle EXCEPT !.pc = "fetch"] /\ async' = async
        /\ \/ polled' = [off |-> pos, own |-> app.own, kind |-> "position"]
           \/ polled' = Nobody
    BY <1>5 DEF PollRecord
  <2>2. app'.own = 0 /\ app'.gen = NoGen
    BY <2>1 DEF Idle
  <2> QED
    BY <1>3, <2>1, <2>2
<1>6. ASSUME \/ (\E n \in 0..1 : PollFetch(n)) \/ (\E pick \in BOOLEAN : CommitSync(pick))
             \/ PushCallback \/ Close
      PROVE  Goal
  <2>1. app'.own = 0 /\ app'.gen = NoGen /\ UNCHANGED <<polled, async>>
    <3>1. UNCHANGED <<polled, async>>
      BY <1>6 DEF PollFetch, CommitSync, PushCallback, Close
    <3>2. (\E n \in 0..1 : PollFetch(n)) \/ PushCallback => app'.own = 0 /\ app'.gen = NoGen
      BY DEF PollFetch, PushCallback, Idle
    <3>4. Close => app'.own = 0 /\ app'.gen = NoGen
      BY DEF Close, Idle
    <3>3. (\E pick \in BOOLEAN : CommitSync(pick)) => app'.own = 0 /\ app'.gen = NoGen
      BY DEF CommitSync, Idle
    <3> QED
      BY <1>6, <3>1, <3>2, <3>3, <3>4
  <2> QED
    BY <2>1
<1>7. ASSUME SyncTurn \/ CloseDrained PROVE Goal
  <2>1. /\ \/ app' = Returned \/ app' = [app EXCEPT !.pc = "closed"]
           \/ \E off : app' = [app EXCEPT !.pc = "attempt", !.off = off, !.own = ident.own]
        /\ UNCHANGED <<polled, async>>
    BY <1>7 DEF SyncTurn, CloseDrained
  <2> QED
    BY <1>1, <1>2, <2>1 DEF Apps
<1>8. ASSUME SyncAttempt PROVE Goal
  BY <1>1, <1>2, <1>8 DEF SyncAttempt, Apps
<1>9. ASSUME SyncSend \/ SyncEnds PROVE Goal
  <2>1. /\ \/ app' = Returned \/ app' = [app EXCEPT !.pc = "sent"]
           \/ app' = [app EXCEPT !.pc = "attempt"]
        /\ async' = async
        /\ polled' = polled \/ \E kind : RecordSent(app.off, app.own, kind)
    BY <1>9 DEF SyncSend, SyncEnds
  <2>2. polled'.own \in {polled.own, app.own}
    BY <1>3, <2>1
  <2>3. app'.own \in {app.own, 0} /\ app'.gen \in {app.gen, NoGen}
    BY <1>1, <1>2, <2>1 DEF Apps
  <2> QED
    BY <2>1, <2>2, <2>3
<1>10. ASSUME Schedule PROVE Goal
  <2>1. app'.own = 0 /\ app'.gen = NoGen /\ polled' = polled
    BY <1>10 DEF Schedule, Idle
  <2>2. async'.own = async.own /\ async'.gen = async.gen
    BY <1>1, <1>10 DEF Schedule, Workers
  <2> QED
    BY <2>1, <2>2
<1>11. ASSUME WorkerTurn \/ WorkerTake \/ WorkerAnswer \/ WorkerAfter PROVE Goal
  <2>1. UNCHANGED <<app, polled>>
    BY <1>11 DEF WorkerTurn, WorkerTake, WorkerAnswer, WorkerAfter
  <2>2. /\ WorkerTurn => async'.own = async.own /\ async'.gen = async.gen
        /\ WorkerTake => async'.own = ident.own /\ async'.gen = ident.gen
    BY <1>1 DEF WorkerTurn, WorkerTake, Workers
  <2>3. WorkerAnswer => async' = async \/ (async'.own = 0 /\ async'.gen = NoGen)
    BY <1>1 DEF WorkerAnswer, WorkerServed, Workers
  <2>4. WorkerAfter => async'.own \in {async.own, 0} /\ async'.gen \in {async.gen, NoGen}
    BY <1>1 DEF WorkerAfter, NoWorker, Workers
  <2> QED
    BY <1>11, <2>1, <2>2, <2>3, <2>4
<1>12. ASSUME WorkerSend PROVE Goal
  <2>1. /\ app' = app
        /\ polled' = polled \/ RecordSent(pos, async.own, "position")
        /\ async' = [async EXCEPT !.pc = "sent"] \/ WorkerServed
    BY <1>12 DEF WorkerSend
  <2>2. async'.own \in {async.own, 0} /\ async'.gen \in {async.gen, NoGen}
    BY <1>1, <2>1 DEF WorkerServed, Workers
  <2> QED
    BY <1>3, <2>1, <2>2
<1>13. ASSUME \/ AutoCommitEnds
              \/ TaskStart \/ TaskTurn \/ TaskCommit \/ TaskAnswer \/ TaskPrime \/ TaskGivesUp
              \/ (\E conn \in Conns : BrokerCommit(conn))
              \/ (\E conn \in Conns, processed \in BOOLEAN : Disconnect(conn, processed))
              \/ OtherCommits \/ ~Elsewhere
       PROVE  UNCHANGED <<app, polled, async>>
  <2>1. CASE ~Elsewhere
    BY <2>1, NextSplit, GroupMoves, CoordinatorMoves
  <2>2. CASE Elsewhere
    BY <1>13, <2>2 DEF AutoCommitEnds, TaskStart, TaskTurn, TaskCommit, TaskAnswer, TaskPrime,
         TaskGivesUp, BrokerCommit, Disconnect, OtherCommits
  <2> QED
    BY <2>1, <2>2
<1> QED
  BY <1>4, <1>5, <1>6, <1>7, <1>8, <1>9, <1>10, <1>11, <1>12, <1>13
     DEF Elsewhere, AppGoesOn, AppCalls, Worker

\* The exchange of a step that does not send.
LEMMA RpcStep ==
  ASSUME Inv, Next, ~Sends
  PROVE  \/ rpc' = rpc \/ rpc' = NoRpc
         \/ /\ \E at : rpc' = [rpc EXCEPT !.at = at]
            /\ \E conn \in Conns :
                 BrokerCommit(conn) \/ \E processed \in BOOLEAN : Disconnect(conn, processed)
<1>1. CASE ~Elsewhere
  BY <1>1, NextSplit, GroupMoves, CoordinatorMoves
<1>2. ASSUME NEW due \in BOOLEAN, PollRecord(due) PROVE rpc' = rpc \/ PollSends
  BY <1>2 DEF PollRecord, PollSends
<1>3. ASSUME AutoCommitEnds \/ WorkerAnswer PROVE rpc' = NoRpc \/ Resends
  BY <1>3 DEF AutoCommitEnds, WorkerAnswer, Resends, Release, Inv, LockHeld, Resend
<1>4. ASSUME WorkerSend PROVE rpc' = NoRpc \/ WorkerSends
  BY <1>4 DEF WorkerSend, WorkerSends, Release
<1>5. ASSUME TaskCommit PROVE rpc' = NoRpc \/ TaskSends
  BY <1>5 DEF TaskCommit, PreJoinOffsets, TaskSends, Release
<1>6. ASSUME (\E conn \in Conns : BrokerCommit(conn))
             \/ (\E conn \in Conns, processed \in BOOLEAN : Disconnect(conn, processed))
      PROVE  rpc' = rpc \/ \E at : rpc' = [rpc EXCEPT !.at = at]
  BY <1>6 DEF BrokerCommit, Disconnect
<1>7. ASSUME \/ (\E n \in 0..1 : PollFetch(n)) \/ SyncTurn \/ SyncAttempt \/ SyncEnds
             \/ Schedule \/ CloseDrained \/ AppCalls \/ WorkerTurn \/ WorkerTake \/ WorkerAfter
             \/ TaskStart \/ TaskTurn \/ TaskAnswer \/ TaskPrime \/ TaskGivesUp
             \/ OtherCommits
      PROVE  rpc' = rpc \/ rpc' = NoRpc
  BY <1>7 DEF PollFetch, SyncTurn, SyncAttempt, SyncEnds, Schedule, CloseDrained, AppCalls,
              PollStart, CommitSync, PushCallback, Close, WorkerTurn, WorkerTake, WorkerAfter,
              TaskStart, TaskTurn, TaskAnswer, TaskPrime, TaskGivesUp, OtherCommits, Release
<1> QED
  BY <1>1, <1>2, <1>3, <1>4, <1>5, <1>6, <1>7 DEF Elsewhere, AppGoesOn, Worker, Sends

LEMMA RpcGens ==
  ASSUME Inv, Next
  PROVE  rpc'.gen \in {rpc.gen, app.gen, async.gen, ident.gen, NoGen}
<1>1. rpc \in Exchanges /\ NoRpc.gen = NoGen
  BY DEF Inv, TypeOK, NoRpc
<1>2. \A conn, off, gen, kind, sends : Send(conn, off, gen, kind, sends) => rpc'.gen = gen
  BY DEF Send
<1>3. ASSUME Sends PROVE rpc'.gen \in {rpc.gen, app.gen, async.gen, ident.gen}
  BY <1>2, <1>3 DEF Sends, PollSends, SyncSend, WorkerSends, TaskSends, Resends, Resend
<1>4. ASSUME ~Sends PROVE rpc'.gen \in {rpc.gen, NoGen}
  BY <1>1, <1>4, RpcStep DEF Exchanges
<1> QED
  BY <1>3, <1>4

\* A step that sends: what is behind the new request is what was there.
LEMMA SendEffect ==
  ASSUME Inv, NEW conn \in Conns, NEW off \in Offsets, NEW gen \in Gens, NEW kind \in Kinds,
         NEW sends \in 0..2, rpc.at # "sent", Send(conn, off, gen, kind, sends)
  PROVE  /\ rpc'.at = "sent" /\ rpc'.off = off /\ rpc'.gen = gen
         /\ \A c \in Conns : \A i \in DOMAIN wire'[c] :
              \/ c = conn /\ i = Len(wire[conn]) + 1 /\ wire'[c][i].off = off
                 /\ wire'[c][i].gen = gen /\ wire'[c][i].kind = kind /\ wire'[c][i].live
              \/ i \in DOMAIN wire[c] /\ wire'[c][i] = wire[c][i] /\ ~wire'[c][i].live
         /\ \A c \in Conns : \A i \in DOMAIN wire[c] : i \in 1..Len(wire[c])
<1>1. TypeOK /\ OneExchange
  BY DEF Inv
<1>2. \A c \in Conns : \A i \in DOMAIN wire[c] : i \in 1..Len(wire[c])
  BY <1>1 DEF TypeOK, Conns
<1>3. conn \in {"data", "task"}
  BY DEF Conns
<1>4. rpc'.at = "sent" /\ rpc'.off = off /\ rpc'.gen = gen
  BY DEF Send
<1>5. \A c \in {"data", "task"} : \A i \in DOMAIN wire'[c] :
        \/ c = conn /\ i = Len(wire[conn]) + 1
           /\ wire'[c][i] = [off |-> off, gen |-> gen, kind |-> kind, live |-> TRUE]
        \/ i \in DOMAIN wire[c] /\ wire'[c][i] = wire[c][i] /\ ~wire'[c][i].live
  BY <1>1, <1>3, SendAppends
<1> QED
  BY <1>2, <1>4, <1>5 DEF Conns

\* The values of the five sends.
LEMMA SendsEffect ==
  ASSUME Inv, Sends
  PROVE  /\ rpc.at # "sent"
         /\ \E conn \in Conns, off \in Offsets, gen \in Gens, kind \in Kinds, sends \in 0..2 :
              /\ Send(conn, off, gen, kind, sends)
              /\ gen \in {rpc.gen, app.gen, async.gen, ident.gen}
<1>1. /\ app \in Apps /\ async \in Workers /\ rpc \in Exchanges /\ ident \in Idents
      /\ polled \in PolledOffsets /\ pos \in Positions
  BY DEF Inv, TypeOK
<1>2. CASE PollSends
  <2>1. rpc.at = "none"
    BY <1>2, NothingAwaited DEF PollSends
  <2>2. pos \in Offsets /\ app.gen \in Gens
    BY <1>1, <1>2, OffsetFacts DEF PollSends, Apps
  <2> QED
    BY <1>2, <2>1, <2>2 DEF PollSends, Conns, Kinds
<1>3. CASE SyncSend
  <2>1. rpc.at = "none"
    BY <1>3, NothingAwaited DEF SyncSend
  <2>2. app.off \in Offsets /\ app.gen \in Gens
    BY <1>1, <1>3, OffsetFacts DEF SyncSend, Apps, Inv, OffsetsKnown
  <2>3. \E kind \in Kinds : Send("data", app.off, app.gen, kind, 1)
    BY <1>3 DEF SyncSend, Kinds
  <2> QED
    BY <2>1, <2>2, <2>3 DEF Conns
<1>4. CASE WorkerSends
  <2>1. rpc.at = "none"
    BY <1>4, NothingAwaited DEF WorkerSends
  <2>2. pos \in Offsets /\ async.gen \in Gens
    BY <1>1, <1>4, OffsetFacts DEF WorkerSends, Workers
  <2> QED
    BY <1>4, <2>1, <2>2 DEF WorkerSends, Conns, Kinds
<1>5. CASE TaskSends
  <2>1. rpc.at = "none"
    BY <1>5, NothingAwaited DEF TaskSends
  <2>2. polled.off \in Offsets /\ ident.gen \in Gens /\ polled.kind \in Kinds
    BY <1>1, <1>5, OffsetFacts DEF TaskSends, Idents, PolledOffsets, Inv, OffsetsKnown
  <2> QED
    BY <1>5, <2>1, <2>2 DEF TaskSends, Conns
<1>6. CASE Resends
  <2>1. /\ rpc.at = "lost" /\ rpc.off \in Offsets /\ rpc.gen \in Gens
        /\ Send("data", rpc.off, rpc.gen, "position", 2)
    BY <1>1, <1>6, OffsetFacts DEF Resends, Resend, Exchanges, Inv, OneExchange
  <2> QED
    BY <2>1 DEF Conns, Kinds
<1> QED
  BY <1>2, <1>3, <1>4, <1>5, <1>6 DEF Sends

LEMMA SnapshotsStep ==
  ASSUME Base, Next
  PROVE  SnapshotsOld'
<1>1. /\ Inv /\ SnapshotsOld /\ app \in Apps /\ async \in Workers /\ rpc \in Exchanges
      /\ ident \in Idents /\ polled \in PolledOffsets /\ wire \in Wires /\ broker.gen \in Nat
  BY DEF Base, Inv, TypeOK, Wires, Brokers
<1>2. /\ app.own \in Nat /\ async.own \in Nat /\ ident.own \in Nat /\ polled.own \in Nat
      /\ app.gen \in Gens /\ async.gen \in Gens /\ ident.gen \in Gens /\ rpc.gen \in Gens
      /\ NoGen \in Gens
  BY <1>1, OffsetFacts DEF Apps, Workers, Idents, PolledOffsets, Exchanges
<1>3. \A own \in {0, app.own, async.own, ident.own, polled.own} : OldOwn(own)'
  <2>1. OldOwn(0)
    BY <1>1 DEF OldOwn
  <2> QED
    BY <1>1, <1>2, <2>1, OldStays DEF SnapshotsOld
<1>4. \A gen \in {NoGen, app.gen, async.gen, ident.gen, rpc.gen} : OldGen(gen)'
  <2>1. OldGen(NoGen)
    BY <1>1 DEF OldGen, NoGen
  <2> QED
    BY <1>1, <1>2, <2>1, OldStays DEF SnapshotsOld
<1>5. OldOwn(ident.own)' /\ OldGen(ident.gen)'
  <2>1. ASSUME TaskInstallGeneration \/ TaskInstall
        PROVE  OldOwn(ident.own)' /\ OldGen(ident.gen)'
    <3>1. /\ ident'.gen = broker.gen /\ broker' = broker
          /\ ident'.own \in {0, ident.own, broker.gen + 1}
      BY <1>1, <2>1, GroupMoves DEF Base, JoinFits
    <3> QED
      BY <1>1, <1>3, <3>1 DEF OldOwn, OldGen, Current
  <2>2. ASSUME NEW barred \in BOOLEAN, LoseMembership(barred)
        PROVE  OldOwn(ident.own)' /\ OldGen(ident.gen)'
    BY <1>1, <1>3, <1>4, <2>2, GroupMoves
  <2>3. CASE ident' = ident
    BY <1>3, <1>4, <2>3
  <2> QED
    BY <1>1, <2>1, <2>2, <2>3, NextSplit, ElsewhereKeeps, CoordinatorMoves
<1>6. /\ OldOwn(polled.own)' /\ OldOwn(app.own)' /\ OldOwn(async.own)'
      /\ OldGen(app.gen)' /\ OldGen(async.gen)' /\ OldGen(rpc.gen)'
  BY <1>1, <1>3, <1>4, AppSnapshots, RpcGens
<1>7. ASSUME NEW c \in Conns, NEW i \in DOMAIN wire'[c] PROVE OldGen(wire[c][i].gen)'
  <2>1. ASSUME NEW d \in Conns, NEW j \in DOMAIN wire[d], NEW g, g = wire[d][j].gen
        PROVE  OldGen(g)'
    <3>1. wire[d][j] \in Requests
      BY <1>1, <2>1 DEF Wires, Conns
    <3> QED
      BY <1>1, <2>1, <3>1, OldStays DEF SnapshotsOld, Requests
  <2>2. CASE Shrinks
    BY <2>1, <2>2 DEF Shrinks, SameRequest
  <2>3. CASE Sends
    BY <1>1, <1>4, <2>1, <2>3, SendsEffect, SendEffect
  <2> QED
    BY <1>1, <2>2, <2>3, WireStep
<1> QED
  BY <1>5, <1>6, <1>7 DEF SnapshotsOld

-----------------------------------------------------------------------------
(* The join and the modes.                                                 *)

LEMMA TaskMoves ==
  ASSUME Inv, Elsewhere
  PROVE  \/ task' = task
         \/ /\ task.pc \in {"idle", "turn", "attempt", "sent", "fenced"}
            /\ task'.pc \in {"idle", "turn", "attempt", "sent", "join", "lost"}
            /\ task'.pc \in {"turn", "attempt", "sent"} =>
                 conf.auto \/ task.pc \in {"turn", "attempt", "sent"}
         \/ /\ TaskPrime /\ task.pc = "synced" /\ Added /\ task'.pc = "primed"
            /\ task'.gen = task.gen /\ task'.mine = task.mine
<1>1. task \in Tasks
  BY DEF Inv, TypeOK
<1>2. ASSUME PollStart \/ TaskStart \/ TaskTurn \/ TaskCommit \/ TaskAnswer \/ TaskGivesUp
      PROVE  \/ task' = task
             \/ /\ task.pc \in {"idle", "turn", "attempt", "sent", "fenced"}
                /\ task'.pc \in {"idle", "turn", "attempt", "sent", "join", "lost"}
                /\ task'.pc \in {"turn", "attempt", "sent"} =>
                     conf.auto \/ task.pc \in {"turn", "attempt", "sent"}
  BY <1>1, <1>2 DEF PollStart, TaskStart, TaskTurn, TaskCommit, TaskAnswer, TaskGivesUp, Tasks
<1>3. ASSUME TaskPrime
      PROVE  /\ task.pc = "synced" /\ Added /\ task'.pc = "primed"
             /\ task'.gen = task.gen /\ task'.mine = task.mine
  BY <1>1, <1>3 DEF TaskPrime, Tasks
<1>4. ASSUME \/ AppGoesOn \/ AutoCommitEnds \/ Worker \/ PushCallback \/ Close
             \/ (\E pick \in BOOLEAN : CommitSync(pick))
             \/ (\E conn \in Conns : BrokerCommit(conn))
             \/ (\E conn \in Conns, processed \in BOOLEAN : Disconnect(conn, processed))
             \/ OtherCommits
      PROVE  task' = task
  BY <1>4 DEF AppGoesOn, PollRecord, PollFetch, CommitSync, SyncTurn, SyncAttempt, SyncSend,
              SyncEnds, CloseDrained, Schedule, PushCallback, Close,
              AutoCommitEnds, Worker, WorkerTurn, WorkerTake, WorkerSend, WorkerAnswer,
              WorkerAfter,
              BrokerCommit, Disconnect, OtherCommits
<1> QED
  BY <1>2, <1>3, <1>4 DEF Elsewhere, AppCalls

LEMMA JoinStep ==
  ASSUME Base, Next
  PROVE  JoinFits'
<1>1. Inv /\ JoinFits /\ broker.gen \in Nat /\ ident.gen \in Int /\ OldGen(ident.gen)
  BY OffsetFacts DEF Base, Inv, TypeOK, Brokers, Idents, SnapshotsOld
<1>2. ASSUME Elsewhere PROVE JoinFits'
  <2>1. /\ UNCHANGED <<conf, ident>>
        /\ broker'.gen = broker.gen /\ broker'.known = broker.known
        /\ broker'.owner = broker.owner /\ broker'.phase = broker.phase
    BY <1>1, <1>2, ElsewhereKeeps
  <2>2. CASE task' = task
    BY <1>1, <2>1, <2>2 DEF JoinFits, Current, Owns, Added
  <2>3. CASE /\ task.pc \in {"idle", "turn", "attempt", "sent", "fenced"}
             /\ task'.pc \in {"idle", "turn", "attempt", "sent", "join", "lost"}
    BY <1>1, <2>1, <2>3 DEF JoinFits, Current, Owns
  <2>4. CASE /\ task.pc = "synced" /\ Added /\ task'.pc = "primed"
             /\ task'.gen = task.gen /\ task'.mine = task.mine
    BY <1>1, <2>1, <2>4 DEF JoinFits, Current, Owns, Added
  <2> QED
    BY <1>1, <1>2, <2>2, <2>3, <2>4, TaskMoves
<1>3. ASSUME NEW barred \in BOOLEAN, LoseMembership(barred) PROVE JoinFits'
  <2>1. /\ ~broker.known /\ ident'.own = 0 /\ UNCHANGED <<conf, broker>>
        /\ task'.pc \in {"idle", "fenced", "join"}
    BY <1>1, <1>3, GroupMoves
  <2> QED
    BY <1>1, <2>1 DEF JoinFits, Owns
<1>4. ASSUME TaskInstallGeneration PROVE JoinFits'
  <2>1. /\ task.pc = "synced" /\ conf.coop /\ ~task.mine /\ ident.own # 0
        /\ ident'.own = ident.own /\ ident'.gen = task.gen
        /\ task'.pc = "revoking" /\ task'.gen = task.gen /\ task'.mine = task.mine
        /\ UNCHANGED <<conf, broker>>
    BY <1>1, <1>4, GroupMoves
  <2> QED
    BY <1>1, <2>1 DEF JoinFits, Owns
<1>5. ASSUME TaskInstall PROVE JoinFits'
  <2>1. /\ task.pc \in {"synced", "primed", "revoking"} /\ task'.pc = "idle"
        /\ ~task.mine => ident'.own = 0
        /\ UNCHANGED <<conf, broker>>
    BY <1>1, <1>5, GroupMoves
  <2>2. broker.owner = "other" => ~task.mine
    BY <1>1, <2>1 DEF JoinFits
  <2> QED
    BY <1>1, <2>1, <2>2 DEF JoinFits, Owns
<1>6. ASSUME JoinsComplete PROVE JoinFits'
  <2>1. /\ task.pc = "join" /\ broker'.gen = broker.gen + 1 /\ broker'.known
        /\ broker'.owner = broker.owner /\ UNCHANGED <<conf, ident, task>>
    BY <1>1, <1>6, CoordinatorMoves
  <2>2. ident'.gen # broker'.gen
    BY <1>1, <2>1 DEF OldGen
  <2> QED
    BY <1>1, <2>1, <2>2 DEF JoinFits, Owns, Current
<1>7. ASSUME NEW owner \in {"me", "other", "none"}, Synced(owner) PROVE JoinFits'
  <2>1. /\ owner = "other" => ~(conf.coop /\ ident.own # 0)
        /\ broker'.phase = "Stable" /\ broker'.gen = broker.gen
        /\ broker'.known = broker.known /\ broker'.owner = owner
        /\ task'.pc = "synced" /\ task'.gen = broker.gen /\ task'.mine = (owner = "me")
        /\ UNCHANGED <<conf, ident>>
    BY <1>1, <1>7, CoordinatorMoves
  <2>2. broker.phase = "Completing"
    BY <1>1, <1>7, CoordinatorMoves
  <2> QED
    BY <1>1, <2>1, <2>2 DEF JoinFits, Owns, Current
<1>8. ASSUME Evict PROVE JoinFits'
  BY <1>1, <1>8, CoordinatorMoves DEF JoinFits
<1>9. ASSUME Rebalance PROVE JoinFits'
  BY <1>1, <1>9, CoordinatorMoves DEF JoinFits, Owns, Current, Added
<1> QED
  BY <1>2, <1>3, <1>4, <1>5, <1>6, <1>7, <1>8, <1>9, NextSplit

LEMMA AppSent ==
  ASSUME Inv, Next, ~SyncSend, app'.pc = "sent"
  PROVE  app' = app
<1>1. app \in Apps
  BY DEF Inv, TypeOK
<1>2. ASSUME PollStart \/ \E due \in BOOLEAN : PollRecord(due) PROVE FALSE
  BY <1>1, <1>2 DEF PollStart, PollRecord, Apps, Idle
<1>3. ASSUME \/ (\E n \in 0..1 : PollFetch(n)) \/ (\E pick \in BOOLEAN : CommitSync(pick))
             \/ PushCallback \/ Schedule \/ Close \/ CloseDrained
             \/ SyncTurn \/ SyncAttempt \/ SyncEnds
      PROVE  FALSE
  BY <1>3, AppMoves
<1>4. ASSUME \/ AutoCommitEnds \/ Worker
             \/ TaskStart \/ TaskTurn \/ TaskCommit \/ TaskAnswer \/ TaskPrime \/ TaskGivesUp
             \/ (\E conn \in Conns : BrokerCommit(conn))
             \/ (\E conn \in Conns, processed \in BOOLEAN : Disconnect(conn, processed))
             \/ OtherCommits
      PROVE  app' = app
  BY <1>4 DEF AutoCommitEnds, Worker, WorkerTurn, WorkerTake, WorkerSend, WorkerAnswer,
              WorkerAfter,
       TaskStart, TaskTurn, TaskCommit, TaskAnswer, TaskPrime, TaskGivesUp, BrokerCommit,
       Disconnect, OtherCommits
<1>5. CASE ~Elsewhere
  BY <1>5, NextSplit, GroupMoves, CoordinatorMoves
<1> QED
  BY <1>2, <1>3, <1>4, <1>5 DEF Elsewhere, AppGoesOn, AppCalls

\* A send of somebody else than the synchronous commit.
LEMMA OtherSend ==
  ASSUME Inv, Sends, ~SyncSend
  PROVE  app'.pc # "sent"
<1>1. LockHeld
  BY DEF Inv
<1>2. PollSends => app'.pc # "sent"
  BY DEF PollSends, Idle
<1>3. WorkerSends \/ TaskSends \/ Resends => app' = app /\ lock # "sync"
  BY <1>1 DEF WorkerSends, TaskSends, Resends, LockHeld
<1> QED
  BY <1>1, <1>2, <1>3 DEF Sends, LockHeld

\* The kind and the connection of a request that is sent.
LEMMA SentKind ==
  ASSUME Inv, Sends
  PROVE  \E conn \in Conns, off \in Offsets, gen \in Gens, kind \in Kinds, sends \in 0..2 :
           /\ Send(conn, off, gen, kind, sends)
           /\ kind = "raised" => conn = "task"
           /\ SyncSend => off = app.off /\ (app.pick => kind = "lowering")
<1>1. /\ app \in Apps /\ async \in Workers /\ rpc \in Exchanges /\ ident \in Idents
      /\ polled \in PolledOffsets /\ pos \in Positions /\ LockHeld
  BY DEF Inv, TypeOK
<1>2. CASE SyncSend
  <2>1. app.off \in Offsets /\ app.gen \in Gens
    BY <1>1, <1>2, OffsetFacts DEF SyncSend, Apps, Inv, OffsetsKnown
  <2>2. \E kind \in {"position", "lowering"} : /\ Send("data", app.off, app.gen, kind, 1)
                                               /\ app.pick => kind = "lowering"
    BY <1>2 DEF SyncSend
  <2> QED
    BY <2>1, <2>2 DEF Conns, Kinds
<1>3. CASE ~SyncSend /\ PollSends
  <2>1. pos \in Offsets /\ app.gen \in Gens
    BY <1>1, <1>3, OffsetFacts DEF PollSends, Apps
  <2> QED
    BY <1>3, <2>1 DEF PollSends, Conns, Kinds
<1>4. CASE ~SyncSend /\ WorkerSends
  <2>1. pos \in Offsets /\ async.gen \in Gens
    BY <1>1, <1>4, OffsetFacts DEF WorkerSends, Workers
  <2> QED
    BY <1>4, <2>1 DEF WorkerSends, Conns, Kinds
<1>5. CASE ~SyncSend /\ TaskSends
  <2>1. polled.off \in Offsets /\ ident.gen \in Gens /\ polled.kind \in Kinds
    BY <1>1, <1>5, OffsetFacts DEF TaskSends, Idents, PolledOffsets, Inv, OffsetsKnown
  <2> QED
    BY <1>5, <2>1 DEF TaskSends, Conns
<1>6. CASE ~SyncSend /\ Resends
  <2>1. /\ rpc.off \in Offsets /\ rpc.gen \in Gens
        /\ Send("data", rpc.off, rpc.gen, "position", 2)
    BY <1>1, <1>6, OffsetFacts DEF Resends, Resend, Exchanges, Inv, OneExchange
  <2> QED
    BY <1>6, <2>1 DEF Conns, Kinds
<1> QED
  BY <1>2, <1>3, <1>4, <1>5, <1>6 DEF Sends

LEMMA SameConf ==
  ASSUME Inv, Next
  PROVE  conf' = conf
BY NextSplit, ElsewhereKeeps, GroupMoves, CoordinatorMoves

\* Positions of a poll are known with automatic commits only.
LEMMA AutoOnly ==
  ASSUME Base, Next
  PROVE  /\ polled'.own # 0 => conf.auto
         /\ app'.pc = "positions" => conf.auto
         /\ task'.pc \in {"turn", "attempt", "sent"} => conf.auto
<1>1. /\ Inv /\ ModesFit /\ app \in Apps
  BY DEF Base, Inv, TypeOK
<1>2. \A off, own, kind : RecordSent(off, own, kind) => conf.auto \/ polled' = polled
  BY DEF RecordSent
<1>3. polled' = polled \/ conf.auto
  <2>1. ASSUME Elsewhere PROVE polled' = polled \/ conf.auto
    <3>1. ASSUME NEW due \in BOOLEAN, PollRecord(due) PROVE conf.auto
      BY <1>1, <3>1 DEF PollRecord, ModesFit
    <3>2. ASSUME SyncSend \/ SyncEnds \/ WorkerSend PROVE polled' = polled \/ conf.auto
      BY <1>2, <3>2 DEF SyncSend, SyncEnds, WorkerSend
    <3>3. ASSUME \/ (\E n \in 0..1 : PollFetch(n)) \/ SyncTurn \/ SyncAttempt \/ Schedule
                 \/ CloseDrained \/ AppCalls \/ AutoCommitEnds
                 \/ WorkerTurn \/ WorkerTake \/ WorkerAnswer \/ WorkerAfter
                 \/ TaskStart \/ TaskTurn \/ TaskCommit \/ TaskAnswer \/ TaskPrime
                 \/ TaskGivesUp \/ (\E conn \in Conns : BrokerCommit(conn))
                 \/ (\E conn \in Conns, processed \in BOOLEAN : Disconnect(conn, processed))
                 \/ OtherCommits
          PROVE  polled' = polled
      BY <3>3 DEF PollFetch, SyncTurn, SyncAttempt, Schedule, CloseDrained, AppCalls, PollStart,
           CommitSync, PushCallback, Close, AutoCommitEnds, WorkerTurn, WorkerTake,
           WorkerAnswer, WorkerAfter, TaskStart, TaskTurn, TaskCommit, TaskAnswer, TaskPrime, TaskGivesUp,
           BrokerCommit, Disconnect, OtherCommits
    <3> QED
      BY <2>1, <3>1, <3>2, <3>3 DEF Elsewhere, AppGoesOn, Worker
  <2> QED
    BY <1>1, <2>1, NextSplit, GroupMoves, CoordinatorMoves
<1>4. app'.pc = "positions" => conf.auto
  <2>1. ASSUME Elsewhere, app'.pc = "positions" PROVE conf.auto \/ app' = app
    <3>1. PollStart => conf.auto
      BY <1>1, <2>1 DEF PollStart, Apps
    <3>2. ASSUME NEW due \in BOOLEAN, PollRecord(due) PROVE FALSE
      BY <2>1, <3>2 DEF PollRecord, Idle
    <3>3. ASSUME \/ (\E n \in 0..1 : PollFetch(n)) \/ (\E pick \in BOOLEAN : CommitSync(pick))
                 \/ PushCallback \/ Schedule \/ Close \/ CloseDrained
                 \/ SyncTurn \/ SyncAttempt \/ SyncSend \/ SyncEnds
          PROVE  FALSE
      BY <1>1, <2>1, <3>3, AppMoves
    <3>4. ASSUME \/ AutoCommitEnds \/ Worker \/ TaskStart \/ TaskTurn \/ TaskCommit
                 \/ TaskAnswer \/ TaskPrime \/ TaskGivesUp
                 \/ (\E conn \in Conns : BrokerCommit(conn))
                 \/ (\E conn \in Conns, processed \in BOOLEAN : Disconnect(conn, processed))
                 \/ OtherCommits
          PROVE  app' = app
      BY <3>4 DEF AutoCommitEnds, Worker, WorkerTurn, WorkerTake, WorkerSend, WorkerAnswer,
              WorkerAfter,
           TaskStart, TaskTurn, TaskCommit, TaskAnswer, TaskPrime, TaskGivesUp,
           BrokerCommit, Disconnect, OtherCommits
    <3> QED
      BY <2>1, <3>1, <3>2, <3>3, <3>4 DEF Elsewhere, AppGoesOn, AppCalls
  <2> QED
    BY <1>1, <2>1, NextSplit, GroupMoves, CoordinatorMoves DEF ModesFit
<1>5. task'.pc \in {"turn", "attempt", "sent"} => conf.auto
  <2>1. ~Elsewhere => task' = task \/ task'.pc \notin {"turn", "attempt", "sent"}
    BY <1>1, NextSplit, GroupMoves, CoordinatorMoves
  <2> QED
    BY <1>1, <2>1, TaskMoves DEF ModesFit
<1> QED
  BY <1>1, <1>3, <1>4, <1>5 DEF ModesFit

\* Nobody but the synchronous commit ends its exchange.
LEMMA ExchangeStays ==
  ASSUME Inv, Next, ~Sends, app'.pc = "sent"
  PROVE  rpc' = rpc \/ \E at : rpc' = [rpc EXCEPT !.at = at]
<1>1. /\ app' = app /\ LockHeld
  BY AppSent DEF Inv, Sends
<1>2. /\ lock = "sync" /\ async.pc \notin {"take", "offsets", "sent"}
      /\ task.pc \notin {"attempt", "sent"}
  BY <1>1 DEF LockHeld
<1>3. ASSUME AutoCommitEnds \/ WorkerAnswer \/ WorkerSend \/ TaskCommit \/ TaskAnswer
      PROVE  FALSE
  BY <1>2, <1>3 DEF AutoCommitEnds, WorkerAnswer, WorkerSend, TaskCommit, TaskAnswer
<1>4. ASSUME SyncAttempt \/ SyncEnds \/ SyncTurn PROVE FALSE
  BY <1>4, AppMoves
<1>5. ASSUME NEW due \in BOOLEAN, PollRecord(due) PROVE FALSE
  BY <1>1, <1>5 DEF PollRecord
<1>6. ASSUME (\E conn \in Conns : BrokerCommit(conn))
             \/ (\E conn \in Conns, processed \in BOOLEAN : Disconnect(conn, processed))
      PROVE  rpc' = rpc \/ \E at : rpc' = [rpc EXCEPT !.at = at]
  BY <1>6 DEF BrokerCommit, Disconnect
<1>7. ASSUME \/ (\E n \in 0..1 : PollFetch(n)) \/ Schedule \/ CloseDrained \/ AppCalls
             \/ WorkerTurn \/ WorkerTake \/ WorkerAfter
             \/ TaskStart \/ TaskTurn \/ TaskPrime \/ TaskGivesUp \/ OtherCommits
      PROVE  rpc' = rpc
  BY <1>2, <1>7 DEF PollFetch, Schedule, CloseDrained, AppCalls, PollStart, CommitSync, PushCallback,
       Close, WorkerTurn, WorkerTake, WorkerAfter, TaskStart, TaskTurn, TaskPrime,
       TaskGivesUp, OtherCommits
<1>8. CASE ~Elsewhere
  BY <1>8, NextSplit, GroupMoves, CoordinatorMoves
<1> QED
  BY <1>3, <1>4, <1>5, <1>6, <1>7, <1>8 DEF Elsewhere, AppGoesOn, Worker, Sends

LEMMA ModesStep ==
  ASSUME Base, Next, Inv'
  PROVE  ModesFit'
<1>1. Inv /\ ModesFit /\ rpc \in Exchanges
  BY DEF Base, Inv, TypeOK
<1>2. /\ conf' = conf
      /\ polled'.own # 0 => conf.auto
      /\ app'.pc = "positions" => conf.auto
      /\ task'.pc \in {"turn", "attempt", "sent"} => conf.auto
  BY <1>1, SameConf, AutoOnly
<1>3. CASE Sends
  <2>1. rpc.at # "sent"
    BY <1>1, <1>3, SendsEffect
  <2>2. PICK conn \in Conns, off \in Offsets, gen \in Gens, kind \in Kinds, sends \in 0..2 :
             /\ Send(conn, off, gen, kind, sends)
             /\ kind = "raised" => conn = "task"
             /\ SyncSend => off = app.off /\ (app.pick => kind = "lowering")
    BY <1>1, <1>3, SentKind
  <2>3. /\ rpc'.off = off
        /\ \A c \in Conns : \A i \in DOMAIN wire'[c] :
             \/ c = conn /\ wire'[c][i].off = off /\ wire'[c][i].kind = kind /\ wire'[c][i].live
             \/ i \in DOMAIN wire[c] /\ wire'[c][i] = wire[c][i] /\ ~wire'[c][i].live
    BY <1>1, <2>1, <2>2, SendEffect
  <2>4. /\ SyncSend => app'.off = app.off /\ app'.pick = app.pick
        /\ app'.pc = "sent" => SyncSend
    <3>1. app \in Apps
      BY <1>1 DEF Inv, TypeOK
    <3>2. SyncSend => app'.off = app.off /\ app'.pick = app.pick
      BY <3>1 DEF SyncSend, Apps
    <3> QED
      BY <1>1, <1>3, <3>2, OtherSend
  <2>5. ASSUME NEW c \in Conns, NEW i \in DOMAIN wire'[c]
        PROVE  /\ wire'[c][i].live \/ GivenUp(c, wire'[c][i])
               /\ wire'[c][i].kind = "raised" => c = "task"
               /\ wire'[c][i].live =>
                    /\ wire'[c][i].off = rpc'.off
                    /\ app'.pc = "sent" /\ app'.pick => wire'[c][i].kind = "lowering"
    BY <1>1, <2>2, <2>3, <2>4 DEF ModesFit
  <2> QED
    BY <1>1, <1>2, <2>2, <2>3, <2>4, <2>5 DEF ModesFit, GivenUp
<1>4. CASE ~Sends
  <2>1. rpc' = rpc \/ rpc' = NoRpc \/ \E at : rpc' = [rpc EXCEPT !.at = at]
    BY <1>1, <1>4, RpcStep
  <2>2. Shrinks
    BY <1>1, <1>4, WireStep
  <2>3. app'.pc = "sent" => app' = app
    BY <1>1, <1>4, AppSent DEF Sends
  <2>4. rpc'.at # "none" => rpc'.off = rpc.off
    BY <1>1, <2>1 DEF NoRpc, Exchanges
  <2>5. app'.pc = "sent" => rpc'.off = app'.off
    <3>1. SUFFICES ASSUME app'.pc = "sent" PROVE rpc'.off = app'.off
      OBVIOUS
    <3>2. app' = app /\ rpc.off = app.off
      BY <1>1, <2>3, <3>1 DEF ModesFit
    <3>3. rpc' = rpc \/ \E at : rpc' = [rpc EXCEPT !.at = at]
      BY <1>1, <1>4, <3>1, ExchangeStays
    <3> QED
      BY <1>1, <3>2, <3>3 DEF Exchanges
  <2>6. ASSUME NEW c \in Conns, NEW i \in DOMAIN wire'[c]
        PROVE  /\ wire'[c][i].live \/ GivenUp(c, wire'[c][i])
               /\ wire'[c][i].kind = "raised" => c = "task"
               /\ wire'[c][i].live =>
                    /\ wire'[c][i].off = rpc'.off
                    /\ app'.pc = "sent" /\ app'.pick => wire'[c][i].kind = "lowering"
    <3>1. PICK j \in DOMAIN wire[c] :
               /\ SameRequest(wire'[c][i], wire[c][j])
               /\ wire'[c][i].live = wire[c][j].live \/ GivenUp(c, wire'[c][i])
      BY <2>2 DEF Shrinks
    <3>2. wire'[c][i].live => rpc'.at = "sent"
      BY DEF Inv, OneExchange, Conns
    <3> QED
      BY <1>1, <2>3, <2>4, <3>1, <3>2 DEF ModesFit, SameRequest, GivenUp
  <2> QED
    BY <1>1, <1>2, <2>5, <2>6 DEF ModesFit, GivenUp
<1> QED
  BY <1>3, <1>4

LEMMA InitBase ==
  ASSUME Init
  PROVE  Base
<1>1. Inv
  BY InitInv
<1>2. /\ ident.own = 1 /\ ident.gen = 0 /\ broker.gen = 0 /\ polled.own = 0 /\ app.own = 0
      /\ app.gen = NoGen /\ async.own = 0 /\ async.gen = NoGen /\ rpc.gen = NoGen
      /\ app.pc = "idle" /\ task.pc = "idle" /\ broker.owner = "me" /\ broker.phase = "Stable"
      /\ \A c \in Conns : DOMAIN wire[c] = {}
  BY DEF Init, Nobody, Idle, NoWorker, NoRpc, Conns
<1>3. SnapshotsOld
  BY <1>2 DEF SnapshotsOld, OldOwn, OldGen, NoGen, Current
<1>4. JoinFits
  BY <1>2 DEF JoinFits
<1>5. ModesFit
  BY <1>2 DEF ModesFit
<1> QED
  BY <1>1, <1>3, <1>4, <1>5 DEF Base

LEMMA BaseStep ==
  ASSUME Base, Next
  PROVE  Base'
<1>1. Inv'
  BY InvStep DEF Base
<1> QED
  BY <1>1, SnapshotsStep, JoinStep, ModesStep DEF Base

-----------------------------------------------------------------------------
(* Positions.                                                              *)

\* Not below a commit that counts, nor a position that may still be committed.
Good(off) ==
  /\ off >= ghost.best
  /\ \A c \in Conns : \A i \in DOMAIN wire[c] :
       Valid(wire[c][i].gen) /\ wire[c][i].kind = "position" => off >= wire[c][i].off

\* The generation of the coordinator gave the partition to the member, which has it or has
\* just given it up.
Granted == Current /\ broker.owner # "other" /\ (ident.own # 0 \/ pos = NoPos)

Sendable(off) == Good(off) /\ (ident.own # 0 => off <= pos)

LEMMA PosMoves ==
  ASSUME Inv, Elsewhere
  PROVE  pos' = pos \/ (pos' >= pos /\ ident.own # 0 /\ pos # NoPos) \/ TaskPrime
<1>1. pos \in Int
  BY OffsetFacts DEF Inv, TypeOK
<1>2. ASSUME NEW n \in 0..1, PollFetch(n)
      PROVE  pos' = pos \/ (pos' >= pos /\ ident.own # 0 /\ pos # NoPos)
  BY <1>1, <1>2 DEF PollFetch
<1>3. ASSUME \/ \E due \in BOOLEAN : PollRecord(due)
             \/ SyncTurn \/ SyncAttempt \/ SyncSend \/ SyncEnds \/ Schedule \/ CloseDrained
             \/ AppCalls \/ AutoCommitEnds \/ Worker
             \/ TaskStart \/ TaskTurn \/ TaskCommit \/ TaskAnswer \/ TaskGivesUp
             \/ (\E conn \in Conns : BrokerCommit(conn))
             \/ (\E conn \in Conns, processed \in BOOLEAN : Disconnect(conn, processed))
             \/ OtherCommits
      PROVE  pos' = pos
  BY <1>3 DEF PollRecord, CommitSync, SyncTurn, SyncAttempt, SyncSend,
              SyncEnds, CloseDrained, Schedule, AppCalls, PollStart, PushCallback, Close,
              AutoCommitEnds, Worker, WorkerTurn, WorkerTake, WorkerSend, WorkerAnswer,
              WorkerAfter,
              BrokerCommit, Disconnect, OtherCommits, TaskGivesUp, TaskStart, TaskTurn,
              TaskCommit, TaskAnswer
<1> QED
  BY <1>2, <1>3 DEF Elsewhere, AppGoesOn

\* A generation that the coordinator still accepts: the member stays in it, and its position
\* does not go back.
LEMMA GrantKept ==
  ASSUME Base, Next, NEW g \in Gens, OldGen(g), Valid(g)', Valid(g) => Granted
  PROVE  /\ Valid(g) /\ Granted /\ Granted'
         /\ ident'.own # 0 => ident.own # 0 /\ pos' >= pos
<1>1. /\ Inv /\ JoinFits /\ broker.gen \in Nat /\ g \in Int /\ pos \in Int
  BY OffsetFacts DEF Base, Inv, TypeOK, Brokers
<1> DEFINE Goal == /\ Valid(g) /\ Granted /\ Granted'
                   /\ ident'.own # 0 => ident.own # 0 /\ pos' >= pos
<1>2. ASSUME Elsewhere PROVE Goal
  <2>1. /\ UNCHANGED <<conf, ident>>
        /\ broker'.gen = broker.gen /\ broker'.known = broker.known
        /\ broker'.owner = broker.owner
    BY <1>1, <1>2, ElsewhereKeeps
  <2>2. Valid(g) /\ Granted
    BY <2>1 DEF Valid
  <2>3. ~TaskPrime
    BY <1>1, <2>2 DEF TaskPrime, JoinFits, Granted
  <2>4. pos' = pos \/ (pos' >= pos /\ ident.own # 0)
    BY <1>1, <1>2, <2>3, PosMoves
  <2> QED
    BY <1>1, <2>1, <2>2, <2>4 DEF Granted, Current
<1>3. ASSUME NEW barred \in BOOLEAN, LoseMembership(barred) PROVE Goal
  BY <1>1, <1>3, GroupMoves DEF Valid
<1>4. ASSUME TaskInstallGeneration PROVE Goal
  <2>1. task.pc = "synced" /\ broker' = broker
    BY <1>1, <1>4, GroupMoves
  <2> QED
    BY <1>1, <2>1 DEF Valid, JoinFits, Granted
<1>5. ASSUME TaskInstall PROVE Goal
  <2>1. task.pc \in {"synced", "primed", "revoking"} /\ broker' = broker
    BY <1>1, <1>5, GroupMoves
  <2>2. Valid(g) /\ Granted
    BY <2>1 DEF Valid
  <2>3. task.pc = "revoking" /\ ident'.gen = task.gen
    BY <1>1, <1>5, <2>1, <2>2, GroupMoves DEF JoinFits, Granted
  <2>4. ident'.own = 0 /\ pos' = NoPos /\ task.gen = broker.gen
    BY <1>1, <1>5, <2>3, GroupMoves DEF JoinFits
  <2> QED
    BY <2>1, <2>2, <2>3, <2>4 DEF Granted, Current
<1>6. ASSUME JoinsComplete PROVE Goal
  <2>1. broker'.gen = broker.gen + 1
    BY <1>1, <1>6, CoordinatorMoves
  <2> QED
    BY <1>1, <2>1 DEF Valid, OldGen
<1>7. ASSUME NEW owner \in {"me", "other", "none"}, Synced(owner) PROVE Goal
  <2>1. /\ broker.phase = "Completing" /\ broker'.gen = broker.gen
        /\ broker'.known = broker.known
    BY <1>1, <1>7, CoordinatorMoves
  <2> QED
    BY <1>1, <2>1 DEF Valid, JoinFits, Granted
<1>8. ASSUME Evict PROVE Goal
  BY <1>1, <1>8, CoordinatorMoves DEF Valid
<1>9. ASSUME Rebalance PROVE Goal
  <2>1. /\ broker'.gen = broker.gen /\ broker'.known = broker.known
        /\ broker'.owner = broker.owner /\ UNCHANGED <<ident, pos>>
    BY <1>1, <1>9, CoordinatorMoves
  <2> QED
    BY <1>1, <2>1 DEF Valid, Granted, Current
<1> QED
  BY <1>2, <1>3, <1>4, <1>5, <1>6, <1>7, <1>8, <1>9, NextSplit

\* A member that owns the partition owned it before, or has just been given it.
LEMMA OwnsKept ==
  ASSUME Base, Next, Owns'
  PROVE  \/ Owns /\ ident'.own = ident.own /\ pos' >= pos
         \/ /\ task.pc = "primed" \/ Owns
            /\ ident'.own = broker.gen + 1 /\ ~Current /\ broker.known
            /\ UNCHANGED <<pos, polled, lock, app, async, rpc, wire, broker, ghost>>
<1>1. /\ Inv /\ JoinFits /\ broker.gen \in Nat /\ ident.gen \in Int /\ OldGen(ident.gen)
      /\ pos \in Int
  BY OffsetFacts DEF Base, Inv, TypeOK, Brokers, Idents, SnapshotsOld
<1> DEFINE Kept == Owns /\ ident'.own = ident.own /\ pos' >= pos
<1>2. ASSUME Elsewhere PROVE Kept
  <2>1. UNCHANGED <<conf, ident>> /\ broker'.owner = broker.owner
    BY <1>1, <1>2, ElsewhereKeeps
  <2>2. Owns
    BY <2>1 DEF Owns
  <2>3. ~TaskPrime
    BY <1>1, <2>2 DEF TaskPrime, Added, Owns, JoinFits
  <2> QED
    BY <1>1, <1>2, <2>1, <2>2, <2>3, PosMoves
<1>3. ASSUME NEW barred \in BOOLEAN, LoseMembership(barred) PROVE FALSE
  BY <1>1, <1>3, GroupMoves DEF Owns
<1>4. ASSUME TaskInstallGeneration PROVE Kept
  BY <1>1, <1>4, GroupMoves DEF Owns
<1>5. ASSUME TaskInstall
      PROVE  \/ Kept
             \/ /\ task.pc = "primed" \/ Owns
                /\ ident'.own = broker.gen + 1 /\ ~Current /\ broker.known
                /\ UNCHANGED <<pos, polled, lock, app, async, rpc, wire, broker, ghost>>
  <2>1. /\ task.mine /\ pos' = pos
        /\ UNCHANGED <<polled, lock, app, async, rpc, wire, broker, ghost>>
    BY <1>1, <1>5, GroupMoves DEF Owns
  <2>2. task.pc \in {"synced", "primed"} /\ task.gen = broker.gen /\ broker.known /\ ~Current
        /\ broker.owner = "me"
    BY <1>1, <1>5, <2>1, GroupMoves DEF JoinFits
  <2>3. CASE conf.coop /\ ident.own # 0
    BY <1>1, <1>5, <2>1, <2>2, <2>3, GroupMoves DEF Owns
  <2>4. CASE ~(conf.coop /\ ident.own # 0)
    <3>1. ident'.own = broker.gen + 1
      BY <1>1, <1>5, <2>1, <2>2, <2>4, GroupMoves
    <3>2. task.pc = "primed" \/ Owns
      BY <1>1, <1>5, <2>1, <2>2, GroupMoves DEF Owns, Added
    <3> QED
      BY <2>1, <2>2, <3>1, <3>2
  <2> QED
    BY <2>3, <2>4
<1>6. ASSUME \/ JoinsComplete \/ Evict \/ Rebalance
             \/ \E owner \in {"me", "other", "none"} : Synced(owner)
      PROVE  Kept
  <2>1. UNCHANGED <<conf, ident, pos>> /\ (broker'.owner = broker.owner \/ task.pc # "synced")
    BY <1>1, <1>6, CoordinatorMoves
  <2> QED
    BY <1>1, <2>1 DEF Owns, JoinFits
<1> QED
  BY <1>2, <1>3, <1>4, <1>5, <1>6, NextSplit

\* What the coordinator does with a request: the best commit moves to it, down or not at all.
LEMMA ApplyBest ==
  ASSUME Inv, NEW r \in Requests, Apply(r)
  PROVE  \/ UNCHANGED <<broker, ghost>> /\ ~Accepts(r)
         \/ /\ Valid(r.gen) /\ Accepts(r) /\ broker'.committed = r.off
            /\ r.kind = "position" => /\ ghost'.best >= ghost.best
                                      /\ ghost'.best >= r.off
                                      /\ ghost'.best \in {ghost.best, r.off}
            /\ r.kind = "lowering" => ghost'.best <= ghost.best /\ ghost'.best <= r.off
            /\ r.kind = "raised" => ghost'.best = ghost.best
<1>1. /\ ghost \in Ghosts /\ broker \in Brokers /\ r.off \in Int /\ ghost.best \in Int
      /\ r.kind \in Kinds
  BY OffsetFacts DEF Inv, TypeOK, Ghosts, Requests
<1>2. CASE ~Accepts(r)
  BY <1>2 DEF Apply
<1>3. CASE Accepts(r)
  <2>1. broker'.committed = r.off
    BY <1>1, <1>3 DEF Apply, Brokers
  <2>2. CASE r.kind = "position"
    <3>1. ghost'.best = Larger(ghost.best, r.off)
      BY <1>1, <1>3, <2>2 DEF Apply, Ghosts
    <3> QED
      BY <1>1, <1>3, <2>1, <2>2, <3>1 DEF Larger, Accepts, Valid
  <2>3. CASE r.kind = "lowering"
    <3>1. ghost'.best = Smaller(ghost.best, r.off)
      BY <1>1, <1>3, <2>3 DEF Apply, Ghosts
    <3> QED
      BY <1>1, <1>3, <2>1, <2>3, <3>1 DEF Smaller, Accepts, Valid
  <2>4. CASE r.kind = "raised"
    <3>1. ghost'.best = ghost.best
      BY <1>1, <1>3, <2>4 DEF Apply, Ghosts
    <3> QED
      BY <1>3, <2>1, <2>4, <3>1 DEF Accepts, Valid
  <2> QED
    BY <1>1, <2>2, <2>3, <2>4 DEF Kinds
<1> QED
  BY <1>2, <1>3

\* The best commit of a step that is no commit of another member.
LEMMA BestMoves ==
  ASSUME Inv, Next, ~OtherCommits
  PROVE  \/ ghost'.best = ghost.best /\ broker'.committed = broker.committed
         \/ \E c \in Conns :
              /\ wire[c] # <<>> /\ 1 \in DOMAIN wire[c] /\ wire[c][1] \in Requests
              /\ Apply(wire[c][1]) /\ UNCHANGED <<conf, ident, pos, polled, lock, app, async, task>>
<1>1. ghost \in Ghosts /\ broker \in Brokers /\ TypeOK
  BY DEF Inv, TypeOK, Ghosts
<1>2. \A off : Processed(off) => ghost'.best = ghost.best
  BY <1>1 DEF Processed, Ghosts
<1>3. ASSUME NEW conn \in Conns, BrokerCommit(conn) \/ Disconnect(conn, TRUE)
      PROVE  \E c \in Conns :
               /\ wire[c] # <<>> /\ 1 \in DOMAIN wire[c] /\ wire[c][1] \in Requests
               /\ Apply(wire[c][1]) /\ UNCHANGED <<conf, ident, pos, polled, lock, app, async, task>>
  <2>1. /\ wire[conn] # <<>> /\ Apply(Head(wire[conn]))
        /\ UNCHANGED <<conf, ident, pos, polled, lock, app, async, task>>
    BY <1>3 DEF BrokerCommit, Disconnect
  <2>2. /\ 1 \in DOMAIN wire[conn] /\ Head(wire[conn]) = wire[conn][1]
        /\ Head(wire[conn]) \in Requests
    BY <1>1, <2>1, FirstRequest DEF Conns
  <2>3. Apply(wire[conn][1])
    BY <2>1, <2>2
  <2> QED
    BY <2>1, <2>2, <2>3
<1>4. ASSUME NEW conn \in Conns, Disconnect(conn, FALSE) PROVE UNCHANGED <<broker, ghost>>
  BY <1>4 DEF Disconnect
<1>5. ASSUME \/ AppGoesOn \/ AppCalls \/ AutoCommitEnds \/ Worker
             \/ TaskStart \/ TaskTurn \/ TaskCommit \/ TaskAnswer \/ TaskPrime \/ TaskGivesUp
      PROVE  broker' = broker /\ ghost'.best = ghost.best
  <2>1. broker' = broker /\ (ghost' = ghost \/ \E off : Processed(off))
    BY <1>5 DEF AppGoesOn, PollRecord, PollFetch, CommitSync, SyncTurn, SyncAttempt, SyncSend,
                SyncEnds, CloseDrained, Schedule, AppCalls, PollStart, PushCallback, Close,
                AutoCommitEnds, Worker, WorkerTurn, WorkerTake, WorkerSend, WorkerAnswer,
              WorkerAfter,
                TaskStart, TaskTurn, TaskCommit, TaskAnswer, TaskPrime, TaskGivesUp
  <2> QED
    BY <1>2, <2>1
<1>6. ASSUME ~Elsewhere PROVE ghost' = ghost /\ broker'.committed = broker.committed
  <2>1. ghost' = ghost
    BY <1>6, NextSplit, GroupMoves, CoordinatorMoves
  <2>2. broker' = broker \/ JoinsComplete \/ Evict \/ Rebalance
        \/ \E owner \in {"me", "other", "none"} : Synced(owner)
    BY <1>6, NextSplit, GroupMoves
  <2>3. JoinsComplete \/ Evict \/ Rebalance => broker'.committed = broker.committed
    BY <1>1 DEF JoinsComplete, Evict, Rebalance, Brokers
  <2>4. \A owner \in {"me", "other", "none"} : Synced(owner) => broker'.committed = broker.committed
    BY <1>1 DEF Synced, Brokers
  <2> QED
    BY <2>1, <2>2, <2>3, <2>4
<1> QED
  BY <1>3, <1>4, <1>5, <1>6 DEF Elsewhere

\* A generation that the coordinator accepts after a step, it accepted before.
LEMMA ValidBefore ==
  ASSUME Base, Next, NEW g \in Gens, OldGen(g), Valid(g)'
  PROVE  Valid(g)
<1>1. Inv /\ broker.gen \in Nat /\ g \in Int
  BY OffsetFacts DEF Base, Inv, TypeOK, Brokers
<1>2. JoinsComplete => broker'.gen = broker.gen + 1
  BY <1>1, CoordinatorMoves
<1>3. ~JoinsComplete => broker'.gen = broker.gen /\ (broker'.known => broker.known)
  BY <1>1, NextSplit, ElsewhereKeeps, GroupMoves, CoordinatorMoves
<1> QED
  BY <1>1, <1>2, <1>3 DEF Valid, OldGen

\* What was not too low stays so, unless another member commits or a request goes out.
LEMMA GoodKept ==
  ASSUME Base, Next, ~OtherCommits, Shrinks, NEW off \in Int, Good(off)
  PROVE  Good(off)'
<1>1. Inv /\ SnapshotsOld /\ ghost.best \in Int /\ wire \in Wires
  BY OffsetFacts DEF Base, Inv, TypeOK, Wires
<1>2. off >= ghost'.best
  <2>1. CASE ghost'.best = ghost.best
    BY <1>1, <2>1 DEF Good
  <2>2. ASSUME NEW c \in Conns, 1 \in DOMAIN wire[c], wire[c][1] \in Requests, Apply(wire[c][1])
        PROVE  off >= ghost'.best
    <3>1. /\ Valid(wire[c][1].gen) /\ wire[c][1].kind = "position" => off >= wire[c][1].off
          /\ off >= ghost.best
      BY <2>2 DEF Good
    <3>2. wire[c][1].off \in Int /\ wire[c][1].kind \in Kinds /\ ghost'.best \in Int
      BY <1>1, <2>2, ApplyEffect, OffsetFacts DEF Requests, Inv, Ghosts
    <3> QED
      BY <1>1, <2>2, <3>1, <3>2, ApplyBest DEF Kinds
  <2> QED
    BY <1>1, <2>1, <2>2, BestMoves
<1>3. ASSUME NEW c \in Conns, NEW i \in DOMAIN wire'[c], Valid(wire[c][i].gen)',
             wire'[c][i].kind = "position"
      PROVE  off >= wire'[c][i].off
  <2>1. PICK j \in DOMAIN wire[c] : SameRequest(wire'[c][i], wire[c][j])
    BY DEF Shrinks
  <2>2. wire[c][j].gen \in Gens /\ OldGen(wire[c][j].gen) /\ wire[c][j].gen = wire'[c][i].gen
    <3>1. wire[c][j] \in Requests
      BY <1>1 DEF Wires, Conns
    <3> QED
      BY <1>1, <2>1, <3>1 DEF SnapshotsOld, SameRequest, Requests
  <2>3. \A g : g = wire[c][j].gen => Valid(g)'
    BY <1>3, <2>2 DEF Valid
  <2>4. Valid(wire[c][j].gen)
    BY <2>2, <2>3, ValidBefore
  <2> QED
    BY <1>3, <2>1, <2>4 DEF Good, SameRequest
<1> QED
  BY <1>2, <1>3 DEF Good

-----------------------------------------------------------------------------
(* The invariant.                                                          *)

\* The position of an owner, also of one that is about to be.
PositionGood == (Owns => Good(pos)) /\ (task.pc = "primed" => pos >= ghost.best)

\* The requests that may be accepted are not too low, and the positions among them are in
\* order.
RequestsGood ==
  \A c \in Conns : \A i \in DOMAIN wire[c] : Valid(wire[c][i].gen) =>
    /\ Granted
    /\ wire[c][i].kind # "lowering" => wire[c][i].off >= ghost.best
    /\ \A j \in DOMAIN wire[c] :
         i < j /\ Valid(wire[c][j].gen) /\ wire[c][i].kind = "position"
               /\ wire[c][j].kind = "position" => wire[c][i].off <= wire[c][j].off

InHand == app.pc \in {"attempt", "record", "sent"}

\* The offset of a synchronous commit, before each of its attempts and after it.
SyncGood ==
  /\ InHand => app.own # 0
  /\ InHand /\ ~app.pick /\ app.own = ident.own /\ Owns => Sendable(app.off)
  /\ app.pc = "record" /\ Valid(app.gen) => Granted /\ (~app.pick => Sendable(app.off))
  /\ app.pc = "sent" /\ app.pick /\ rpc.at = "ok" /\ app.own = ident.own /\ Owns /\ conf.auto =>
       app.off >= ghost.best

\* An identity that was read before the position.
SnapshotsGood ==
  /\ app.pc = "positions" /\ app.own # 0 /\ Valid(app.gen) => Granted
  /\ async.pc = "offsets" /\ async.own # 0 /\ Valid(async.gen) => Granted

\* A request that may go out again.
ResendGood ==
  lock \in {"auto", "async"} /\ rpc.at # "none" /\ Valid(rpc.gen) =>
    /\ Granted /\ Sendable(rpc.off)
    /\ polled.own = ident.own /\ Owns => polled.off >= rpc.off

\* The position for the commit before a JoinGroup.
PolledGood ==
  polled.own = ident.own /\ Owns =>
    Good(polled.off) /\ (polled.kind = "position" => polled.off <= pos)

OrderInv == /\ Base /\ CommittedNeverRewinds /\ PositionGood /\ RequestsGood /\ SyncGood
            /\ SnapshotsGood /\ ResendGood /\ PolledGood

-----------------------------------------------------------------------------
(* Steps that send nothing.                                                *)

Numbers == /\ pos \in Int /\ app.off \in Int /\ polled.off \in Int /\ rpc.off \in Int
           /\ ghost.best \in Int /\ broker.gen \in Nat /\ broker.committed \in Int
           /\ app.own \in Nat /\ polled.own \in Nat /\ async.own \in Nat /\ ident.own \in Nat
           /\ app.gen \in Gens /\ async.gen \in Gens /\ rpc.gen \in Gens /\ ident.gen \in Gens

LEMMA NumberFacts ==
  ASSUME Inv
  PROVE  /\ Numbers
         /\ \A c \in Conns : \A i \in DOMAIN wire[c] :
              wire[c][i] \in Requests /\ wire[c][i].off \in Int /\ wire[c][i].gen \in Gens
              /\ wire[c][i].kind \in Kinds /\ i \in Nat
<1>1. /\ pos \in Int /\ app.off \in Int /\ polled.off \in Int /\ rpc.off \in Int
      /\ ghost.best \in Int /\ broker.gen \in Nat /\ broker.committed \in Int
  BY OffsetFacts DEF Inv, TypeOK, Apps, PolledOffsets, Exchanges, Brokers
<1>2. /\ app.own \in Nat /\ polled.own \in Nat /\ async.own \in Nat /\ ident.own \in Nat
      /\ app.gen \in Gens /\ async.gen \in Gens /\ rpc.gen \in Gens /\ ident.gen \in Gens
  BY DEF Inv, TypeOK, Apps, PolledOffsets, Exchanges, Workers, Idents
<1>3. ASSUME NEW c \in Conns, NEW i \in DOMAIN wire[c]
      PROVE  /\ wire[c][i] \in Requests /\ wire[c][i].off \in Int /\ wire[c][i].gen \in Gens
             /\ wire[c][i].kind \in Kinds /\ i \in Nat
  <2>1. wire[c] \in Seq(Requests)
    BY DEF Inv, TypeOK, Conns
  <2>2. wire[c][i] \in Requests /\ i \in Nat
    BY <2>1
  <2> QED
    BY <2>2, OffsetFacts DEF Requests
<1> QED
  BY <1>1, <1>2, <1>3 DEF Numbers

LEMMA GoodUp ==
  ASSUME Inv, NEW x \in Int, NEW y \in Int, Good(x), y >= x
  PROVE  Good(y)
<1>1. /\ ghost.best \in Int
      /\ \A c \in Conns : \A i \in DOMAIN wire[c] : wire[c][i].off \in Int
  BY NumberFacts DEF Numbers
<1> QED
  BY <1>1 DEF Good

\* Two requests on the way that may not lower the best commit: there are no automatic commits,
\* and all but the last one are of synchronous commits that were given up.
LEMMA TwoRequests ==
  ASSUME Base, NEW c \in Conns, NEW i \in DOMAIN wire[c], NEW e \in Conns,
         NEW j \in DOMAIN wire[e], wire[c][i].kind # "lowering", wire[e][j].kind # "lowering"
  PROVE  (c = e /\ i = j) \/ (c = "data" /\ e = "data" /\ ~conf.auto)
<1>1. Inv /\ ModesFit /\ OneExchange
  BY DEF Base, Inv
<1>2. CASE wire[c][i].live /\ wire[e][j].live
  BY <1>1, <1>2 DEF OneExchange, Conns
<1>3. CASE ~(wire[c][i].live /\ wire[e][j].live)
  <2>1. ~conf.auto
    BY <1>1, <1>3 DEF ModesFit, GivenUp
  <2>2. ASSUME NEW x \in Conns, NEW k \in DOMAIN wire[x] PROVE x = "data"
    <3>1. CASE wire[x][k].live
      BY <1>1, <2>1, <3>1 DEF OneExchange, ModesFit, Conns
    <3>2. CASE ~wire[x][k].live
      BY <1>1, <2>1, <3>2 DEF ModesFit, GivenUp
    <3> QED
      BY <3>1, <3>2
  <2> QED
    BY <2>1, <2>2
<1> QED
  BY <1>2, <1>3

\* The synchronous commit, step by step.
LEMMA HandMoves ==
  ASSUME Inv, Next, ~SyncSend, InHand'
  PROVE  \/ /\ SyncTurn /\ app.pc = "turn" /\ app'.pc = "attempt" /\ app'.pick = app.pick
            /\ ident.own # 0 /\ app'.own = ident.own
            /\ ~app.pick => app'.off = pos
         \/ /\ SyncAttempt /\ app.pc = "attempt" /\ app'.pc = "record" /\ app'.pick = app.pick
            /\ ident.own = app.own /\ app'.own = app.own /\ app'.off = app.off
            /\ app'.gen = ident.gen
         \/ /\ SyncEnds /\ app.pc = "sent" /\ app'.pc = "attempt" /\ app'.pick = app.pick
            /\ app'.own = app.own /\ app'.off = app.off
         \/ app' = app
<1>1. app \in Apps /\ Returned.pc \notin {"attempt", "record", "sent"}
  BY ReturnedFields DEF Inv, TypeOK
<1>2. ASSUME SyncTurn
      PROVE  /\ app.pc = "turn" /\ app'.pc = "attempt" /\ app'.pick = app.pick
             /\ ident.own # 0 /\ app'.own = ident.own
             /\ ~app.pick => app'.off = pos
  <2>1. /\ app.pc = "turn" /\ ident.own # 0
        /\ app' = [app EXCEPT !.pc = "attempt", !.off = IF app.pick THEN app.off ELSE pos,
                              !.own = ident.own]
    BY <1>1, <1>2 DEF SyncTurn, InHand
  <2> QED
    BY <1>1, <2>1 DEF Apps
<1>3. ASSUME SyncAttempt
      PROVE  /\ app.pc = "attempt" /\ app'.pc = "record" /\ app'.pick = app.pick
             /\ ident.own = app.own /\ app'.own = app.own /\ app'.off = app.off
             /\ app'.gen = ident.gen
  <2>1. /\ app.pc = "attempt" /\ ident.own = app.own
        /\ app' = [app EXCEPT !.pc = "record", !.gen = ident.gen]
    BY <1>1, <1>3 DEF SyncAttempt, InHand, RetainContinuouslyOwned
  <2> QED
    BY <1>1, <2>1 DEF Apps
<1>4. ASSUME SyncEnds
      PROVE  /\ app.pc = "sent" /\ app'.pc = "attempt" /\ app'.pick = app.pick
             /\ app'.own = app.own /\ app'.off = app.off
  <2>1. app.pc = "sent" /\ app' = [app EXCEPT !.pc = "attempt"]
    BY <1>1, <1>4 DEF SyncEnds, InHand
  <2> QED
    BY <1>1, <2>1 DEF Apps
<1>5. ASSUME PollStart \/ \E due \in BOOLEAN : PollRecord(due) PROVE FALSE
  BY <1>1, <1>5 DEF PollStart, PollRecord, Apps, Idle, InHand
<1>6. ASSUME \/ (\E n \in 0..1 : PollFetch(n)) \/ (\E pick \in BOOLEAN : CommitSync(pick))
             \/ PushCallback \/ Schedule \/ Close \/ CloseDrained
      PROVE  FALSE
  BY <1>6, AppMoves DEF InHand
<1>7. ASSUME \/ AutoCommitEnds \/ Worker
             \/ TaskStart \/ TaskTurn \/ TaskCommit \/ TaskAnswer \/ TaskPrime \/ TaskGivesUp
             \/ (\E conn \in Conns : BrokerCommit(conn))
             \/ (\E conn \in Conns, processed \in BOOLEAN : Disconnect(conn, processed))
             \/ OtherCommits
      PROVE  app' = app
  BY <1>7 DEF AutoCommitEnds, Worker, WorkerTurn, WorkerTake, WorkerSend, WorkerAnswer,
              WorkerAfter,
       TaskStart, TaskTurn, TaskCommit, TaskAnswer, TaskPrime, TaskGivesUp, BrokerCommit,
       Disconnect, OtherCommits
<1>8. CASE ~Elsewhere
  BY <1>8, NextSplit, GroupMoves, CoordinatorMoves
<1> QED
  BY <1>2, <1>3, <1>4, <1>5, <1>6, <1>7, <1>8 DEF Elsewhere, AppGoesOn, AppCalls

LEMMA NumbersNext ==
  ASSUME Inv'
  PROVE  Numbers'
<1>1. /\ pos' \in Int /\ app'.off \in Int /\ polled'.off \in Int /\ rpc'.off \in Int
      /\ ghost'.best \in Int /\ broker'.gen \in Nat /\ broker'.committed \in Int
  BY OffsetFacts DEF Inv, TypeOK, Apps, PolledOffsets, Exchanges, Brokers
<1>2. /\ app'.own \in Nat /\ polled'.own \in Nat /\ async'.own \in Nat /\ ident'.own \in Nat
      /\ app'.gen \in Gens /\ async'.gen \in Gens /\ rpc'.gen \in Gens /\ ident'.gen \in Gens
  BY DEF Inv, TypeOK, Apps, PolledOffsets, Exchanges, Workers, Idents
<1> QED
  BY <1>1, <1>2 DEF Numbers

\* A step that sends nothing, and is no commit of another member.
Quiet == Next /\ ~OtherCommits /\ ~Sends

LEMMA QuietFacts ==
  ASSUME OrderInv, Quiet
  PROVE  /\ Base /\ Base' /\ Inv /\ Inv' /\ Shrinks /\ Numbers /\ Numbers'
         /\ \A x \in Int, y \in Int : Good(x) /\ y >= x => Good(y)'
<1>1. Base /\ Inv /\ Next /\ ~OtherCommits
  BY DEF OrderInv, Base, Quiet
<1>2. Base' /\ Inv'
  BY <1>1, BaseStep DEF Base
<1>3. Shrinks
  BY <1>1, WireStep DEF Quiet
<1>4. Numbers /\ Numbers'
  BY <1>1, <1>2, NumberFacts, NumbersNext
<1>5. ASSUME NEW x \in Int, NEW y \in Int, Good(x), y >= x PROVE Good(y)'
  <2>1. Good(y)
    BY <1>1, <1>5, GoodUp
  <2> QED
    BY <1>1, <1>3, <2>1, GoodKept
<1> QED
  BY <1>1, <1>2, <1>3, <1>4, <1>5

\* No commit of the member can be accepted while it is in another generation.
LEMMA NoneValid ==
  ASSUME Base, RequestsGood, ~Granted
  PROVE  \A c \in Conns : \A i \in DOMAIN wire[c] : ~Valid(wire[c][i].gen)
BY DEF RequestsGood

LEMMA QuietPosition ==
  ASSUME OrderInv, Quiet
  PROVE  PositionGood'
<1>1. /\ Base /\ Inv /\ Numbers /\ Numbers' /\ Next /\ PositionGood /\ RequestsGood /\ JoinFits
      /\ \A x \in Int, y \in Int : Good(x) /\ y >= x => Good(y)'
  BY QuietFacts DEF OrderInv, Base, Quiet
<1>2. task.pc = "primed" => Good(pos)
  <2>1. SUFFICES ASSUME task.pc = "primed" PROVE Good(pos)
    OBVIOUS
  <2>2. ~Granted /\ pos >= ghost.best
    BY <1>1, <2>1 DEF Granted, JoinFits, PositionGood
  <2> QED
    BY <1>1, <2>2, NoneValid DEF Good
<1>3. ASSUME Owns' PROVE Good(pos)'
  <2>1. pos' >= pos /\ Good(pos)
    BY <1>1, <1>2, <1>3, OwnsKept DEF PositionGood, Numbers
  <2>2. \A y : y = pos' => Good(y)'
    BY <1>1, <2>1 DEF Numbers
  <2> QED
    BY <2>2
<1>4. ASSUME task'.pc = "primed" PROVE pos' >= ghost'.best
  <2>1. \/ Elsewhere \/ (task.pc = "primed" /\ UNCHANGED <<pos, ghost>>)
    BY <1>1, <1>4, NextSplit, GroupMoves, CoordinatorMoves
  <2>2. TaskPrime \/ (task.pc = "primed" /\ pos' >= pos)
    BY <1>1, <1>4, <2>1, TaskMoves, PosMoves DEF Numbers
  <2>3. CASE TaskPrime
    <3>1. pos' = broker.committed /\ ghost' = ghost
      BY <2>3 DEF TaskPrime
    <3> QED
      BY <1>1, <3>1 DEF OrderInv, CommittedNeverRewinds, Numbers
  <2>4. CASE task.pc = "primed" /\ pos' >= pos
    <3>1. \A y : y = pos' => Good(y)'
      BY <1>1, <1>2, <2>4 DEF Numbers
    <3> QED
      BY <3>1 DEF Good
  <2> QED
    BY <2>2, <2>3, <2>4
<1> QED
  BY <1>3, <1>4 DEF PositionGood

\* A request that may be accepted is not overtaken by one behind it or on the other connection.
LEMMA NotOvertaken ==
  ASSUME OrderInv, Quiet, NEW c \in Conns, NEW i \in DOMAIN wire[c], Valid(wire[c][i].gen),
         wire[c][i].kind # "lowering"
  PROVE  wire[c][i].off >= ghost'.best
<1>1. /\ Base /\ Inv /\ Numbers /\ Numbers' /\ Next /\ ~OtherCommits /\ RequestsGood /\ ModesFit
  BY QuietFacts DEF OrderInv, Base, Quiet
<1>2. /\ wire[c][i].off >= ghost.best /\ wire[c][i].off \in Int /\ wire[c][i].kind \in Kinds
      /\ i \in Nat
  BY <1>1, NumberFacts DEF RequestsGood
<1>3. CASE ghost'.best = ghost.best
  BY <1>2, <1>3
<1>4. ASSUME NEW e \in Conns, 1 \in DOMAIN wire[e], wire[e][1] \in Requests, Apply(wire[e][1])
      PROVE  wire[c][i].off >= ghost'.best
  <2>1. wire[e][1].off \in Int /\ wire[e][1].kind \in Kinds
    BY <1>1, <1>4, NumberFacts
  <2>2. \/ ghost' = ghost
        \/ /\ Valid(wire[e][1].gen)
           /\ wire[e][1].kind = "position" => ghost'.best \in {ghost.best, wire[e][1].off}
           /\ wire[e][1].kind = "lowering" => ghost'.best <= ghost.best
           /\ wire[e][1].kind = "raised" => ghost'.best = ghost.best
    BY <1>1, <1>4, ApplyBest
  <2>3. CASE wire[e][1].kind = "position" /\ Valid(wire[e][1].gen)
    <3>1. wire[e][1].off <= wire[c][i].off
      <4>1. CASE c = e /\ i = 1
        BY <1>2, <4>1
      <4>2. CASE c = "data" /\ e = "data" /\ ~(c = e /\ i = 1)
        <5>1. wire[c][i].kind = "position"
          BY <1>1, <1>2, <4>2 DEF ModesFit, Kinds
        <5>2. 1 < i
          <6>1. wire[c] \in Seq(Requests)
            BY <1>1 DEF Inv, TypeOK, Conns
          <6> QED
            BY <4>2, <6>1
        <5> QED
          BY <1>1, <1>4, <2>3, <4>2, <5>1, <5>2 DEF RequestsGood
      <4> QED
        BY <1>1, <1>4, <2>3, <4>1, <4>2, TwoRequests
    <3> QED
      BY <1>1, <1>2, <2>1, <2>2, <2>3, <3>1 DEF Numbers
  <2> QED
    BY <1>1, <1>2, <2>1, <2>2, <2>3 DEF Numbers, Kinds
<1> QED
  BY <1>1, <1>3, <1>4, BestMoves

LEMMA QuietRequests ==
  ASSUME OrderInv, Quiet
  PROVE  RequestsGood'
<1>1. /\ Base /\ Inv /\ Numbers /\ Numbers' /\ Next /\ RequestsGood /\ SnapshotsOld /\ Shrinks
  BY QuietFacts DEF OrderInv, Base, Quiet
<1>2. SUFFICES ASSUME NEW c \in Conns
               PROVE  \A i \in DOMAIN wire'[c] : Valid(wire[c][i].gen)' =>
                        /\ Granted'
                        /\ wire'[c][i].kind # "lowering" => wire'[c][i].off >= ghost'.best
                        /\ \A j \in DOMAIN wire'[c] :
                             i < j /\ Valid(wire[c][j].gen)' /\ wire'[c][i].kind = "position"
                                   /\ wire'[c][j].kind = "position" =>
                               wire'[c][i].off <= wire'[c][j].off
  BY DEF RequestsGood
<1>3. PICK d \in Nat : \A i \in DOMAIN wire'[c] :
             i + d \in DOMAIN wire[c] /\ SameRequest(wire'[c][i], wire[c][i + d])
  BY <1>1 DEF Shrinks
<1>4. ASSUME NEW i \in DOMAIN wire'[c], Valid(wire[c][i].gen)'
      PROVE  Valid(wire[c][i + d].gen) /\ Granted /\ Granted'
  <2>1. /\ wire[c][i + d].gen \in Gens /\ OldGen(wire[c][i + d].gen)
        /\ wire[c][i + d].gen = wire'[c][i].gen
    BY <1>1, <1>3, NumberFacts DEF SnapshotsOld, SameRequest
  <2>2. \A g : g = wire[c][i + d].gen => Valid(g)'
    BY <1>4, <2>1 DEF Valid
  <2>3. Valid(wire[c][i + d].gen) => Granted
    BY <1>1, <1>3 DEF RequestsGood
  <2>4. ASSUME NEW g, g = wire[c][i + d].gen PROVE Valid(g) /\ Granted /\ Granted'
    BY <1>1, <2>1, <2>2, <2>3, <2>4, GrantKept
  <2> QED
    BY <2>4
<1>5. ASSUME NEW i \in DOMAIN wire'[c], Valid(wire[c][i].gen)'
      PROVE  wire'[c][i].kind # "lowering" => wire'[c][i].off >= ghost'.best
  BY <1>3, <1>4, <1>5, NotOvertaken DEF SameRequest
<1>6. ASSUME NEW i \in DOMAIN wire'[c], Valid(wire[c][i].gen)', NEW j \in DOMAIN wire'[c],
             i < j, Valid(wire[c][j].gen)', wire'[c][i].kind = "position",
             wire'[c][j].kind = "position"
      PROVE  wire'[c][i].off <= wire'[c][j].off
  <2>1. i + d < j + d
    <3>1. wire'[c] \in Seq(Requests)
      BY QuietFacts DEF Inv, TypeOK, Conns
    <3> QED
      BY <1>6, <3>1
  <2>2. Valid(wire[c][i + d].gen) /\ Valid(wire[c][j + d].gen)
    BY <1>4, <1>6
  <2> QED
    BY <1>1, <1>3, <1>6, <2>1, <2>2 DEF RequestsGood, SameRequest
<1> QED
  BY <1>4, <1>5, <1>6

LEMMA QuietCommitted ==
  ASSUME OrderInv, Quiet
  PROVE  CommittedNeverRewinds'
<1>1. /\ Base /\ Inv /\ Numbers /\ Numbers' /\ Next /\ ~OtherCommits /\ RequestsGood
      /\ CommittedNeverRewinds
  BY QuietFacts DEF OrderInv, Base, Quiet
<1>2. CASE ghost'.best = ghost.best /\ broker'.committed = broker.committed
  BY <1>1, <1>2 DEF CommittedNeverRewinds
<1>3. ASSUME NEW c \in Conns, 1 \in DOMAIN wire[c], wire[c][1] \in Requests, Apply(wire[c][1])
      PROVE  broker'.committed >= ghost'.best
  <2>1. wire[c][1].off \in Int /\ wire[c][1].kind \in Kinds
    BY <1>1, <1>3, NumberFacts
  <2>2. CASE UNCHANGED <<broker, ghost>>
    BY <1>1, <2>2 DEF CommittedNeverRewinds
  <2>3. CASE /\ Valid(wire[c][1].gen) /\ broker'.committed = wire[c][1].off
             /\ wire[c][1].kind = "position" => ghost'.best \in {ghost.best, wire[c][1].off}
             /\ wire[c][1].kind = "lowering" => ghost'.best <= wire[c][1].off
             /\ wire[c][1].kind = "raised" => ghost'.best = ghost.best
    <3>1. wire[c][1].kind # "lowering" => wire[c][1].off >= ghost.best
      BY <1>1, <1>3, <2>3 DEF RequestsGood
    <3> QED
      BY <1>1, <2>1, <2>3, <3>1 DEF Numbers, Kinds
  <2> QED
    BY <1>1, <1>3, <2>2, <2>3, ApplyBest
<1> QED
  BY <1>1, <1>2, <1>3, BestMoves DEF CommittedNeverRewinds

\* The answer to the commit in hand: the request that was committed is its own.
LEMMA NewlyAcknowledged ==
  ASSUME Inv, Next, ~Sends, rpc'.at = "ok", rpc.at # "ok"
  PROVE  \E c \in Conns : /\ 1 \in DOMAIN wire[c] /\ wire[c][1] \in Requests /\ wire[c][1].live
                          /\ Apply(wire[c][1]) /\ Accepts(wire[c][1])
<1>1. rpc \in Exchanges /\ TypeOK /\ NoRpc.at # "ok"
  BY DEF Inv, TypeOK, NoRpc
<1>2. ASSUME NEW conn \in Conns, NEW processed \in BOOLEAN, Disconnect(conn, processed)
      PROVE  FALSE
  BY <1>1, <1>2 DEF Disconnect, Exchanges
<1>3. PICK conn \in Conns : BrokerCommit(conn)
  BY <1>1, <1>2, RpcStep
<1>4. wire[conn] # <<>> /\ Apply(Head(wire[conn]))
  BY <1>3 DEF BrokerCommit
<1>5. 1 \in DOMAIN wire[conn] /\ Head(wire[conn]) = wire[conn][1] /\ Head(wire[conn]) \in Requests
  BY <1>1, <1>4, FirstRequest DEF Conns
<1>6. rpc' = IF wire[conn][1].live
               THEN [rpc EXCEPT !.at = IF Accepts(wire[conn][1]) THEN "ok" ELSE "refused"]
               ELSE rpc
  BY <1>3, <1>5 DEF BrokerCommit
<1>7. wire[conn][1].live /\ Accepts(wire[conn][1])
  BY <1>1, <1>6 DEF Exchanges
<1>8. Apply(wire[conn][1])
  BY <1>4, <1>5
<1> QED
  BY <1>5, <1>7, <1>8

\* An ownership id that was read before is not the one of a new assignment.
LEMMA SameOwnership ==
  ASSUME Base, Next, Owns', OldOwn(ident'.own)
  PROVE  Owns /\ ident.own = ident'.own /\ pos' >= pos
BY OwnsKept DEF OldOwn

\* The coordinator accepts the generation of an owner: it is granted the partition.
LEMMA OwnerGranted ==
  ASSUME Base, ident.own # 0, Valid(ident.gen)
  PROVE  Owns /\ Granted
BY DEF Base, JoinFits, Owns, Current, Granted, Valid

LEMMA QuietSync ==
  ASSUME OrderInv, Quiet
  PROVE  SyncGood'
<1>1. /\ Base /\ Inv /\ Numbers /\ Numbers' /\ Next /\ ~OtherCommits /\ ~Sends /\ ~SyncSend
      /\ SyncGood /\ PositionGood /\ SnapshotsOld /\ JoinFits /\ ModesFit /\ LockHeld /\ OneExchange
      /\ \A x \in Int, y \in Int : Good(x) /\ y >= x => Good(y)'
  BY QuietFacts DEF OrderInv, Base, Quiet, Sends, Inv
<1>2. ASSUME InHand' PROVE app'.own # 0 /\ OldOwn(app'.own)
  BY <1>1, <1>2, HandMoves DEF SyncGood, InHand, SnapshotsOld
<1>3. ASSUME InHand', ~app'.pick, app'.own = ident'.own, Owns'
      PROVE  Sendable(app.off)'
  <2>1. Owns /\ ident.own = ident'.own /\ pos' >= pos
    BY <1>1, <1>2, <1>3, SameOwnership
  <2>2. Good(app'.off) /\ app'.off <= pos
    <3>1. CASE app'.off = pos
      BY <1>1, <2>1, <3>1 DEF PositionGood, Numbers
    <3>2. CASE InHand /\ app'.pick = app.pick /\ app'.own = app.own /\ app'.off = app.off
      BY <1>1, <1>3, <2>1, <3>2 DEF SyncGood, Sendable, Owns
    <3> QED
      BY <1>1, <1>3, <3>1, <3>2, HandMoves DEF InHand
  <2>3. \A y : y = app'.off => Good(y)'
    BY <1>1, <2>2 DEF Numbers
  <2> QED
    BY <1>1, <2>1, <2>2, <2>3 DEF Sendable, Numbers
<1>4. ASSUME app'.pc = "record", Valid(app.gen)'
      PROVE  Granted' /\ (~app'.pick => Sendable(app.off)')
  <2>1. InHand'
    BY <1>4 DEF InHand
  <2>2. /\ OldGen(app'.gen) /\ (Valid(app'.gen) => Granted)
        /\ app'.off = app.off /\ app'.pick = app.pick
        /\ ~app.pick /\ Valid(app'.gen) => Sendable(app.off)
    <3>1. CASE app' = app
      BY <1>1, <1>4, <3>1 DEF SyncGood, SnapshotsOld
    <3>2. CASE SyncAttempt
      <4>1. /\ app.pc = "attempt" /\ app'.pick = app.pick
            /\ ident.own = app.own /\ app'.off = app.off
            /\ app'.gen = ident.gen
        BY <1>1, <1>4, <2>1, <3>2, HandMoves DEF SyncAttempt
      <4>2. Valid(ident.gen) => Owns /\ Granted
        BY <1>1, <4>1, OwnerGranted DEF SyncGood, InHand
      <4> QED
        BY <1>1, <4>1, <4>2 DEF SyncGood, SnapshotsOld, InHand
    <3> QED
      BY <1>1, <1>4, <2>1, <3>1, <3>2, HandMoves
  <2>3. PICK g \in Gens : g = app'.gen
    BY <1>1 DEF Numbers
  <2>4. Valid(g)' /\ OldGen(g) /\ (Valid(g) => Granted)
    BY <1>4, <2>2, <2>3 DEF Valid
  <2>5. Valid(g) /\ Granted' /\ (ident'.own # 0 => ident.own # 0 /\ pos' >= pos)
    BY <1>1, <2>4, GrantKept
  <2>6. ASSUME ~app'.pick PROVE Sendable(app.off)'
    <3>1. Sendable(app.off)
      BY <2>2, <2>3, <2>5, <2>6
    <3>2. app.off \in Int /\ app.off >= app.off /\ Good(app.off)
      BY <1>1, <3>1 DEF Numbers, Sendable
    <3>3. \A y : y = app.off => Good(y)'
      BY <1>1, <3>2
    <3> QED
      BY <1>1, <2>2, <2>5, <3>1, <3>3 DEF Sendable, Numbers
  <2> QED
    BY <2>5, <2>6
<1>5. ASSUME app'.pc = "sent", app'.pick, rpc'.at = "ok", app'.own = ident'.own, Owns', conf'.auto
      PROVE  app'.off >= ghost'.best
  <2>1. app' = app /\ conf.auto /\ OldOwn(app.own)
    BY <1>1, <1>5, AppSent, SameConf DEF SnapshotsOld
  <2>2. Owns /\ ident.own = ident'.own
    BY <1>1, <1>5, <2>1, SameOwnership
  <2>3. CASE rpc.at = "ok"
    <3>1. app.off >= ghost.best
      BY <1>1, <1>5, <2>1, <2>2, <2>3 DEF SyncGood
    <3>2. ASSUME NEW c \in Conns, 1 \in DOMAIN wire[c] PROVE wire[c][1].kind = "lowering"
      BY <1>1, <2>1, <2>3, <3>2 DEF ModesFit, GivenUp, OneExchange, Conns
    <3>3. ghost'.best <= ghost.best
      <4>1. ghost' = ghost => ghost'.best <= ghost.best
        BY <1>1 DEF Numbers
      <4> QED
        BY <1>1, <3>2, <4>1, BestMoves, ApplyBest DEF Numbers
    <3> QED
      BY <1>1, <2>1, <3>1, <3>3 DEF Numbers
  <2>4. CASE rpc.at # "ok"
    <3>1. PICK c \in Conns : /\ 1 \in DOMAIN wire[c] /\ wire[c][1] \in Requests /\ wire[c][1].live
                             /\ Apply(wire[c][1]) /\ Accepts(wire[c][1])
      BY <1>1, <1>5, <2>4, NewlyAcknowledged
    <3>2. wire[c][1].off = app.off /\ wire[c][1].kind = "lowering"
      BY <1>1, <1>5, <2>1, <3>1 DEF ModesFit
    <3> QED
      BY <1>1, <2>1, <3>1, <3>2, ApplyBest DEF Numbers
  <2> QED
    BY <2>3, <2>4
<1> QED
  BY <1>2, <1>3, <1>4, <1>5 DEF SyncGood

\* The two reads of the identity.
LEMMA IdentityReads ==
  ASSUME Inv, Next
  PROVE  /\ app'.pc = "positions" =>
              app' = app \/ (app'.own = ident.own /\ app'.gen = ident.gen)
         /\ async'.pc = "offsets" =>
              \/ async.pc = "offsets" /\ async'.own = async.own /\ async'.gen = async.gen
              \/ async'.own = ident.own /\ async'.gen = ident.gen
<1>1. app \in Apps /\ async \in Workers
  BY DEF Inv, TypeOK
<1>2. ASSUME app'.pc = "positions" PROVE app' = app \/ (app'.own = ident.own /\ app'.gen = ident.gen)
  <2>1. PollStart => app'.own = ident.own /\ app'.gen = ident.gen
    BY <1>1 DEF PollStart, Apps
  <2>2. ASSUME NEW due \in BOOLEAN, PollRecord(due) PROVE FALSE
    BY <1>2, <2>2 DEF PollRecord, Idle
  <2>3. ASSUME \/ (\E n \in 0..1 : PollFetch(n)) \/ (\E pick \in BOOLEAN : CommitSync(pick))
               \/ PushCallback \/ Schedule \/ Close \/ CloseDrained
               \/ SyncTurn \/ SyncAttempt \/ SyncSend \/ SyncEnds
        PROVE  FALSE
    BY <1>2, <2>3, AppMoves
  <2>4. ASSUME \/ AutoCommitEnds \/ Worker \/ TaskStart \/ TaskTurn \/ TaskCommit
               \/ TaskAnswer \/ TaskPrime \/ TaskGivesUp
               \/ (\E conn \in Conns : BrokerCommit(conn))
               \/ (\E conn \in Conns, processed \in BOOLEAN : Disconnect(conn, processed))
               \/ OtherCommits
        PROVE  app' = app
    BY <2>4 DEF AutoCommitEnds, Worker, WorkerTurn, WorkerTake, WorkerSend, WorkerAnswer,
              WorkerAfter,
         TaskStart, TaskTurn, TaskCommit, TaskAnswer, TaskPrime, TaskGivesUp,
         BrokerCommit, Disconnect, OtherCommits
  <2>5. ~Elsewhere => app' = app
    BY NextSplit, GroupMoves, CoordinatorMoves
  <2> QED
    BY <2>1, <2>2, <2>3, <2>4, <2>5 DEF Elsewhere, AppGoesOn, AppCalls
<1>3. ASSUME async'.pc = "offsets"
      PROVE  \/ async.pc = "offsets" /\ async'.own = async.own /\ async'.gen = async.gen
             \/ async'.own = ident.own /\ async'.gen = ident.gen
  <2>1. Schedule => async.pc = "offsets" /\ async'.own = async.own /\ async'.gen = async.gen
    BY <1>1, <1>3 DEF Schedule, Workers
  <2>2. /\ WorkerTake => async'.own = ident.own /\ async'.gen = ident.gen
        /\ WorkerTurn => FALSE
    BY <1>1, <1>3 DEF WorkerTurn, WorkerTake, Workers
  <2>3. WorkerSend => FALSE
    <3>1. WorkerSend => async' = [async EXCEPT !.pc = "sent"] \/ WorkerServed
      BY DEF WorkerSend
    <3> QED
      BY <1>1, <1>3, <3>1 DEF WorkerServed, Workers
  <2>4. WorkerAnswer => async' = async
    BY <1>1, <1>3 DEF WorkerAnswer, WorkerServed, Workers
  <2>5. WorkerAfter => FALSE
    BY <1>1, <1>3 DEF WorkerAfter, NoWorker, Workers
  <2>6. ASSUME \/ (\E due \in BOOLEAN : PollRecord(due)) \/ (\E n \in 0..1 : PollFetch(n))
               \/ SyncTurn \/ SyncAttempt \/ SyncSend \/ SyncEnds \/ CloseDrained
               \/ AppCalls \/ AutoCommitEnds \/ TaskStart \/ TaskTurn \/ TaskCommit
               \/ TaskAnswer \/ TaskPrime \/ TaskGivesUp
               \/ (\E conn \in Conns : BrokerCommit(conn))
               \/ (\E conn \in Conns, processed \in BOOLEAN : Disconnect(conn, processed))
               \/ OtherCommits
        PROVE  async' = async
    BY <2>6 DEF PollRecord, PollFetch, SyncTurn, SyncAttempt, SyncSend, SyncEnds, CloseDrained,
         AppCalls, PollStart, CommitSync, PushCallback, Close, AutoCommitEnds,
         TaskStart, TaskTurn, TaskCommit, TaskAnswer, TaskPrime, TaskGivesUp,
         BrokerCommit, Disconnect, OtherCommits
  <2>7. ~Elsewhere => async' = async
    BY NextSplit, GroupMoves, CoordinatorMoves
  <2> QED
    BY <1>3, <2>1, <2>2, <2>3, <2>4, <2>5, <2>6, <2>7 DEF Elsewhere, AppGoesOn, Worker
<1> QED
  BY <1>2, <1>3

LEMMA QuietSnapshots ==
  ASSUME OrderInv, Quiet
  PROVE  SnapshotsGood'
<1>1. /\ Base /\ Inv /\ Numbers /\ Numbers' /\ Next /\ SnapshotsGood /\ SnapshotsOld
  BY QuietFacts DEF OrderInv, Base, Quiet
<1>2. ASSUME NEW g \in Gens, Valid(g)', OldGen(g), Valid(g) => Granted PROVE Granted'
  BY <1>1, <1>2, GrantKept
<1>3. ASSUME app'.pc = "positions", app'.own # 0, Valid(app.gen)' PROVE Granted'
  <2>1. PICK g \in Gens : g = app'.gen
    BY <1>1 DEF Numbers
  <2>2. Valid(g)'
    BY <1>3, <2>1 DEF Valid
  <2>3. OldGen(g) /\ (Valid(g) => Granted)
    BY <1>1, <1>3, <2>1, IdentityReads, OwnerGranted DEF SnapshotsGood, SnapshotsOld
  <2> QED
    BY <1>2, <2>2, <2>3
<1>4. ASSUME async'.pc = "offsets", async'.own # 0, Valid(async.gen)' PROVE Granted'
  <2>1. PICK g \in Gens : g = async'.gen
    BY <1>1 DEF Numbers
  <2>2. Valid(g)'
    BY <1>4, <2>1 DEF Valid
  <2>3. OldGen(g) /\ (Valid(g) => Granted)
    BY <1>1, <1>4, <2>1, IdentityReads, OwnerGranted DEF SnapshotsGood, SnapshotsOld
  <2> QED
    BY <1>2, <2>2, <2>3
<1> QED
  BY <1>3, <1>4 DEF SnapshotsGood

\* The position for the commit before a JoinGroup, in a step that sends nothing.
LEMMA PolledMoves ==
  ASSUME Inv, Next, ~Sends
  PROVE  \/ polled' = polled
         \/ polled'.own = 0
         \/ app.pc = "positions" /\ polled' = [off |-> pos, own |-> app.own, kind |-> "position"]
         \/ /\ app.pc = "sent" /\ rpc.at = "ok" /\ app.pick /\ conf.auto /\ lock' = "free"
            /\ polled' = [off |-> app.off, own |-> app.own, kind |-> "raised"]
<1>1. ASSUME NEW due \in BOOLEAN, PollRecord(due)
      PROVE  \/ polled'.own = 0
             \/ app.pc = "positions" /\ polled' = [off |-> pos, own |-> app.own, kind |-> "position"]
  BY <1>1 DEF PollRecord, Nobody
<1>2. ASSUME SyncEnds
      PROVE  \/ polled' = polled
             \/ /\ app.pc = "sent" /\ rpc.at = "ok" /\ app.pick /\ conf.auto /\ lock' = "free"
                /\ polled' = [off |-> app.off, own |-> app.own, kind |-> "raised"]
  BY <1>2 DEF SyncEnds, RecordSent, MergeSentPositions, Release
<1>3. ASSUME WorkerSend PROVE polled' = polled
  <2>1. WorkerSend => polled' = polled \/ WorkerSends
    BY DEF WorkerSend, WorkerSends
  <2> QED
    BY <1>3, <2>1 DEF Sends
<1>4. ASSUME \/ (\E n \in 0..1 : PollFetch(n)) \/ SyncTurn \/ SyncAttempt \/ Schedule
             \/ CloseDrained \/ AppCalls \/ AutoCommitEnds
             \/ WorkerTurn \/ WorkerTake \/ WorkerAnswer \/ WorkerAfter
             \/ TaskStart \/ TaskTurn \/ TaskCommit \/ TaskAnswer \/ TaskPrime
             \/ TaskGivesUp \/ (\E conn \in Conns : BrokerCommit(conn))
             \/ (\E conn \in Conns, processed \in BOOLEAN : Disconnect(conn, processed))
             \/ OtherCommits
      PROVE  polled' = polled
  BY <1>4 DEF PollFetch, SyncTurn, SyncAttempt, Schedule, CloseDrained, AppCalls, PollStart,
       CommitSync, PushCallback, Close, AutoCommitEnds, WorkerTurn, WorkerTake, WorkerAnswer,
       WorkerAfter, TaskStart, TaskTurn, TaskCommit, TaskAnswer, TaskPrime, TaskGivesUp,
       BrokerCommit, Disconnect, OtherCommits
<1>5. ~Elsewhere => polled' = polled
  BY NextSplit, GroupMoves, CoordinatorMoves
<1> QED
  BY <1>1, <1>2, <1>3, <1>4, <1>5 DEF Elsewhere, AppGoesOn, Worker, Sends

\* The lock is taken when it is free, and given back.
LEMMA LockMoves ==
  ASSUME Inv, Next
  PROVE  lock' = lock \/ lock' = "free" \/ lock = "free"
<1>1. ~Elsewhere => lock' = lock
  BY NextSplit, GroupMoves, CoordinatorMoves
<1>2. ASSUME AppGoesOn \/ AppCalls PROVE lock' = lock \/ lock' = "free" \/ lock = "free"
  BY <1>2 DEF AppGoesOn, PollRecord, PollFetch, CommitSync, SyncTurn, SyncAttempt, SyncSend,
              SyncEnds, CloseDrained, Schedule, AppCalls, PollStart, PushCallback, Close, Release
<1>3. ASSUME AutoCommitEnds \/ Worker PROVE lock' = lock \/ lock' = "free" \/ lock = "free"
  BY <1>3 DEF AutoCommitEnds, Worker, WorkerTurn, WorkerTake, WorkerSend, WorkerAnswer,
              WorkerAfter, Release
<1>4. ASSUME \/ TaskStart \/ TaskTurn \/ TaskCommit \/ TaskAnswer \/ TaskPrime \/ TaskGivesUp
             \/ (\E conn \in Conns : BrokerCommit(conn))
             \/ (\E conn \in Conns, processed \in BOOLEAN : Disconnect(conn, processed))
             \/ OtherCommits
      PROVE  lock' = lock \/ lock' = "free" \/ lock = "free"
  BY <1>4 DEF TaskStart, TaskTurn, TaskCommit, TaskAnswer, TaskPrime, TaskGivesUp,
              BrokerCommit, Disconnect, OtherCommits, Release
<1> QED
  BY <1>1, <1>2, <1>3, <1>4 DEF Elsewhere

\* An exchange that goes on without a send is the one that was there.
LEMMA SameExchange ==
  ASSUME Inv, Next, ~Sends, lock' # "free", rpc'.at # "none"
  PROVE  lock' = lock /\ rpc.at # "none" /\ rpc'.off = rpc.off /\ rpc'.gen = rpc.gen
<1>1. rpc \in Exchanges /\ OneExchange /\ TypeOK
  BY DEF Inv, TypeOK
<1>2. CASE rpc' = rpc
  BY <1>2, LockMoves, NothingAwaited
<1>3. CASE rpc' = NoRpc
  BY <1>3 DEF NoRpc
<1>4. ASSUME NEW conn \in Conns, BrokerCommit(conn)
      PROVE  lock' = lock /\ (rpc' = rpc \/ rpc.at # "none")
  <2>1. 1 \in DOMAIN wire[conn] /\ Head(wire[conn]) = wire[conn][1]
    BY <1>1, <1>4, FirstRequest DEF BrokerCommit, Conns
  <2> QED
    BY <1>1, <1>4, <2>1 DEF BrokerCommit, OneExchange, Conns
<1>5. ASSUME NEW conn \in Conns, NEW processed \in BOOLEAN, Disconnect(conn, processed)
      PROVE  lock' = lock /\ (rpc' = rpc \/ rpc.at # "none")
  BY <1>1, <1>5 DEF Disconnect, OneExchange, Conns
<1>6. CASE \E at : rpc' = [rpc EXCEPT !.at = at]
  <2>1. rpc'.off = rpc.off /\ rpc'.gen = rpc.gen
    BY <1>1, <1>6 DEF Exchanges
  <2> QED
    BY <1>2, <1>3, <1>4, <1>5, <2>1, RpcStep
<1> QED
  BY <1>2, <1>3, <1>6, RpcStep

\* An ownership that a poll recorded is one that was read before.
LEMMA PolledOwned ==
  ASSUME Base, Next, Owns', polled'.own = ident'.own
  PROVE  Owns /\ ident.own = ident'.own /\ pos' >= pos
<1>1. Inv /\ OldOwn(polled.own) /\ OldOwn(app.own) /\ OldOwn(async.own) /\ ident'.own # 0
  BY DEF Base, SnapshotsOld, Owns
<1>2. OldOwn(ident'.own)
  BY <1>1, AppSnapshots
<1> QED
  BY <1>2, SameOwnership

LEMMA QuietResend ==
  ASSUME OrderInv, Quiet
  PROVE  ResendGood'
<1>1. /\ Base /\ Inv /\ Numbers /\ Numbers' /\ Next /\ ~Sends /\ ResendGood /\ SnapshotsOld
      /\ \A x \in Int, y \in Int : Good(x) /\ y >= x => Good(y)'
  BY QuietFacts DEF OrderInv, Base, Quiet
<1>2. SUFFICES ASSUME lock' \in {"auto", "async"}, rpc'.at # "none", Valid(rpc.gen)'
               PROVE  /\ Granted' /\ Sendable(rpc.off)'
                      /\ polled'.own = ident'.own /\ Owns' => polled'.off >= rpc'.off
  BY DEF ResendGood
<1>3. lock' = lock /\ rpc.at # "none" /\ rpc'.off = rpc.off /\ rpc'.gen = rpc.gen
  BY <1>1, <1>2, SameExchange
<1>4. PICK g \in Gens : g = rpc.gen
  BY <1>1 DEF Numbers
<1>5. Valid(g)' /\ OldGen(g) /\ (Valid(g) => Granted /\ Sendable(rpc.off))
  BY <1>1, <1>2, <1>3, <1>4 DEF Valid, SnapshotsOld, ResendGood
<1>6. Valid(g) /\ Granted' /\ (ident'.own # 0 => ident.own # 0 /\ pos' >= pos)
  BY <1>1, <1>5, GrantKept
<1>7. Good(rpc.off) /\ rpc.off \in Int /\ rpc.off >= rpc.off /\ (ident.own # 0 => rpc.off <= pos)
  BY <1>1, <1>5, <1>6 DEF Sendable, Numbers
<1>8. Sendable(rpc.off)'
  <2>1. \A y : y = rpc.off => Good(y)'
    BY <1>1, <1>7
  <2> QED
    BY <1>1, <1>3, <1>6, <1>7, <2>1 DEF Sendable, Numbers
<1>9. ASSUME polled'.own = ident'.own, Owns' PROVE polled'.off >= rpc'.off
  <2>1. Owns /\ ident.own = ident'.own /\ ident.own # 0
    BY <1>1, <1>9, PolledOwned DEF Owns
  <2>2. CASE polled' = polled
    BY <1>1, <1>2, <1>3, <1>4, <1>6, <1>9, <2>1, <2>2 DEF ResendGood
  <2>3. CASE polled' = [off |-> pos, own |-> app.own, kind |-> "position"]
    BY <1>1, <1>3, <1>7, <2>1, <2>3 DEF Numbers
  <2> QED
    BY <1>1, <1>2, <1>9, <2>1, <2>2, <2>3, PolledMoves
<1> QED
  BY <1>6, <1>8, <1>9

LEMMA QuietPolled ==
  ASSUME OrderInv, Quiet
  PROVE  PolledGood'
<1>1. /\ Base /\ Inv /\ Numbers /\ Numbers' /\ Next /\ ~Sends /\ PolledGood /\ PositionGood
      /\ SyncGood /\ ModesFit /\ OneExchange
      /\ \A x \in Int, y \in Int : Good(x) /\ y >= x => Good(y)'
  BY QuietFacts DEF OrderInv, Base, Quiet, Inv
<1>2. SUFFICES ASSUME polled'.own = ident'.own, Owns'
               PROVE  Good(polled.off)' /\ (polled'.kind = "position" => polled'.off <= pos')
  BY DEF PolledGood
<1>3. Owns /\ ident.own = ident'.own /\ ident.own # 0 /\ pos' >= pos
  BY <1>1, <1>2, PolledOwned DEF Owns
<1>4. Good(polled'.off) /\ (polled'.kind = "position" => polled'.off <= pos)
  <2>1. CASE polled' = polled
    BY <1>1, <1>2, <1>3, <2>1 DEF PolledGood
  <2>2. CASE polled' = [off |-> pos, own |-> app.own, kind |-> "position"]
    BY <1>1, <1>3, <2>2 DEF PositionGood, Numbers
  <2>3. CASE /\ app.pc = "sent" /\ rpc.at = "ok" /\ app.pick /\ conf.auto
             /\ polled' = [off |-> app.off, own |-> app.own, kind |-> "raised"]
    <3>1. app.off >= ghost.best
      BY <1>1, <1>2, <1>3, <2>3 DEF SyncGood
    <3>2. \A c \in Conns : \A i \in DOMAIN wire[c] : wire[c][i].kind = "lowering"
      BY <1>1, <2>3 DEF ModesFit, GivenUp, OneExchange, Conns
    <3> QED
      BY <2>3, <3>1, <3>2 DEF Good
  <2> QED
    BY <1>1, <1>2, <1>3, <2>1, <2>2, <2>3, PolledMoves
<1>5. \A y : y = polled'.off => Good(y)'
  BY <1>1, <1>4 DEF Numbers
<1> QED
  BY <1>1, <1>3, <1>4, <1>5 DEF Numbers

LEMMA QuietStep ==
  ASSUME OrderInv, Quiet
  PROVE  OrderInv'
BY QuietFacts, QuietCommitted, QuietPosition, QuietRequests, QuietSync, QuietSnapshots,
   QuietResend, QuietPolled DEF OrderInv

-----------------------------------------------------------------------------
(* A commit of another member.                                             *)

LEMMA OtherStep ==
  ASSUME OrderInv, OtherCommits
  PROVE  OrderInv'
<1>1. /\ Base /\ Inv /\ Numbers /\ JoinFits /\ broker \in Brokers /\ ghost \in Ghosts
  BY NumberFacts DEF OrderInv, Base, Inv, TypeOK, Ghosts
<1>2. /\ broker.owner = "other" /\ broker' = [broker EXCEPT !.committed = @ + 1]
      /\ ghost' = [frontier |-> Larger(ghost.frontier, broker.committed + 1),
                   best |-> Larger(ghost.best, broker.committed + 1)]
      /\ UNCHANGED <<conf, ident, pos, polled, lock, app, async, task, rpc, wire>>
  BY DEF OtherCommits
<1>3. Base'
  BY <1>1, BaseStep DEF Next, Trouble
<1>4. /\ broker'.gen = broker.gen /\ broker'.known = broker.known /\ broker'.owner = broker.owner
      /\ broker'.committed = broker.committed + 1
      /\ ghost'.best = Larger(ghost.best, broker.committed + 1)
  BY <1>1, <1>2 DEF Brokers
<1>5. CommittedNeverRewinds'
  BY <1>1, <1>4 DEF OrderInv, CommittedNeverRewinds, Larger, Numbers
<1>6. ~Owns /\ ~Granted /\ task.pc # "primed"
  BY <1>1, <1>2 DEF JoinFits, Owns, Granted, Added
<1>7. ~Owns' /\ task'.pc # "primed" /\ \A g : Valid(g)' => Valid(g)
  BY <1>2, <1>4, <1>6 DEF Owns, Current, Valid
<1>8. /\ \A c \in Conns : \A i \in DOMAIN wire[c] : ~Valid(wire[c][i].gen)
      /\ app.pc = "record" => ~Valid(app.gen)
      /\ app.pc = "positions" /\ app.own # 0 => ~Valid(app.gen)
      /\ async.pc = "offsets" /\ async.own # 0 => ~Valid(async.gen)
      /\ lock \in {"auto", "async"} /\ rpc.at # "none" => ~Valid(rpc.gen)
  BY <1>6 DEF OrderInv, RequestsGood, SyncGood, SnapshotsGood, ResendGood
<1>9. PositionGood' /\ PolledGood'
  BY <1>7 DEF PositionGood, PolledGood
<1>10. RequestsGood'
  BY <1>2, <1>7, <1>8 DEF RequestsGood
<1>11. SyncGood'
  <2>1. InHand => app.own # 0
    BY DEF OrderInv, SyncGood
  <2> QED
    BY <1>2, <1>7, <1>8, <2>1 DEF SyncGood, InHand
<1>12. SnapshotsGood' /\ ResendGood'
  BY <1>2, <1>7, <1>8 DEF SnapshotsGood, ResendGood
<1> QED
  BY <1>3, <1>5, <1>9, <1>10, <1>11, <1>12 DEF OrderInv

-----------------------------------------------------------------------------
(* Steps that send.                                                        *)

\* A request that goes out is not too low, and is covered by what the next commit before a
\* JoinGroup would send.
FreshRequest(off, gen, kind) ==
  Valid(gen) => /\ Granted
                /\ kind = "position" => Sendable(off)
                /\ kind # "lowering" => off >= ghost.best

PolledCovers(off, gen, kind) ==
  polled'.own = ident.own /\ Owns =>
    /\ Good(polled'.off) /\ (polled'.kind = "position" => polled'.off <= pos)
    /\ Valid(gen) /\ kind = "position" => polled'.off >= off

\* What else a send changes.
SendsOnly(off, kind) ==
  /\ UNCHANGED <<conf, ident, pos, broker>> /\ ghost'.best = ghost.best
  /\ app'.pc = "positions" => app' = app
  /\ async'.pc = "offsets" => async' = async
  /\ task'.pc = "primed" => task' = task
  /\ InHand' => SyncSend /\ off = app.off
  /\ lock' \in {"auto", "async"} => kind = "position"

LEMMA RecordRaises ==
  ASSUME Base, NEW off, NEW own \in Nat, RecordSent(off, own, "position"), off \in Int,
         polled'.own # 0
  PROVE  \/ polled' = polled /\ polled.own = own /\ polled.off >= off
         \/ polled' = [off |-> off, own |-> own, kind |-> "position"]
<1>1. polled.off \in Int /\ ModesFit
  BY NumberFacts DEF Base, Numbers
<1>2. CASE ~conf.auto
  BY <1>1, <1>2 DEF RecordSent, ModesFit
<1>3. CASE conf.auto
  BY <1>1, <1>3 DEF RecordSent, MergeSentPositions
<1> QED
  BY <1>2, <1>3

\* The position of an owner may be sent.
LEMMA PositionFresh ==
  ASSUME OrderInv, pos # NoPos, NEW gen, Valid(gen) => Granted
  PROVE  FreshRequest(pos, gen, "position")
<1>1. SUFFICES ASSUME Valid(gen), Granted PROVE Sendable(pos) /\ pos >= ghost.best
  BY DEF FreshRequest
<1>2. Owns /\ pos \in Int /\ ghost.best \in Int
  BY <1>1, NumberFacts DEF Granted, Owns, OrderInv, Base, Numbers
<1>3. Good(pos)
  BY <1>2 DEF OrderInv, PositionGood
<1> QED
  BY <1>2, <1>3 DEF Sendable, Good

LEMMA PollFresh ==
  ASSUME OrderInv, PollSends
  PROVE  /\ FreshRequest(pos, app.gen, "position")
         /\ PolledCovers(pos, app.gen, "position")
         /\ SendsOnly(pos, "position")
<1>1. /\ PositionGood /\ SnapshotsGood /\ pos \in Int
  BY NumberFacts DEF OrderInv, Base, Numbers
<1>2. /\ app.pc = "positions" /\ app.own # 0 /\ pos # NoPos /\ app'.pc = "fetch"
      /\ polled'.off = pos /\ polled'.own = app.own
      /\ UNCHANGED <<conf, ident, pos, async, task, broker, ghost>>
  BY DEF PollSends, Idle
<1>3. FreshRequest(pos, app.gen, "position")
  BY <1>1, <1>2, PositionFresh DEF SnapshotsGood
<1>4. PolledCovers(pos, app.gen, "position")
  BY <1>1, <1>2 DEF PolledCovers, PositionGood
<1>5. SendsOnly(pos, "position")
  BY <1>2 DEF SendsOnly, InHand
<1> QED
  BY <1>3, <1>4, <1>5

LEMMA WorkerFresh ==
  ASSUME OrderInv, WorkerSends
  PROVE  /\ FreshRequest(pos, async.gen, "position")
         /\ PolledCovers(pos, async.gen, "position")
         /\ SendsOnly(pos, "position")
<1>1. /\ Base /\ PositionGood /\ SnapshotsGood /\ PolledGood /\ Inv /\ Numbers /\ LockHeld
      /\ async \in Workers /\ ghost \in Ghosts
  BY NumberFacts DEF OrderInv, Base, Inv, TypeOK, Ghosts
<1>2. /\ async.pc = "offsets" /\ async.own # 0 /\ pos # NoPos
      /\ RecordSent(pos, async.own, "position") /\ Processed(pos)
      /\ async' = [async EXCEPT !.pc = "sent"]
      /\ UNCHANGED <<conf, ident, pos, lock, app, task, broker>>
  BY DEF WorkerSends
<1>3. FreshRequest(pos, async.gen, "position")
  BY <1>1, <1>2, PositionFresh DEF SnapshotsGood
<1>4. PolledCovers(pos, async.gen, "position")
  <2>1. SUFFICES ASSUME polled'.own = ident.own, Owns
                 PROVE  /\ Good(polled'.off) /\ (polled'.kind = "position" => polled'.off <= pos)
                        /\ polled'.off >= pos
    BY DEF PolledCovers
  <2>2. \/ polled' = polled /\ polled.own = async.own /\ polled.off >= pos
        \/ polled' = [off |-> pos, own |-> async.own, kind |-> "position"]
    BY <1>1, <1>2, <2>1, RecordRaises DEF Numbers, Owns
  <2> QED
    BY <1>1, <2>1, <2>2 DEF PolledGood, PositionGood, Numbers
<1>5. SendsOnly(pos, "position")
  <2>1. ghost'.best = ghost.best
    BY <1>1, <1>2 DEF Processed, Ghosts
  <2>2. async'.pc = "sent" /\ lock # "sync"
    BY <1>1, <1>2 DEF Workers, LockHeld
  <2> QED
    BY <1>1, <1>2, <2>1, <2>2 DEF SendsOnly, InHand, LockHeld
<1> QED
  BY <1>3, <1>4, <1>5

LEMMA SyncFresh ==
  ASSUME OrderInv, SyncSend
  PROVE  \E kind \in {"position", "lowering"} :
           /\ Send("data", app.off, app.gen, kind, 1)
           /\ FreshRequest(app.off, app.gen, kind)
           /\ PolledCovers(app.off, app.gen, kind)
           /\ SendsOnly(app.off, kind)
<1>1. /\ Base /\ SyncGood /\ PolledGood /\ Inv /\ Numbers /\ LockHeld /\ app \in Apps
  BY NumberFacts DEF OrderInv, Base, Inv, TypeOK
<1>2. /\ app.pc = "record" /\ app' = [app EXCEPT !.pc = "sent"]
      /\ UNCHANGED <<conf, ident, pos, lock, async, task, broker, ghost>>
  BY DEF SyncSend
<1>3. InHand /\ app'.pc = "sent" /\ lock = "sync"
  BY <1>1, <1>2 DEF InHand, Apps, LockHeld
<1>4. \A kind : SendsOnly(app.off, kind)
  BY <1>2, <1>3 DEF SendsOnly
<1>5. CASE app.pick
  <2>1. polled' = polled /\ Send("data", app.off, app.gen, "lowering", 1)
    BY <1>5 DEF SyncSend
  <2>2. FreshRequest(app.off, app.gen, "lowering")
    BY <1>1, <1>2 DEF FreshRequest, SyncGood
  <2>3. PolledCovers(app.off, app.gen, "lowering")
    BY <1>1, <2>1 DEF PolledCovers, PolledGood
  <2> QED
    BY <1>4, <2>1, <2>2, <2>3
<1>6. CASE ~app.pick
  <2>1. RecordSent(app.off, app.own, "position") /\ Send("data", app.off, app.gen, "position", 1)
    BY <1>6 DEF SyncSend
  <2>2. FreshRequest(app.off, app.gen, "position")
    BY <1>1, <1>2, <1>6 DEF FreshRequest, SyncGood, Sendable, Good
  <2>3. PolledCovers(app.off, app.gen, "position")
    <3>1. SUFFICES ASSUME polled'.own = ident.own, Owns
                   PROVE  /\ Good(polled'.off)
                          /\ polled'.kind = "position" => polled'.off <= pos
                          /\ polled'.off >= app.off
      BY DEF PolledCovers
    <3>2. \/ polled' = polled /\ polled.own = app.own /\ polled.off >= app.off
          \/ polled' = [off |-> app.off, own |-> app.own, kind |-> "position"]
      BY <1>1, <2>1, <3>1, RecordRaises DEF Numbers, Owns
    <3>3. CASE polled' = polled /\ polled.off >= app.off
      BY <1>1, <3>1, <3>3 DEF PolledGood
    <3>4. CASE polled' = [off |-> app.off, own |-> app.own, kind |-> "position"]
      <4>1. Sendable(app.off)
        BY <1>1, <1>3, <1>6, <3>1, <3>4 DEF SyncGood
      <4> QED
        BY <1>1, <3>1, <3>4, <4>1 DEF Sendable, Owns, Numbers
    <3> QED
      BY <3>2, <3>3, <3>4
  <2> QED
    BY <1>4, <2>1, <2>2, <2>3
<1> QED
  BY <1>5, <1>6

LEMMA TaskFresh ==
  ASSUME OrderInv, TaskSends
  PROVE  /\ FreshRequest(polled.off, ident.gen, polled.kind)
         /\ PolledCovers(polled.off, ident.gen, polled.kind)
         /\ SendsOnly(polled.off, polled.kind)
<1>1. /\ Base /\ PolledGood /\ Inv /\ Numbers /\ LockHeld /\ task \in Tasks
  BY NumberFacts DEF OrderInv, Base, Inv, TypeOK
<1>2. /\ task.pc = "attempt" /\ ident.own # 0 /\ polled.own = ident.own
      /\ task' = [task EXCEPT !.pc = "sent"]
      /\ UNCHANGED <<conf, ident, pos, polled, lock, app, async, broker, ghost>>
  BY DEF TaskSends
<1>3. FreshRequest(polled.off, ident.gen, polled.kind)
  BY <1>1, <1>2, OwnerGranted DEF FreshRequest, PolledGood, Sendable, Good
<1>4. PolledCovers(polled.off, ident.gen, polled.kind)
  BY <1>1, <1>2 DEF PolledCovers, PolledGood, Numbers
<1>5. SendsOnly(polled.off, polled.kind)
  <2>1. task'.pc = "sent" /\ lock = "task"
    BY <1>1, <1>2 DEF Tasks, LockHeld
  <2> QED
    BY <1>1, <1>2, <2>1 DEF SendsOnly, InHand, LockHeld
<1> QED
  BY <1>3, <1>4, <1>5

LEMMA ResendFresh ==
  ASSUME OrderInv, Resends
  PROVE  /\ FreshRequest(rpc.off, rpc.gen, "position")
         /\ PolledCovers(rpc.off, rpc.gen, "position")
         /\ SendsOnly(rpc.off, "position")
<1>1. /\ Base /\ PolledGood /\ ResendGood /\ LockHeld
  BY DEF OrderInv, Base, Inv
<1>2. /\ lock \in {"auto", "async"} /\ rpc.at # "none"
      /\ UNCHANGED <<conf, ident, pos, polled, lock, app, async, task, broker, ghost>>
  BY DEF Resends, Resend
<1>3. FreshRequest(rpc.off, rpc.gen, "position")
  BY <1>1, <1>2 DEF FreshRequest, ResendGood, Sendable, Good
<1>4. PolledCovers(rpc.off, rpc.gen, "position")
  BY <1>1, <1>2 DEF PolledCovers, PolledGood, ResendGood
<1>5. SendsOnly(rpc.off, "position")
  BY <1>1, <1>2 DEF SendsOnly, InHand, LockHeld
<1> QED
  BY <1>3, <1>4, <1>5

LEMMA SendsFresh ==
  ASSUME OrderInv, Sends
  PROVE  \E conn \in Conns, off \in Offsets, gen \in Gens, kind \in Kinds, sends \in 0..2 :
           /\ Send(conn, off, gen, kind, sends)
           /\ FreshRequest(off, gen, kind) /\ PolledCovers(off, gen, kind) /\ SendsOnly(off, kind)
<1>1. /\ app \in Apps /\ async \in Workers /\ rpc \in Exchanges /\ ident \in Idents
      /\ polled \in PolledOffsets /\ pos \in Positions /\ Inv
  BY DEF OrderInv, Base, Inv, TypeOK
<1>2. CASE PollSends
  <2>1. /\ Send("data", pos, app.gen, "position", 1) /\ pos \in Offsets /\ app.gen \in Gens
    BY <1>1, <1>2, OffsetFacts DEF PollSends, Apps
  <2> QED
    BY <1>2, <2>1, PollFresh DEF Conns, Kinds
<1>3. CASE SyncSend
  <2>1. app.off \in Offsets /\ app.gen \in Gens
    BY <1>1, <1>3, OffsetFacts DEF SyncSend, Apps, Inv, OffsetsKnown
  <2> QED
    BY <1>3, <2>1, SyncFresh DEF Conns, Kinds
<1>4. CASE WorkerSends
  <2>1. /\ Send("data", pos, async.gen, "position", 1) /\ pos \in Offsets /\ async.gen \in Gens
    BY <1>1, <1>4, OffsetFacts DEF WorkerSends, Workers
  <2> QED
    BY <1>4, <2>1, WorkerFresh DEF Conns, Kinds
<1>5. CASE TaskSends
  <2>1. /\ Send("task", polled.off, ident.gen, polled.kind, 1)
        /\ polled.off \in Offsets /\ ident.gen \in Gens /\ polled.kind \in Kinds
    BY <1>1, <1>5, OffsetFacts DEF TaskSends, Idents, PolledOffsets, Inv, OffsetsKnown
  <2> QED
    BY <1>5, <2>1, TaskFresh DEF Conns
<1>6. CASE Resends
  <2>1. /\ rpc.off \in Offsets /\ rpc.gen \in Gens
        /\ Send("data", rpc.off, rpc.gen, "position", 2)
    BY <1>1, <1>6, OffsetFacts DEF Resends, Resend, Exchanges, Inv, OneExchange
  <2> QED
    BY <1>6, <2>1, ResendFresh DEF Conns, Kinds
<1> QED
  BY <1>2, <1>3, <1>4, <1>5, <1>6 DEF Sends

LEMMA SendingStep ==
  ASSUME OrderInv, Next, Sends
  PROVE  OrderInv'
<1>1. /\ Base /\ Inv /\ Numbers /\ CommittedNeverRewinds /\ PositionGood /\ RequestsGood
      /\ SyncGood /\ SnapshotsGood
  BY NumberFacts DEF OrderInv, Base
<1>2. Base' /\ Inv' /\ Numbers'
  BY <1>1, BaseStep, NumbersNext DEF Base
<1>3. PICK conn \in Conns, off \in Offsets, gen \in Gens, kind \in Kinds, sends \in 0..2 :
           /\ Send(conn, off, gen, kind, sends)
           /\ FreshRequest(off, gen, kind) /\ PolledCovers(off, gen, kind) /\ SendsOnly(off, kind)
  BY SendsFresh
<1>4. /\ UNCHANGED <<conf, ident, pos, broker>> /\ ghost'.best = ghost.best
      /\ off \in Int
  BY <1>3, OffsetFacts DEF SendsOnly
<1>5. /\ (Granted' <=> Granted) /\ (Owns' <=> Owns) /\ \A g : Valid(g)' <=> Valid(g)
  BY <1>4 DEF Granted, Owns, Valid, Current
<1>6. rpc.at # "sent"
  BY <1>1, SendsEffect
<1>7. /\ rpc'.at = "sent" /\ rpc'.off = off /\ rpc'.gen = gen
      /\ \A c \in Conns : \A i \in DOMAIN wire'[c] :
           \/ c = conn /\ i = Len(wire[conn]) + 1 /\ wire'[c][i].off = off
              /\ wire'[c][i].gen = gen /\ wire'[c][i].kind = kind
           \/ i \in DOMAIN wire[c] /\ wire'[c][i] = wire[c][i]
      /\ \A c \in Conns : \A i \in DOMAIN wire[c] : i \in 1..Len(wire[c])
  BY <1>1, <1>3, <1>6, SendEffect
<1>8. ASSUME NEW x \in Int, Good(x), Valid(gen) /\ kind = "position" => x >= off
      PROVE  Good(x)'
  <2>1. ASSUME NEW c \in Conns, NEW i \in DOMAIN wire'[c], Valid(wire'[c][i].gen),
               wire'[c][i].kind = "position"
        PROVE  x >= wire'[c][i].off
    BY <1>7, <1>8, <2>1 DEF Good
  <2>2. x >= ghost'.best
    BY <1>4, <1>8 DEF Good
  <2>3. \A c \in Conns : \A i \in DOMAIN wire'[c] :
          Valid(wire[c][i].gen)' => Valid(wire'[c][i].gen)
    BY <1>4 DEF Valid
  <2> QED
    BY <2>1, <2>2, <2>3 DEF Good
<1>9. CommittedNeverRewinds'
  BY <1>1, <1>4 DEF CommittedNeverRewinds
<1>10. PositionGood'
  <2>1. ASSUME Owns PROVE \A y : y = pos => Good(y)'
    <3>1. Good(pos) /\ (Valid(gen) /\ kind = "position" => pos >= off)
      BY <1>1, <1>3, <1>4, <2>1 DEF PositionGood, FreshRequest, Sendable, Owns, Numbers
    <3> QED
      BY <1>1, <1>8, <3>1 DEF Numbers
  <2>2. task'.pc = "primed" => task.pc = "primed"
    BY <1>3 DEF SendsOnly
  <2> QED
    BY <1>1, <1>4, <1>5, <2>1, <2>2 DEF PositionGood
<1>11. RequestsGood'
  <2>1. ASSUME NEW c \in Conns, NEW i \in DOMAIN wire'[c], Valid(wire'[c][i].gen)
        PROVE  Granted /\ (wire'[c][i].kind # "lowering" => wire'[c][i].off >= ghost.best)
    BY <1>1, <1>3, <1>7, <2>1 DEF RequestsGood, FreshRequest
  <2>2. ASSUME NEW c \in Conns, NEW i \in DOMAIN wire'[c], NEW j \in DOMAIN wire'[c], i < j,
               Valid(wire'[c][i].gen), Valid(wire'[c][j].gen),
               wire'[c][i].kind = "position", wire'[c][j].kind = "position"
        PROVE  wire'[c][i].off <= wire'[c][j].off
    <3>1. i \in DOMAIN wire[c] /\ wire'[c][i] = wire[c][i] /\ wire[c][i].off \in Int
      <4>1. Len(wire[c]) \in Nat
        BY <1>1 DEF Inv, TypeOK, Conns
      <4>2. i \in DOMAIN wire[c] /\ wire'[c][i] = wire[c][i]
        BY <1>7, <2>2, <4>1
      <4> QED
        BY <1>1, <4>2, NumberFacts
    <3>2. CASE j \in DOMAIN wire[c] /\ wire'[c][j] = wire[c][j]
      BY <1>1, <2>2, <3>1, <3>2 DEF RequestsGood
    <3>3. CASE c = conn /\ wire'[c][j].off = off /\ wire'[c][j].gen = gen /\ wire'[c][j].kind = kind
      <4>1. Good(off)
        BY <1>3, <2>2, <3>3 DEF FreshRequest, Sendable
      <4> QED
        BY <1>4, <2>2, <3>1, <3>3, <4>1 DEF Good
    <3> QED
      BY <1>7, <3>2, <3>3
  <2>3. \A c \in Conns : \A i \in DOMAIN wire'[c] :
          Valid(wire[c][i].gen)' => Valid(wire'[c][i].gen)
    BY <1>4 DEF Valid
  <2> QED
    BY <1>4, <1>5, <2>1, <2>2, <2>3 DEF RequestsGood
<1>12. SyncGood'
  <2>1. ASSUME InHand' PROVE /\ SyncSend /\ off = app.off /\ app'.pc = "sent" /\ InHand
                             /\ app'.off = app.off /\ app'.own = app.own /\ app'.pick = app.pick
    <3>1. SyncSend /\ off = app.off /\ app \in Apps
      BY <1>1, <1>3, <2>1 DEF SendsOnly, Inv, TypeOK
    <3> QED
      BY <3>1 DEF SyncSend, Apps, InHand
  <2>2. ASSUME InHand', ~app'.pick, app'.own = ident'.own, Owns' PROVE Sendable(app.off)'
    <3>1. Sendable(app.off) /\ off = app.off /\ app'.off = off
      BY <1>1, <1>4, <1>5, <2>1, <2>2 DEF SyncGood
    <3>2. Good(off) /\ off >= off
      BY <1>4, <3>1 DEF Sendable
    <3>3. Good(off)'
      BY <1>4, <1>8, <3>2
    <3> QED
      BY <1>4, <3>1, <3>3 DEF Sendable
  <2>3. /\ InHand' => app'.own # 0
        /\ app'.pc # "record" /\ rpc'.at # "ok"
    BY <1>1, <1>7, <2>1 DEF SyncGood, InHand
  <2> QED
    BY <2>2, <2>3 DEF SyncGood
<1>13. SnapshotsGood'
  <2>1. (app'.pc = "positions" => app' = app) /\ (async'.pc = "offsets" => async' = async)
    BY <1>3 DEF SendsOnly
  <2> QED
    BY <1>1, <1>4, <1>5, <2>1 DEF SnapshotsGood, Valid
<1>14. ResendGood'
  <2>1. SUFFICES ASSUME lock' \in {"auto", "async"}, Valid(rpc'.gen)
                 PROVE  /\ Granted' /\ Sendable(rpc.off)'
                        /\ polled'.own = ident'.own /\ Owns' => polled'.off >= rpc'.off
    BY <1>4 DEF ResendGood, Valid
  <2>2. kind = "position" /\ Valid(gen)
    BY <1>3, <1>7, <2>1 DEF SendsOnly
  <2>3. Granted /\ Sendable(off) /\ off >= off
    BY <1>3, <1>4, <2>2 DEF FreshRequest
  <2>4. Good(off)'
    BY <1>4, <1>8, <2>3 DEF Sendable
  <2>5. polled'.own = ident'.own /\ Owns => polled'.off >= off
    BY <1>3, <1>4, <2>2 DEF PolledCovers
  <2> QED
    BY <1>4, <1>5, <1>7, <2>3, <2>4, <2>5 DEF Sendable
<1>15. PolledGood'
  <2>1. SUFFICES ASSUME polled'.own = ident'.own, Owns'
                 PROVE  Good(polled.off)' /\ (polled'.kind = "position" => polled'.off <= pos')
    BY DEF PolledGood
  <2>2. /\ Good(polled'.off) /\ (polled'.kind = "position" => polled'.off <= pos)
        /\ Valid(gen) /\ kind = "position" => polled'.off >= off
    BY <1>3, <1>4, <1>5, <2>1 DEF PolledCovers
  <2>3. \A y : y = polled'.off => Good(y)'
    BY <1>2, <1>8, <2>2 DEF Numbers
  <2> QED
    BY <1>4, <2>2, <2>3
<1> QED
  BY <1>2, <1>9, <1>10, <1>11, <1>12, <1>13, <1>14, <1>15 DEF OrderInv

-----------------------------------------------------------------------------
(* The theorem.                                                            *)

LEMMA InitOrder ==
  ASSUME Init
  PROVE  OrderInv
<1>1. /\ pos = 0 /\ ghost.best = 0 /\ broker.committed = 0 /\ ident.own = 1 /\ polled.own = 0
      /\ app.pc = "idle" /\ async.pc = "gone" /\ task.pc = "idle" /\ lock = "free"
      /\ \A c \in Conns : DOMAIN wire[c] = {}
  BY DEF Init, Nobody, Idle, NoWorker, Conns
<1>2. PositionGood /\ RequestsGood /\ CommittedNeverRewinds
  BY <1>1 DEF PositionGood, RequestsGood, CommittedNeverRewinds, Good
<1>3. SyncGood /\ SnapshotsGood /\ ResendGood /\ PolledGood
  BY <1>1 DEF SyncGood, InHand, SnapshotsGood, ResendGood, PolledGood
<1> QED
  BY <1>2, <1>3, InitBase DEF OrderInv

LEMMA OrderStep ==
  ASSUME OrderInv, [Next]_vars
  PROVE  OrderInv'
<1>1. CASE UNCHANGED vars
  <2>1. UNCHANGED <<conf, ident, pos, polled, lock, app, async, task, rpc, wire, broker, ghost>>
    BY <1>1 DEF vars
  <2>2. Inv'
    BY <1>1, InvStep DEF OrderInv, Base
  <2>3. SnapshotsOld' /\ JoinFits' /\ ModesFit'
    BY <2>1 DEF OrderInv, Base, SnapshotsOld, OldOwn, OldGen, Current, JoinFits, Owns, Added,
                ModesFit, GivenUp
  <2>4. CommittedNeverRewinds' /\ PositionGood' /\ RequestsGood'
    BY <2>1 DEF OrderInv, CommittedNeverRewinds, PositionGood, RequestsGood, Owns, Current, Good,
                Valid, Granted
  <2>5. SyncGood'
    BY <2>1 DEF OrderInv, SyncGood, InHand, Sendable, Good, Owns, Current, Valid, Granted
  <2>6. SnapshotsGood' /\ ResendGood' /\ PolledGood'
    BY <2>1 DEF OrderInv, SnapshotsGood, ResendGood, PolledGood, Sendable, Good, Owns, Current,
                Valid, Granted
  <2> QED
    BY <2>2, <2>3, <2>4, <2>5, <2>6 DEF OrderInv, Base
<1>2. CASE Next
  <2>1. OtherCommits \/ Quiet \/ Sends
    BY <1>2 DEF Quiet
  <2> QED
    BY <1>2, <2>1, OtherStep, QuietStep, SendingStep
<1> QED
  BY <1>1, <1>2

\* The inductive invariant: positions in hand, on the way and stored are in order as long as
\* their generation may be accepted.
THEOREM OrderInvariance == Spec => []OrderInv
<1>1. Init => OrderInv
  BY InitOrder
<1>2. OrderInv /\ [Next]_vars => OrderInv'
  BY OrderStep
<1> QED
  BY <1>1, <1>2, PTL DEF Spec

\* The committed offset never moves back behind a position commit that the group accepted,
\* unless the application selected a lower offset or a request that was given up beside
\* automatic commits lands: whatever the interval commit, commit_sync, commit_async and the
\* commit before a JoinGroup do, on either connection, through rebalances, evictions,
\* deadlines, retries and lost answers.
THEOREM CommittedAlwaysKept == Spec => []CommittedNeverRewinds
<1>1. OrderInv => CommittedNeverRewinds
  BY DEF OrderInv
<1> QED
  BY <1>1, OrderInvariance, PTL

=============================================================================
