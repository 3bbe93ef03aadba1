---------------------------- MODULE OffsetCommit ----------------------------
(***************************************************************************)
(* The offset commits of one consumer, of client-consumer/src/commit.rs:    *)
(* commit_sync, commit_offsets_sync, commit_async with its coalescing        *)
(* worker, the interval commit of poll, the commit before a JoinGroup        *)
(* (coordinator.rs) and the commit of close.  They share the lock            *)
(* commit_serialization, the commit identity that the coordinator task       *)
(* installs, and the positions of the latest poll.                           *)
(*                                                                          *)
(* One partition is enough: every commit treats its partitions one by one.   *)
(* A generation of the group coordinator (external) is numbered; so is each  *)
(* ownership of the partition, from 1, where 0 means that the consumer does  *)
(* not own it.  The consumer has a data connection and the coordinator task  *)
(* a connection of its own; each delivers requests in order.                 *)
(***************************************************************************)
EXTENDS Integers, Sequences

CONSTANTS Confs,        \* the configurations to choose from: see ConfAssumption
          MaxPos,       \* the end of the log
          Faults,       \* the faults that may strike
          Budgets       \* how many faults may strike, rebalances other members may start,
                        \* and commits the application may ask for

\* coop: the cooperative protocol; auto: enable.auto.commit.
ASSUME ConfAssumption == Confs \subseteq [coop : BOOLEAN, auto : BOOLEAN]
ASSUME BoundsAssumption ==
  MaxPos \in Nat /\ Budgets \subseteq [faults : Nat, rebalances : Nat, calls : Nat]

NoPos == -1
NoGen == -1
Gens == Nat \cup {NoGen}
Offsets == 0..MaxPos
Positions == Offsets \cup {NoPos}
\* What a commit may do to the best one (a ghost): raise it, lower it, or leave it.
Kinds == {"position", "lowering", "raised"}
Nobody == [off |-> NoPos, own |-> 0, kind |-> "position"]

VARIABLES
  conf,      \* the configuration of the consumer
  ident,     \* CommitIdentity: generation, ownership id, rejoin_on_poll
  pos,       \* next_offsets of the partition
  polled,    \* AutoCommit::polled: an offset and the ownership it belongs to, and (a ghost)
             \* whether it is a position or was raised to a selected offset
  lock,      \* who holds commit_serialization
  app,       \* the application thread, with the locals of its call
  async,     \* commit_async_state and the worker task
  callbacks, \* commit_async_callbacks that no worker has taken
  task,      \* the coordinator task
  rpc,       \* the commit exchange of the holder of the lock
  wire,      \* the requests on the data connection and on the task's connection
  broker,    \* the group coordinator and the committed offset
  ghost,     \* what the application has declared processed, and the best commit
  left       \* faults, rebalances and calls that are left

vars == <<conf, ident, pos, polled, lock, app, async, callbacks, task, rpc, wire, broker,
          ghost, left>>

Idents == [gen : Gens, own : Nat, barred : BOOLEAN]
PolledOffsets == [off : Positions, own : Nat, kind : Kinds]
Apps == [pc : {"idle", "positions", "fetch", "turn", "attempt", "record", "sent", "pushed",
               "draining", "closed"},
         closing : BOOLEAN, pick : BOOLEAN, off : Positions, own : Nat, gen : Gens]
Workers == [state : {"IDLE", "RUNNING", "DIRTY"},
            pc : {"gone", "turn", "take", "offsets", "sent", "after"},
            own : Nat, gen : Gens, taken : Nat]
Tasks == [pc : {"idle", "turn", "attempt", "sent", "lost", "join", "synced", "primed",
                "revoking", "fenced"},
          mine : BOOLEAN, gen : Gens]
Exchanges == [at : {"none", "sent", "ok", "refused", "lost"}, off : Positions, gen : Gens,
              sends : 0..2]
Requests == [off : Offsets, gen : Gens, kind : Kinds, live : BOOLEAN]
Brokers == [gen : Nat, phase : {"Stable", "Preparing", "Completing"},
            owner : {"me", "other", "none"}, known : BOOLEAN, committed : Offsets]

TypeOK ==
  /\ conf \in Confs
  /\ ident \in Idents
  /\ pos \in Positions
  /\ polled \in PolledOffsets
  /\ lock \in {"free", "sync", "auto", "async", "task"}
  /\ app \in Apps
  /\ async \in Workers
  /\ callbacks \in Nat
  /\ task \in Tasks
  /\ rpc \in Exchanges
  /\ wire \in [{"data", "task"} -> Seq(Requests)]
  /\ broker \in Brokers
  /\ ghost \in [frontier : Offsets, best : Offsets]
  /\ left \in [faults : Nat, rebalances : Nat, calls : Nat]

NoRpc == [at |-> "none", off |-> NoPos, gen |-> NoGen, sends |-> 0]
Idle == [pc |-> "idle", closing |-> FALSE, pick |-> FALSE, off |-> NoPos, own |-> 0,
         gen |-> NoGen]
NoWorker == [state |-> "IDLE", pc |-> "gone", own |-> 0, gen |-> NoGen, taken |-> 0]

\* A member with the partition assigned, primed from the committed offset 0.
Init ==
  /\ conf \in Confs
  /\ ident = [gen |-> 0, own |-> 1, barred |-> FALSE]
  /\ pos = 0 /\ polled = Nobody /\ lock = "free" /\ callbacks = 0
  /\ app = Idle /\ async = NoWorker /\ rpc = NoRpc
  /\ task = [pc |-> "idle", mine |-> FALSE, gen |-> NoGen]
  /\ wire = [c \in {"data", "task"} |-> <<>>]
  /\ broker = [gen |-> 0, phase |-> "Stable", owner |-> "me", known |-> TRUE,
               committed |-> 0]
  /\ ghost = [frontier |-> 0, best |-> 0]
  /\ left \in Budgets

Larger(a, b) == IF a > b THEN a ELSE b
Smaller(a, b) == IF a < b THEN a ELSE b
Processed(off) == ghost' = [ghost EXCEPT !.frontier = Larger(@, off)]

(***************************************************************************)
(* Helpers of commit.rs.                                                    *)
(***************************************************************************)
\* merge_sent_positions, through AutoCommit::record_sent: without auto commit there is
\* nothing to raise.
MergeSentPositions(known, sent) ==
  IF known.own # sent.own \/ known.off < sent.off THEN sent ELSE known

RecordSent(off, own, kind) ==
  polled' = IF conf.auto
              THEN MergeSentPositions(polled, [off |-> off, own |-> own, kind |-> kind])
              ELSE polled

\* Mutant: a pending offset is kept although the ownership changed.
RetainAny(own) == ident.own # 0

\* retain_continuously_owned, for the ownership that a pending offset was taken under.
RetainContinuouslyOwned(own) == ident.own = own

\* The request goes out on a connection; whoever holds the lock waits for its answer.
Send(conn, off, gen, kind, sends) ==
  /\ rpc' = [at |-> "sent", off |-> off, gen |-> gen, sends |-> sends]
  /\ wire' = [wire EXCEPT ![conn] = Append(@, [off |-> off, gen |-> gen, kind |-> kind,
                                                live |-> TRUE])]

Release == lock' = "free" /\ rpc' = NoRpc

\* A call is dropped with its request on the way: nobody waits for the answer any more.
\* Beside automatic commits, which use two connections, a newer commit may overtake it.
Late(r) == [r EXCEPT !.live = FALSE, !.kind = IF conf.auto THEN "lowering" ELSE r.kind]

GiveUp(conn) == wire' = [wire EXCEPT ![conn] = [i \in DOMAIN @ |-> Late(@[i])]]

(***************************************************************************)
(* poll: maybe_auto_commit_async, then the fetch.                           *)
(***************************************************************************)
\* consumed_positions reads the identity first.  The application has processed what
\* earlier polls returned.  A fenced member joins again only now.
PollStart ==
  /\ app.pc = "idle"
  /\ app' = [app EXCEPT !.pc = IF conf.auto THEN "positions" ELSE "fetch",
                        !.own = ident.own, !.gen = ident.gen]
  /\ IF ident.own # 0 THEN Processed(pos) ELSE UNCHANGED ghost
  /\ task' = [task EXCEPT !.pc = IF @ = "fenced" THEN "idle" ELSE @]
  /\ UNCHANGED <<conf, ident, pos, polled, lock, async, callbacks, rpc, wire, broker, left>>

\* Then the positions: all_consumed, the positions for the pre-join commit, and, when the
\* interval has passed and no other commit holds the lock, an interval commit.  A seek or a
\* reset to a lower offset, with AutoCommit::reset_polled, is left out.
PollRecord(due) ==
  /\ app.pc = "positions"
  /\ LET consumed == app.own # 0 /\ pos # NoPos
     IN /\ polled' = IF consumed THEN [off |-> pos, own |-> app.own, kind |-> "position"]
                     ELSE Nobody
        /\ IF due /\ consumed /\ lock = "free"
             THEN lock' = "auto" /\ Send("data", pos, app.gen, "position", 1)
             ELSE UNCHANGED <<lock, rpc, wire>>
  /\ app' = [Idle EXCEPT !.pc = "fetch"]
  /\ UNCHANGED <<conf, ident, pos, async, callbacks, task, broker, ghost, left>>

\* The poll returns records, or none.
PollFetch(n) ==
  /\ app.pc = "fetch"
  /\ \/ n = 0
     \/ ident.own # 0 /\ pos # NoPos /\ pos + n <= MaxPos
  /\ pos' = pos + n
  /\ app' = Idle
  /\ UNCHANGED <<conf, ident, polled, lock, async, callbacks, task, rpc, wire, broker, ghost,
                 left>>

(***************************************************************************)
(* The spawned interval commit: CommitRoute::send sends once more after a   *)
(* failed connection, then the lock is free whatever the outcome.           *)
(***************************************************************************)
Resend == rpc.at = "lost" /\ rpc.sends = 1 /\ Send("data", rpc.off, rpc.gen, "position", 2)
Answered == rpc.at \in {"ok", "refused"} \/ (rpc.at = "lost" /\ rpc.sends = 2)

AutoCommitEnds ==
  /\ lock = "auto"
  /\ \/ Resend /\ UNCHANGED lock
     \/ Answered /\ Release /\ UNCHANGED wire
  /\ UNCHANGED <<conf, ident, pos, polled, app, async, callbacks, task, broker, ghost, left>>

(***************************************************************************)
(* commit_sync, commit_offsets_sync (pick) and auto_commit_on_close.        *)
(***************************************************************************)
\* The call.  The application may select any offset, also one past the position.
CommitSync(pick) ==
  /\ app.pc = "idle" /\ left.calls > 0
  /\ \E off \in IF pick THEN Offsets ELSE {NoPos} :
       app' = [Idle EXCEPT !.pc = "turn", !.pick = pick, !.off = off]
  /\ left' = [left EXCEPT !.calls = @ - 1]
  /\ UNCHANGED <<conf, ident, pos, polled, lock, async, callbacks, task, rpc, wire, broker,
                 ghost>>

\* close_with takes the consumer: no call runs beside it or after it.
Close ==
  /\ app.pc = "idle"
  /\ app' = [Idle EXCEPT !.pc = IF conf.auto THEN "turn" ELSE "draining", !.closing = TRUE]
  /\ UNCHANGED <<conf, ident, pos, polled, lock, async, callbacks, task, rpc, wire, broker,
                 ghost, left>>

\* The end of a synchronous commit; close goes on to wait_for_async_commits.
Returned == IF app.closing THEN [Idle EXCEPT !.pc = "draining", !.closing = TRUE] ELSE Idle

\* With the lock: ensure_active_group (close does not ask before its first attempt), then
\* all_consumed or selected_offsets_with_ownership.
SyncTurn ==
  /\ app.pc = "turn" /\ lock = "free"
  /\ LET off == IF app.pick THEN app.off ELSE pos
     IN IF (ident.barred /\ ~app.closing) \/ ident.own = 0 \/ off = NoPos
          THEN app' = Returned /\ UNCHANGED <<lock, ghost>>
          ELSE /\ app' = [app EXCEPT !.pc = "attempt", !.off = off, !.own = ident.own]
               /\ lock' = "sync"
               /\ Processed(off)
  /\ UNCHANGED <<conf, ident, pos, polled, async, callbacks, task, rpc, wire, broker, left>>

\* commit_pending_offsets, one attempt: the identity now, and the pending offset only while
\* its ownership goes on.
SyncAttempt ==
  /\ app.pc = "attempt"
  /\ IF ident.barred \/ ~RetainContinuouslyOwned(app.own)
       THEN app' = Returned /\ Release
       ELSE app' = [app EXCEPT !.pc = "record", !.gen = ident.gen] /\ UNCHANGED <<lock, rpc>>
  /\ UNCHANGED <<conf, ident, pos, polled, async, callbacks, task, wire, broker, ghost, left>>

\* RecordSent::BeforeSend for a position, and commit_topics_once sends.
SyncSend ==
  /\ app.pc = "record"
  /\ app' = [app EXCEPT !.pc = "sent"]
  /\ IF app.pick THEN UNCHANGED polled ELSE RecordSent(app.off, app.own, "position")
  /\ Send("data", app.off, app.gen, IF app.pick THEN "lowering" ELSE "position", 1)
  /\ UNCHANGED <<conf, ident, pos, lock, async, callbacks, task, broker, ghost, left>>

\* Mutant: a refused commit waits inside the lock and tries again.
SyncEndsRetrying ==
  /\ app.pc = "sent"
  /\ \/ /\ rpc.at = "ok" /\ app' = Returned /\ Release
        /\ UNCHANGED <<polled, wire>>
     \/ /\ rpc.at \in {"refused", "lost"}
        /\ app' = [app EXCEPT !.pc = "attempt"]
        /\ rpc' = NoRpc
        /\ UNCHANGED <<polled, lock, wire>>
  /\ UNCHANGED <<conf, ident, pos, async, callbacks, task, broker, ghost, left>>

\* commit_response_outcome: an acknowledged selected offset is recorded now
\* (RecordSent::AfterAck); a rebalance error ends the call at once; a failed connection is
\* tried again; at the deadline the call is dropped with its request still on the way.
SyncEnds ==
  /\ app.pc = "sent"
  /\ \/ /\ rpc.at = "ok" /\ app' = Returned /\ Release
        /\ IF app.pick THEN RecordSent(app.off, app.own, "raised")
                       ELSE UNCHANGED polled
        /\ UNCHANGED wire
     \/ /\ rpc.at = "refused" /\ app' = Returned /\ Release
        /\ UNCHANGED <<polled, wire>>
     \/ /\ rpc.at = "lost"
        /\ app' = [app EXCEPT !.pc = "attempt"]
        /\ rpc' = NoRpc
        /\ UNCHANGED <<polled, lock, wire>>
     \/ /\ rpc.at = "sent" /\ ~app.closing
        /\ app' = Returned /\ Release
        /\ GiveUp("data")
        /\ UNCHANGED polled
  /\ UNCHANGED <<conf, ident, pos, async, callbacks, task, broker, ghost, left>>

(***************************************************************************)
(* commit_async_with_callback and the worker of schedule_commit_async.      *)
(***************************************************************************)
PushCallback ==
  /\ app.pc = "idle" /\ left.calls > 0
  /\ callbacks' = callbacks + 1
  /\ app' = [Idle EXCEPT !.pc = "pushed"]
  /\ left' = [left EXCEPT !.calls = @ - 1]
  /\ UNCHANGED <<conf, ident, pos, polled, lock, async, task, rpc, wire, broker, ghost>>

\* Mutant: a running worker is taken to cover the call.
ScheduleUnmarked ==
  /\ app.pc = "pushed"
  /\ app' = Idle
  /\ async' = IF async.state = "IDLE" THEN [async EXCEPT !.state = "RUNNING", !.pc = "turn"]
              ELSE async
  /\ UNCHANGED <<conf, ident, pos, polled, lock, callbacks, task, rpc, wire, broker, ghost,
                 left>>

\* schedule_commit_async: start the worker, or mark the one that runs.  The compare and
\* exchange succeeds at its last try, which is the step.
Schedule ==
  /\ app.pc = "pushed"
  /\ app' = Idle
  /\ async' = IF async.state = "IDLE" THEN [async EXCEPT !.state = "RUNNING", !.pc = "turn"]
              ELSE [async EXCEPT !.state = "DIRTY"]
  /\ UNCHANGED <<conf, ident, pos, polled, lock, callbacks, task, rpc, wire, broker, ghost,
                 left>>

\* The worker takes the lock and stores RUNNING.
WorkerTurn ==
  /\ async.pc = "turn" /\ lock = "free"
  /\ lock' = "async"
  /\ async' = [async EXCEPT !.state = "RUNNING", !.pc = "take"]
  /\ UNCHANGED <<conf, ident, pos, polled, app, callbacks, task, rpc, wire, broker, ghost,
                 left>>

\* Only then take_callbacks; snapshot_commit_offsets reads the identity.
WorkerTake ==
  /\ async.pc = "take"
  /\ async' = [async EXCEPT !.pc = "offsets", !.taken = callbacks, !.own = ident.own,
                            !.gen = ident.gen]
  /\ callbacks' = 0
  /\ UNCHANGED <<conf, ident, pos, polled, lock, app, task, rpc, wire, broker, ghost, left>>

\* The callbacks run, the lock is free.
WorkerServed == async' = [async EXCEPT !.pc = "after", !.taken = 0, !.own = 0, !.gen = NoGen]

\* The rest of snapshot_commit_offsets: the positions, recorded as sent, and the request.
\* The snapshot is of the positions now, which a later poll may have moved.
WorkerSend ==
  /\ async.pc = "offsets"
  /\ IF async.own # 0 /\ pos # NoPos
       THEN /\ RecordSent(pos, async.own, "position")
            /\ Processed(pos)
            /\ Send("data", pos, async.gen, "position", 1)
            /\ async' = [async EXCEPT !.pc = "sent"]
            /\ UNCHANGED lock
       ELSE WorkerServed /\ Release /\ UNCHANGED <<polled, ghost, wire>>
  /\ UNCHANGED <<conf, ident, pos, app, callbacks, task, broker, left>>

WorkerAnswer ==
  /\ async.pc = "sent"
  /\ \/ Resend /\ UNCHANGED <<async, lock>>
     \/ Answered /\ WorkerServed /\ Release /\ UNCHANGED wire
  /\ UNCHANGED <<conf, ident, pos, polled, app, callbacks, task, broker, ghost, left>>

\* RUNNING to IDLE ends the worker; a mark makes it go round once more.
WorkerAfter ==
  /\ async.pc = "after"
  /\ async' = IF async.state = "RUNNING" THEN NoWorker
              ELSE [async EXCEPT !.state = "RUNNING", !.pc = "turn"]
  /\ UNCHANGED <<conf, ident, pos, polled, lock, app, callbacks, task, rpc, wire, broker,
                 ghost, left>>

\* wait_for_async_commits sees IDLE.
CloseDrained ==
  /\ app.pc = "draining" /\ async.state = "IDLE"
  /\ app' = [app EXCEPT !.pc = "closed"]
  /\ UNCHANGED <<conf, ident, pos, polled, lock, async, callbacks, task, rpc, wire, broker,
                 ghost, left>>

(***************************************************************************)
(* The coordinator task: the commit before a JoinGroup, and what a join     *)
(* installs for commits.                                                    *)
(***************************************************************************)
NeedsJoin == ~broker.known \/ ident.gen # broker.gen \/ broker.phase = "Preparing"

\* forget_member, or fence_member: no ownership, no generation.  A fenced member, which may
\* learn of it from the JoinGroup too, waits for the next poll and is barred from synchronous
\* commits until it has joined.
LoseMembership(barred) ==
  /\ task.pc \in {"idle", "lost"} \/ (task.pc = "join" /\ barred)
  /\ ~broker.known /\ ident.gen # NoGen
  /\ ident' = [gen |-> NoGen, own |-> 0, barred |-> barred]
  /\ task' = [task EXCEPT !.pc = IF barred THEN "fenced" ELSE IF @ = "lost" THEN "join" ELSE @]
  /\ UNCHANGED <<conf, pos, polled, lock, app, async, callbacks, rpc, wire, broker, ghost,
                 left>>

TaskStart ==
  /\ task.pc = "idle" /\ NeedsJoin /\ (broker.known \/ ident.gen = NoGen)
  /\ task' = [task EXCEPT !.pc = IF conf.auto THEN "turn" ELSE "join"]
  /\ UNCHANGED <<conf, ident, pos, polled, lock, app, async, callbacks, rpc, wire, broker,
                 ghost, left>>

TaskTurn ==
  /\ task.pc = "turn" /\ lock = "free"
  /\ lock' = "task"
  /\ task' = [task EXCEPT !.pc = "attempt"]
  /\ UNCHANGED <<conf, ident, pos, polled, app, async, callbacks, rpc, wire, broker, ghost,
                 left>>

Spend(f) == f \in Faults /\ left.faults > 0 /\ left' = [left EXCEPT !.faults = @ - 1]

\* The commit ends before it has its outcome.  Its deadline, the rebalance timeout, bounds the
\* wait for the lock, each request and the wait before a retry: join without the commit.  Or a
\* heartbeat beside it says that the member is unknown or fenced, and stops it.
TaskGivesUp ==
  /\ \/ /\ Spend("expire")
        /\ \/ task.pc = "turn" /\ lock # "free"
           \/ task.pc = "sent" /\ rpc.at \in {"sent", "lost"}
        /\ task' = [task EXCEPT !.pc = "join"]
     \/ /\ task.pc \in {"turn", "attempt", "sent"} /\ ~broker.known /\ ident.gen # NoGen
        /\ task' = [task EXCEPT !.pc = "lost"]
        /\ UNCHANGED left
  /\ IF task.pc = "turn" THEN UNCHANGED <<lock, rpc, wire>> ELSE Release /\ GiveUp("task")
  /\ UNCHANGED <<conf, ident, pos, polled, app, async, callbacks, broker, ghost>>

\* Mutant: the commit before the join sends the live position.
PreJoinLive == IF ident.own # 0 /\ pos # NoPos THEN [off |-> pos, own |-> ident.own, kind |-> "position"]
               ELSE Nobody

\* polled_offsets, by owned_offsets: the position of the latest poll, if its ownership is
\* still current.
PreJoinOffsets == IF ident.own # 0 /\ polled.own = ident.own THEN polled ELSE Nobody

TaskCommit ==
  /\ task.pc = "attempt"
  /\ IF PreJoinOffsets = Nobody
       THEN task' = [task EXCEPT !.pc = "join"] /\ Release /\ UNCHANGED wire
       ELSE /\ task' = [task EXCEPT !.pc = "sent"]
            /\ Send("task", PreJoinOffsets.off, ident.gen, PreJoinOffsets.kind, 1)
            /\ UNCHANGED lock
  /\ UNCHANGED <<conf, ident, pos, polled, app, async, callbacks, broker, ghost, left>>

\* auto_commit_outcome: committed and failed join, retriable tries again until the deadline
\* (TaskGivesUp).
TaskAnswer ==
  /\ task.pc = "sent"
  /\ \/ /\ rpc.at \in {"ok", "refused"} /\ Release
        /\ task' = [task EXCEPT !.pc = "join"]
     \/ /\ rpc.at = "lost" /\ rpc' = NoRpc /\ UNCHANGED lock
        /\ task' = [task EXCEPT !.pc = "attempt"]
  /\ UNCHANGED <<conf, ident, pos, polled, app, async, callbacks, wire, broker, ghost, left>>

\* prime_offsets sets the position of a partition that the join adds: one that was not
\* assigned.  join_prepare clears the assignment under neither protocol.
Added == task.mine /\ ident.own = 0

TaskPrime ==
  /\ task.pc = "synced" /\ Added
  /\ pos' = broker.committed
  /\ task' = [task EXCEPT !.pc = "primed"]
  /\ UNCHANGED <<conf, ident, polled, lock, app, async, callbacks, rpc, wire, broker, ghost,
                 left>>

\* install_generation before the revoke callback of a cooperative member.
TaskInstallGeneration ==
  /\ task.pc = "synced" /\ conf.coop /\ ~task.mine /\ ident.own # 0
  /\ ident' = [ident EXCEPT !.gen = task.gen]
  /\ task' = [task EXCEPT !.pc = "revoking"]
  /\ UNCHANGED <<conf, pos, polled, lock, app, async, callbacks, rpc, wire, broker, ghost,
                 left>>

\* Ownership ids are never used again; each generation adds at most one.
NextOwn == task.gen + 1

\* publish_assignment: update_ownership keeps the id of a retained cooperative partition,
\* every other assignment gets a new one; positions of partitions given up are pruned.
TaskInstall ==
  /\ \/ task.pc \in {"primed", "revoking"}
     \/ task.pc = "synced" /\ ~Added /\ (task.mine \/ ~conf.coop \/ ident.own = 0)
  /\ ident' = [gen |-> task.gen, barred |-> FALSE,
               own |-> IF ~task.mine THEN 0
                       ELSE IF conf.coop /\ ident.own # 0 THEN ident.own ELSE NextOwn]
  /\ pos' = IF task.mine THEN pos ELSE NoPos
  /\ task' = [task EXCEPT !.pc = "idle", !.gen = NoGen, !.mine = FALSE]
  /\ UNCHANGED <<conf, polled, lock, app, async, callbacks, rpc, wire, broker, ghost, left>>

(***************************************************************************)
(* The group coordinator (external).                                        *)
(***************************************************************************)
\* OffsetCommit of a classic member: the generation must be current, and the group must not
\* wait for its assignment.
Accepts(r) == broker.known /\ r.gen = broker.gen /\ broker.phase # "Completing"

\* Positions only grow, so a position commit makes its offset the best one.  A selected
\* offset may lie below it, or past every position; a request that was given up beside
\* automatic commits may lie below it.
Apply(r) ==
  IF Accepts(r)
    THEN /\ broker' = [broker EXCEPT !.committed = r.off]
         /\ ghost' = [ghost EXCEPT !.best = CASE r.kind = "position" -> Larger(@, r.off)
                                              [] r.kind = "lowering" -> Smaller(@, r.off)
                                              [] OTHER -> @]
    ELSE UNCHANGED <<broker, ghost>>

BrokerCommit(conn) ==
  /\ wire[conn] # <<>>
  /\ LET r == Head(wire[conn])
     IN /\ Apply(r)
        /\ rpc' = IF r.live THEN [rpc EXCEPT !.at = IF Accepts(r) THEN "ok" ELSE "refused"]
                  ELSE rpc
  /\ wire' = [wire EXCEPT ![conn] = Tail(@)]
  /\ UNCHANGED <<conf, ident, pos, polled, lock, app, async, callbacks, task, left>>

\* The connection breaks: the first request on it was processed or not, the rest is lost,
\* and so is every answer.
Disconnect(conn, processed) ==
  /\ Spend("disconnect")
  /\ wire[conn] # <<>>
  /\ IF processed THEN Apply(Head(wire[conn])) ELSE UNCHANGED <<broker, ghost>>
  /\ rpc' = IF \E i \in DOMAIN wire[conn] : wire[conn][i].live
              THEN [rpc EXCEPT !.at = "lost"] ELSE rpc
  /\ wire' = [wire EXCEPT ![conn] = <<>>]
  /\ UNCHANGED <<conf, ident, pos, polled, lock, app, async, callbacks, task>>

\* The session expires, or another consumer takes the instance id.
Evict ==
  /\ Spend("evict")
  /\ broker.known
  /\ task.pc \in {"idle", "turn", "attempt", "sent"}
  /\ broker' = [broker EXCEPT !.known = FALSE, !.owner = "none", !.phase = "Preparing"]
  /\ UNCHANGED <<conf, ident, pos, polled, lock, app, async, callbacks, task, rpc, wire,
                 ghost>>

Rebalance ==
  /\ broker.phase = "Stable" /\ left.rebalances > 0
  /\ broker' = [broker EXCEPT !.phase = "Preparing"]
  /\ left' = [left EXCEPT !.rebalances = @ - 1]
  /\ UNCHANGED <<conf, ident, pos, polled, lock, app, async, callbacks, task, rpc, wire,
                 ghost>>

\* Every member has joined: the generation moves, the group waits for its assignment.  A
\* JoinGroup under a member id that the coordinator does not know is refused.
\* A member that stays away past the rebalance timeout would be evicted.
JoinsComplete ==
  /\ broker.phase = "Preparing" /\ task.pc = "join" /\ (broker.known \/ ident.gen = NoGen)
  /\ broker' = [broker EXCEPT !.phase = "Completing", !.gen = @ + 1, !.known = TRUE]
  /\ UNCHANGED <<conf, ident, pos, polled, lock, app, async, callbacks, task, rpc, wire,
                 ghost, left>>

\* The leader's assignment.  A cooperative partition that its owner claimed is first taken
\* from it before another member gets it.
Synced(owner) ==
  /\ broker.phase = "Completing" /\ task.pc = "join"
  /\ owner \in IF conf.coop /\ ident.own # 0 THEN {"me", "none"} ELSE {"me", "other"}
  /\ broker' = [broker EXCEPT !.phase = "Stable", !.owner = owner]
  /\ task' = [task EXCEPT !.pc = "synced", !.gen = broker.gen, !.mine = owner = "me"]
  /\ UNCHANGED <<conf, ident, pos, polled, lock, app, async, callbacks, rpc, wire, ghost,
                 left>>

\* The other owner consumes from the committed offset and commits its own progress.
OtherCommits ==
  /\ broker.owner = "other" /\ broker.phase # "Completing" /\ broker.committed < MaxPos
  /\ broker' = [broker EXCEPT !.committed = @ + 1]
  /\ ghost' = [frontier |-> Larger(ghost.frontier, broker.committed + 1),
               best |-> Larger(ghost.best, broker.committed + 1)]
  /\ UNCHANGED <<conf, ident, pos, polled, lock, app, async, callbacks, task, rpc, wire, left>>

AppGoesOn == \/ \E due \in BOOLEAN : PollRecord(due)
             \/ \E n \in 0..1 : PollFetch(n)
             \/ SyncTurn \/ SyncAttempt \/ SyncSend \/ SyncEnds \/ Schedule \/ CloseDrained
AppCalls == PollStart \/ (\E pick \in BOOLEAN : CommitSync(pick)) \/ PushCallback \/ Close
Worker == WorkerTurn \/ WorkerTake \/ WorkerSend \/ WorkerAnswer \/ WorkerAfter
TaskGoesOn == \/ TaskStart \/ TaskTurn \/ TaskCommit \/ TaskAnswer \/ TaskPrime
              \/ TaskInstallGeneration \/ TaskInstall
              \/ \E barred \in BOOLEAN : LoseMembership(barred)
BrokerGoesOn == \/ \E conn \in {"data", "task"} : BrokerCommit(conn)
                \/ JoinsComplete
                \/ \E owner \in {"me", "other", "none"} : Synced(owner)
Trouble == \/ \E conn \in {"data", "task"}, processed \in BOOLEAN : Disconnect(conn, processed)
           \/ Evict \/ Rebalance \/ OtherCommits \/ TaskGivesUp

Next == AppGoesOn \/ AppCalls \/ AutoCommitEnds \/ Worker \/ TaskGoesOn \/ BrokerGoesOn
        \/ Trouble

Spec == Init /\ [][Next]_vars

\* The application may stop calling, but a call that runs goes on.  tokio's mutex serves its
\* waiters in order, so the turn of the commit before a join comes.
FairSpec == /\ Spec
            /\ WF_vars(AppGoesOn) /\ WF_vars(AutoCommitEnds) /\ WF_vars(Worker)
            /\ WF_vars(TaskGoesOn) /\ SF_vars(TaskTurn)
            /\ WF_vars(BrokerGoesOn)

(***************************************************************************)
(* Properties.                                                              *)
(***************************************************************************)

\* The group never stores an offset past what the application has finished: what it had
\* received before its latest poll, or asked a commit for.  The commit before a JoinGroup
\* runs beside the application, which may still process the records of the last poll, so it
\* uses the positions of the poll and not the live ones (AutoCommit::polled).
CommitsProcessed == broker.committed <= ghost.frontier

\* The committed offset never moves back behind a position commit that the group accepted,
\* unless the application itself selected a lower offset, or a request lands that was given
\* up at its deadline beside automatic commits: not by the commit before a JoinGroup that
\* keeps the lock, not by a retry under a newer generation after another member owned the
\* partition, and not by an interval commit that a newer commit overtook.
CommittedNeverRewinds == broker.committed >= ghost.best

\* A callback that waits, or a mark, always has a worker that will take it or a caller that
\* is about to start one: none is stranded between a worker that ends and a call that sees
\* it running (schedule_commit_async).
CallbackHasWorker ==
  (callbacks > 0 \/ async.state # "IDLE") => async.pc # "gone" \/ app.pc = "pushed"

\* The commit before a JoinGroup gets its turn: no commit holds the lock while it waits for
\* a join that itself waits for the lock.
PreJoinTurnComes == task.pc = "turn" ~> task.pc # "turn"
=============================================================================
