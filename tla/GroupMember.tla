----------------------------- MODULE GroupMember -----------------------------
(***************************************************************************)
(* One member of a classic consumer group: the coordinator task of          *)
(* client-consumer/src/coordinator.rs (join, sync, heartbeat, rejoin), the  *)
(* application that polls and runs the rebalance listener inside poll       *)
(* (poll.rs, rebalance_listener.rs, subscription.rs, control.rs), and the   *)
(* group coordinator as the task sees it (external).                        *)
(*                                                                          *)
(* Every topic has one partition, so a partition stands for its topic and a *)
(* subscription is a set of partitions.  The other members of the group are *)
(* one set of partitions, broker.other.  Generations and member ids are     *)
(* only ever compared for equality, so they are numbered in a cycle.        *)
(***************************************************************************)
EXTENDS Integers, Sequences, FiniteSets, SequencesExt

CONSTANTS Partitions,   \* the partitions, one per topic
          Existing,     \* the topics that exist from the start
          Protocols,    \* the rebalance protocols a consumer may be built with
          Statics,      \* whether the member may have a group.instance.id
          Leads,        \* whether the coordinator may make this member the leader
          Faults,       \* the faults that may strike
          MaxFaults,    \* how many of them
          MaxRebalances,\* rebalances that other members start
          Calls,        \* the application calls besides poll
          MaxCalls,     \* how many of them
          Cycle         \* length of the cycle of generations and member ids

ASSUME CycleAssumption == Cycle \in Nat /\ Cycle > 2
ASSUME ExistingAssumption == Existing \subseteq Partitions

NoId == -1
NoGen == -1
NoCall == [kind |-> "Lost", parts |-> {}]

VARIABLES
  conf,     \* rebalance_protocol, and whether the member is static
  task,     \* the coordinator task: CoordinatorState and the locals of rejoin_group
  shared,   \* what the task shares with the Consumer
  app,      \* the application thread
  calls,    \* the queue of listener calls
  held,     \* the partitions the listener was given and not yet told to give up
  broker,   \* the group coordinator
  left      \* how many faults, rebalances and application calls are left

vars == <<conf, task, shared, app, calls, held, broker, left>>

Eager == conf.proto = "Eager"
Static == conf.static
Next1(n) == (n + 1) % Cycle

TypeOK ==
  /\ conf \in [proto : {"Eager", "Cooperative"}, static : BOOLEAN]
  /\ task \in [pc : {"Idle", "Prepare", "Call", "SendJoin", "Join", "Sync", "Prime",
                     "Gate", "Publish", "Prune", "Announce", "Fenced", "Stopped"},
               next : {"none", "join", "kept", "add", "round2", "finish"},
               rnd : 1..2, id : -1..Cycle - 1, gen : -1..Cycle - 1, prepared : BOOLEAN,
               rejoin : {"none", "afterPoll", "due"}, lost : SUBSET Partitions,
               owned : SUBSET Partitions, new : SUBSET Partitions,
               ngen : -1..Cycle - 1, hb : {"none", "unknown", "fenced"},
               wait : {"none", "queued", "ran", "dropped"},
               joined : SUBSET Partitions, known : SUBSET Partitions,
               snapshot : SUBSET Partitions, watched : SUBSET Partitions, unseen : BOOLEAN,
               call : [kind : {"Assigned", "Revoked", "Lost"}, parts : SUBSET Partitions]]
  /\ shared \in [assigned : SUBSET Partitions, pending : BOOLEAN, gate : SUBSET Partitions,
                 primed : SUBSET Partitions, err : BOOLEAN]
  /\ app \in [pc : {"idle", "wait", "waiting", "fetch", "closed"}, sub : SUBSET Partitions,
              changed : BOOLEAN, unsubscribed : BOOLEAN,
              enforced : {"none", "fresh", "polled"}]
  /\ calls \in Seq([kind : {"Assigned", "Revoked", "Lost"}, parts : SUBSET Partitions,
                    live : BOOLEAN])
  /\ held \subseteq Partitions
  /\ broker \in [id : -1..Cycle - 1, fenced : -1..Cycle - 1, gen : 0..Cycle - 1,
                 phase : {"Stable", "Preparing", "Completing"},
                 join : {"none", "waiting", "ready"}, claims : SUBSET Partitions,
                 topics : SUBSET Partitions, mine : SUBSET Partitions,
                 other : SUBSET Partitions, leader : BOOLEAN,
                 exists : SUBSET Partitions, minted : 0..Cycle - 1]
  /\ left \in [faults : 0..MaxFaults, rebalances : 0..MaxRebalances, calls : 0..MaxCalls]

\* start_once joined and synced once, and the first poll ran the assign callback that the
\* build queued: a member id, a generation, and a primed assignment that the listener holds.
Init ==
  /\ conf \in [proto : Protocols, static : Statics]
  /\ \E mine \in SUBSET Existing, leads \in Leads :
       /\ task = [pc |-> "Idle", next |-> "none", rnd |-> 1, id |-> 0, gen |-> 0,
                  prepared |-> FALSE, rejoin |-> "none", lost |-> {}, owned |-> {},
                  new |-> {}, ngen |-> NoGen, hb |-> "none", wait |-> "none",
                  joined |-> Partitions, known |-> Existing, snapshot |-> {},
                  watched |-> Partitions,
                  unseen |-> FALSE, call |-> NoCall]
       /\ shared = [assigned |-> mine, pending |-> FALSE, gate |-> {}, primed |-> mine,
                    err |-> FALSE]
       /\ broker = [id |-> 0, fenced |-> NoId, gen |-> 0, phase |-> "Stable",
                    join |-> "none", claims |-> {}, topics |-> Partitions, mine |-> mine,
                    other |-> Existing \ mine, leader |-> leads, exists |-> Existing,
                    minted |-> 0]
       /\ held = mine
  /\ app = [pc |-> "idle", sub |-> Partitions, changed |-> FALSE, unsubscribed |-> FALSE,
            enforced |-> "none"]
  /\ calls = <<>>
  /\ left = [faults |-> MaxFaults, rebalances |-> MaxRebalances, calls |-> MaxCalls]

(***************************************************************************)
(* Requests to rejoin.  RejoinRequest::AfterPoll(n) is due once the poll    *)
(* count differs from n: "afterPoll" turns into "due" with the next poll.   *)
(***************************************************************************)
RequestAfterNextPoll(t) ==
  [t EXCEPT !.rejoin = IF @ = "none" THEN "afterPoll" ELSE @]

\* note_poll: the poll count moves, for the request of the task and for an enforced
\* rebalance that the task has not received.
Polled(t) == [t EXCEPT !.unseen = TRUE,
                       !.rejoin = IF @ = "afterPoll" THEN "due" ELSE @]
PolledApp(a) == [a EXCEPT !.enforced = IF @ = "fresh" THEN "polled" ELSE @]

(***************************************************************************)
(* Losing the membership.                                                   *)
(***************************************************************************)
\* Mutant: the lost partitions are not remembered.
WithoutMemberForgets(t) == [t EXCEPT !.id = NoId, !.gen = NoGen]
\* remember_lost_partitions, the cleared member id and the reset generation.
WithoutMember(t) == [t EXCEPT !.id = NoId, !.gen = NoGen, !.lost = @ \cup shared.assigned]

\* install_assignment with no partitions, while a rebalance is pending.
GiveUp(s) == [s EXCEPT !.assigned = {}, !.pending = TRUE]

\* The broker drops a member that leaves: the rest of the group rebalances.
Without(b) == [b EXCEPT !.id = NoId, !.mine = {}, !.join = "none", !.phase = "Preparing"]

\* rejoin_group ended, by its return or by an error: its locals and the gate are gone.
Ended(t, pc) == [t EXCEPT !.pc = pc, !.next = "none", !.wait = "none", !.hb = "none",
                          !.rnd = 1, !.call = NoCall, !.owned = {}, !.new = {},
                          !.ngen = NoGen, !.snapshot = {}]

\* fence_member, and wait_for_poll_after_error up to its first wait.
FenceMember ==
  /\ task' = [Ended(WithoutMember(task), "Fenced") EXCEPT !.unseen = FALSE]
  /\ shared' = [GiveUp(shared) EXCEPT !.err = TRUE, !.gate = {}]
  /\ UNCHANGED <<conf, app, calls, held, broker, left>>


\* leave_group: a dynamic member with an id sends LeaveGroup.
LeaveGroup(id) == IF ~Static /\ id # NoId /\ id = broker.id THEN Without(broker) ELSE broker

\* leave_on_poll_timeout: a dynamic member sends LeaveGroup, a static one stays.
LeaveOnPollTimeout(t) ==
  /\ task' = Ended(WithoutMember(t), "Idle")
  /\ shared' = [GiveUp(shared) EXCEPT !.gate = {}]
  /\ broker' = LeaveGroup(task.id)

(***************************************************************************)
(* Answers of the group coordinator.                                        *)
(***************************************************************************)
IsFenced(t) == t.id # NoId /\ t.id = broker.fenced
Unknown(t) == t.id = NoId \/ (t.id # broker.id /\ ~IsFenced(t))

HeartbeatOutcome ==
  IF IsFenced(task) THEN "Fenced"
  ELSE IF Unknown(task) THEN "RejoinFromScratch"
  ELSE IF task.gen # broker.gen \/ broker.phase = "Preparing" THEN "NeedRejoin"
  ELSE "Ok"

Spend(f) == left.faults > 0 /\ f \in Faults /\ left' = [left EXCEPT !.faults = @ - 1]

(***************************************************************************)
(* The application.  poll signals the task, runs the queued listener calls,  *)
(* waits for a pending join, and fetches.                                   *)
(***************************************************************************)
\* prepare_poll: an error that the task left is returned and does not count as a poll.
PollStart ==
  /\ app.pc = "idle" /\ app.sub # {}
  /\ IF shared.err
       THEN /\ shared' = [shared EXCEPT !.err = FALSE]
            /\ UNCHANGED <<task, app>>
       ELSE /\ task' = Polled(task)
            /\ app' = [PolledApp(app) EXCEPT !.pc = "wait"]
            /\ UNCHANGED shared
  /\ UNCHANGED <<conf, calls, held, broker, left>>

\* What the listener holds after a call.
Told(h, call) == IF call.kind = "Assigned" THEN h \cup call.parts ELSE h \ call.parts

\* complete_listener_call: the callback runs to its end, then the task is told.
RunCall ==
  /\ app.pc \in {"wait", "waiting"} /\ calls # <<>>
  /\ held' = Told(held, Head(calls))
  /\ calls' = Tail(calls)
  /\ task' = [task EXCEPT !.wait = IF Head(calls).live THEN "ran" ELSE @]
  /\ UNCHANGED <<conf, shared, app, broker, left>>

\* The application cancels the poll inside a callback: the call is dropped undone.
DropCall ==
  /\ app.pc \in {"wait", "waiting"} /\ calls # <<>>
  /\ Spend("cancel")
  /\ calls' = Tail(calls)
  /\ task' = [task EXCEPT !.wait = IF Head(calls).live THEN "dropped" ELSE @]
  /\ app' = [app EXCEPT !.pc = "idle"]
  /\ UNCHANGED <<conf, shared, held, broker>>

\* Whether a poll may fetch at once: an eager member waits for a pending join.
MayFetchWhileJoining == ~shared.pending \/ shared.assigned # {}  \* mutant
MayFetch == ~shared.pending \/ (~Eager /\ shared.assigned # {})

\* wait_for_rebalance, after the calls that waited ran.
PollEnter ==
  /\ app.pc = "wait" /\ calls = <<>>
  /\ IF MayFetch
       THEN app' = [app EXCEPT !.pc = "fetch"] /\ UNCHANGED task
       ELSE /\ app' = [PolledApp(app) EXCEPT !.pc = "waiting"]
            /\ task' = Polled(task)
  /\ UNCHANGED <<conf, shared, calls, held, broker, left>>

\* The join of this poll completed.
PollJoined ==
  /\ app.pc = "waiting" /\ calls = <<>> /\ ~shared.pending
  /\ app' = [app EXCEPT !.pc = "fetch"]
  /\ UNCHANGED <<conf, task, shared, calls, held, broker, left>>

\* The timeout of the poll passed before the join completed.
PollDeadline ==
  /\ app.pc = "waiting" /\ calls = <<>> /\ shared.pending
  /\ app' = [app EXCEPT !.pc = "idle"]
  /\ UNCHANGED <<conf, task, shared, calls, held, broker, left>>

\* group_fetches: the partitions a poll sends Fetch requests for.
FetchSet == (shared.assigned \ shared.gate) \cap app.sub

PollReturn ==
  /\ app.pc = "fetch"
  /\ app' = [app EXCEPT !.pc = "idle"]
  /\ UNCHANGED <<conf, task, shared, calls, held, broker, left>>

AppCall(c) ==
  /\ c \in Calls /\ app.pc = "idle" /\ left.calls > 0
  /\ left' = [left EXCEPT !.calls = @ - 1]

Subscribe ==
  \E topics \in SUBSET Partitions \ {{}} :
    /\ AppCall("subscribe")
    /\ app' = [app EXCEPT !.sub = topics, !.changed = TRUE]
    /\ UNCHANGED <<conf, task, shared, calls, held, broker>>

\* leave_prepare: every call that waits runs, then the owned partitions are given up.
LeavePrepare ==
  /\ held' = FoldLeft(Told, held, calls) \ shared.assigned
  /\ calls' = <<>>

RanAll(t) == [t EXCEPT !.wait = IF \E i \in DOMAIN calls : calls[i].live THEN "ran" ELSE @]

Unsubscribe ==
  /\ AppCall("unsubscribe") /\ app.sub # {}
  /\ LeavePrepare
  /\ task' = RanAll(task)
  /\ shared' = [shared EXCEPT !.assigned = {}, !.primed = {}]
  /\ app' = [app EXCEPT !.sub = {}, !.changed = TRUE, !.unsubscribed = TRUE]
  /\ UNCHANGED <<conf, broker>>

EnforceRebalance ==
  /\ AppCall("enforce") /\ app.enforced = "none"
  /\ app' = [app EXCEPT !.enforced = "fresh"]
  /\ UNCHANGED <<conf, task, shared, calls, held, broker>>

\* The member id that close leaves with: the live one, not the one of the build.
LeavingId == task.id

\* close: the listener, then the shutdown of the task, which leaves with its live id.
Close ==
  /\ AppCall("close")
  /\ LeavePrepare
  /\ task' = Ended(task, "Stopped")
  /\ broker' = LeaveGroup(LeavingId)
  /\ app' = [app EXCEPT !.pc = "closed"]
  /\ shared' = [shared EXCEPT !.gate = {}]
  /\ UNCHANGED conf

(***************************************************************************)
(* The task between two rejoins: the select loop of run.                    *)
(***************************************************************************)
TaskRest == UNCHANGED <<conf, app, calls, held, broker, left>>

\* TaskEvent::Poll of a poll that starts no join.
TaskPoll ==
  /\ task.pc = "Idle" /\ task.unseen /\ task.rejoin # "due"
  /\ task' = [task EXCEPT !.unseen = FALSE]
  /\ UNCHANGED shared /\ TaskRest

\* A tick without a rejoin that is due sends a heartbeat.
Heartbeat ==
  /\ task.pc = "Idle" /\ task.id # NoId /\ task.rejoin # "due"
  /\ \/ /\ HeartbeatOutcome = "NeedRejoin"
        /\ task' = RequestAfterNextPoll(task)
        /\ shared' = [shared EXCEPT !.pending = TRUE]
        /\ TaskRest
     \/ /\ HeartbeatOutcome = "RejoinFromScratch"
        /\ task' = RequestAfterNextPoll(WithoutMember(task))
        /\ shared' = GiveUp(shared)
        /\ TaskRest
     \/ /\ HeartbeatOutcome = "Fenced"
        /\ FenceMember

\* The growth check of the subscribed topics.
MetadataCheck ==
  /\ task.pc = "Idle" /\ task.rejoin = "none"
  /\ ~(broker.exists \cap task.watched \subseteq task.known)
  /\ task' = RequestAfterNextPoll(task)
  /\ shared' = [shared EXCEPT !.pending = TRUE]
  /\ TaskRest

\* request_after_poll with the poll count of the enforce_rebalance call.
TakeEnforced ==
  /\ task.pc = "Idle" /\ app.enforced # "none"
  /\ task' = [task EXCEPT !.rejoin = IF @ # "none" THEN @
                                     ELSE IF app.enforced = "polled" THEN "due"
                                     ELSE "afterPoll"]
  /\ shared' = [shared EXCEPT !.pending = TRUE]
  /\ app' = [app EXCEPT !.enforced = "none"]
  /\ UNCHANGED <<conf, calls, held, broker, left>>

\* handle_subscription_change: an unsubscribe leaves the group, then the topics are compared.
HandleSubscriptionChange ==
  LET gone == [task EXCEPT !.id = NoId, !.gen = NoGen, !.lost = {}, !.rejoin = "none"]
      t == IF app.unsubscribed THEN gone ELSE task
      pending == shared.pending /\ ~app.unsubscribed
      assigned == IF app.unsubscribed THEN {} ELSE shared.assigned
      request == app.sub # {} /\ (app.sub # t.joined \/ t.id = NoId)
  IN /\ task.pc = "Idle" /\ app.changed
     /\ app' = [app EXCEPT !.changed = FALSE, !.unsubscribed = FALSE]
     /\ shared' = [shared EXCEPT !.assigned = assigned, !.pending = pending \/ request]
     /\ task' = CASE app.sub = {} -> t
                  [] app.sub # {} /\ ~request -> [t EXCEPT !.watched = app.sub]
                  [] request -> [RequestAfterNextPoll(t) EXCEPT
                                 !.watched = app.sub,
                                 !.known = IF app.sub # t.joined
                                             THEN broker.exists \cap app.sub ELSE @]
     /\ broker' = IF app.unsubscribed THEN LeaveGroup(task.id) ELSE broker
     /\ UNCHANGED <<conf, calls, held, left>>

\* No poll came for max_poll_interval.
PollTimeout ==
  /\ task.pc = "Idle" /\ task.id # NoId /\ ~task.unseen
  /\ Spend("pollTimeout")
  /\ LeaveOnPollTimeout(RequestAfterNextPoll(task))
  /\ UNCHANGED <<conf, app, calls, held>>

\* wait_for_poll_after_error, and request_now: the poll after the one that took the error.
FencedWake ==
  /\ task.pc = "Fenced" /\ task.unseen
  /\ IF shared.err
       THEN task' = [task EXCEPT !.unseen = FALSE] /\ UNCHANGED shared
       ELSE /\ task' = [task EXCEPT !.pc = "Idle", !.rejoin = "due", !.unseen = FALSE]
            /\ shared' = [shared EXCEPT !.pending = TRUE]
  /\ TaskRest

(***************************************************************************)
(* One rejoin: rejoin_group.  join_and_sync prepares, joins and syncs; what  *)
(* follows depends on the protocol.  A call of the listener suspends it.    *)
(***************************************************************************)
BeginJoin(t) == [t EXCEPT !.pc = IF t.prepared THEN "SendJoin" ELSE "Prepare"]

StartRejoin ==
  /\ task.pc = "Idle" /\ task.rejoin = "due"
  /\ task' = BeginJoin([task EXCEPT !.unseen = FALSE])
  /\ UNCHANGED shared /\ TaskRest

\* call_listener: the call is queued and the task waits for its end.
CallListener(t, kind, parts, next) ==
  /\ task' = [t EXCEPT !.pc = "Call", !.next = next, !.wait = "queued", !.hb = "none",
                       !.call = [kind |-> kind, parts |-> parts]]
  /\ calls' = Append(calls, [kind |-> kind, parts |-> parts, live |-> TRUE])
  /\ UNCHANGED <<conf, app, held, broker, left>>

\* join_prepare.  A heartbeat during the commit may tell that the member is unknown.
JoinPrepare ==
  /\ task.pc = "Prepare"
  /\ \/ IsFenced(task) /\ FenceMember
     \/ \E forget \in {FALSE, Unknown(task)} :
          LET t == [(IF forget THEN WithoutMember(task) ELSE task) EXCEPT !.prepared = TRUE]
              s == IF forget THEN GiveUp(shared) ELSE shared
              gone == s.assigned \ app.sub
          IN /\ shared' = s
             /\ CASE (t.id = NoId \/ t.gen = NoGen) /\ t.lost # {} ->
                       CallListener([t EXCEPT !.lost = {}], "Lost", t.lost, "join")
                  [] (t.id # NoId /\ t.gen # NoGen) /\ Eager ->
                       CallListener(t, "Revoked", s.assigned, "join")
                  [] (t.id # NoId /\ t.gen # NoGen) /\ ~Eager /\ gone # {} ->
                       CallListener([t EXCEPT !.new = s.assigned \ gone],
                                    "Revoked", gone, "kept")
                  [] OTHER -> task' = [t EXCEPT !.pc = "SendJoin"] /\ TaskRest

\* heartbeat_during_join_prepare, while a listener call waits.
HeartbeatInCall ==
  /\ task.pc = "Call" /\ task.hb = "none" /\ task.wait = "queued"
  /\ HeartbeatOutcome \in {"RejoinFromScratch", "Fenced"}
  /\ task' = [task EXCEPT !.hb = IF HeartbeatOutcome = "Fenced" THEN "fenced" ELSE "unknown"]
  /\ UNCHANGED shared /\ TaskRest

\* rejoin.complete and merge_counts.
Complete(t) ==
  [Ended(t, "Idle") EXCEPT !.rejoin = "none", !.known = @ \cup t.snapshot]

\* Mutant: the assignment is published before its offsets are primed.
PublishFirst(step) ==
  CASE step = "Sync" -> "Gate" [] step = "Gate" -> "Publish" [] step = "Publish" -> "Prime"
    [] step = "Prime" -> IF Eager THEN "Prune" ELSE "Announce" [] step = "Prune" -> "Announce"

\* Mutant: the gate closes after the publication.
GateLast(step) ==
  CASE step = "Sync" -> "Prime" [] step = "Prime" -> "Publish" [] step = "Publish" -> "Gate"
    [] step = "Gate" -> IF Eager THEN "Prune" ELSE "Announce" [] step = "Prune" -> "Announce"

\* The steps that install a synced assignment, in the order of rejoin_group and of
\* publish_cooperative_additions.  Polls run between them.
StepAfter(step) ==
  CASE step = "Sync" -> "Prime" [] step = "Prime" -> "Gate" [] step = "Gate" -> "Publish"
    [] step = "Publish" -> IF Eager THEN "Prune" ELSE "Announce" [] step = "Prune" -> "Announce"

\* What follows the listener call that returned.
Continue(t, s) ==
  LET back == [t EXCEPT !.call = NoCall, !.next = "none", !.wait = "none", !.hb = "none"]
  IN CASE t.next = "join"   -> /\ task' = [back EXCEPT !.pc = "SendJoin"]
                               /\ shared' = s
       [] t.next = "kept"   -> /\ task' = [back EXCEPT !.pc = "SendJoin", !.new = {}]
                               /\ shared' = [s EXCEPT !.assigned = t.new]
       [] t.next = "add"    -> /\ task' = [back EXCEPT !.pc = StepAfter("Sync")]
                               /\ shared' = s
       [] t.next = "round2" -> /\ task' = BeginJoin([back EXCEPT !.rnd = 2])
                               /\ shared' = [s EXCEPT !.gate = {},
                                                      !.primed = @ \ (t.owned \ t.new)]
       [] t.next = "finish" -> /\ task' = Complete(t)
                               /\ shared' = [s EXCEPT !.gate = {}, !.pending = FALSE]

\* A cancelled poll dropped the call: the next poll runs it again.
NeverResend == FALSE  \* mutant
Resend == /\ task.hb = "none" /\ task.wait = "dropped"
          /\ CallListener(task, task.call.kind, task.call.parts, task.next)
          /\ UNCHANGED shared

\* The end of call_listener: a fenced or unknown member first, then a call to send again.
CallReturns ==
  /\ task.pc = "Call" /\ task.wait \in {"ran", "dropped"}
  /\ \/ task.hb = "fenced" /\ FenceMember
     \/ task.hb = "unknown" /\ Continue(WithoutMember(task), GiveUp(shared)) /\ TaskRest
     \/ task.hb = "none" /\ task.wait = "ran" /\ Continue(task, shared) /\ TaskRest
     \/ Resend

\* poll_timeout_in_callback: the call stays queued, nobody waits for it, the member leaves.
CallTimeout ==
  /\ task.pc = "Call" /\ task.wait = "queued"
  /\ Spend("pollTimeout")
  /\ LeaveOnPollTimeout(RequestAfterNextPoll([task EXCEPT !.rejoin = "none"]))
  /\ calls' = [i \in DOMAIN calls |-> [calls[i] EXCEPT !.live = FALSE]]
  /\ UNCHANGED <<conf, app, held>>

\* An error ends rejoin_group: the request stays, the next tick or poll tries again.
Fail(t) == /\ task' = Ended(t, "Idle")
           /\ shared' = [shared EXCEPT !.gate = {}]

\* perform_join.  A member without an id is given one by the first JoinGroup (error 79) and
\* joins with it at once.
SendJoin ==
  LET fresh == task.id = NoId
      id == IF fresh THEN Next1(broker.minted) ELSE task.id
      t == [task EXCEPT !.joined = app.sub, !.watched = app.sub, !.id = id,
                        !.owned = shared.assigned]
  IN /\ task.pc = "SendJoin"
     /\ \/ IsFenced(task) /\ FenceMember
        \/ ~IsFenced(task) /\ ~fresh /\ Unknown(task) /\ Fail(t) /\ TaskRest
        \/ /\ fresh \/ task.id = broker.id
           /\ task' = [t EXCEPT !.pc = "Join"]
           /\ broker' = [broker EXCEPT
                !.id = id, !.minted = IF fresh THEN id ELSE @, !.phase = "Preparing",
                !.mine = IF fresh THEN {} ELSE @, !.join = "waiting", !.topics = app.sub,
                !.claims = IF Eager THEN {} ELSE shared.assigned \ broker.other]
           /\ UNCHANGED <<conf, shared, app, calls, held, left>>

\* The answer of JoinGroup; the leader watches the topics of the group, which are all topics,
\* and reads the metadata it assigns from.
JoinAnswer ==
  /\ task.pc = "Join"
  /\ \/ IsFenced(task) /\ FenceMember
     \/ ~IsFenced(task) /\ Unknown(task) /\ Fail(task) /\ TaskRest
     \/ /\ task.id = broker.id /\ broker.join = "ready"
        /\ task' = [task EXCEPT !.pc = "Sync", !.ngen = broker.gen,
                      !.snapshot = IF broker.leader THEN broker.exists ELSE {},
                      !.watched = IF broker.leader THEN Partitions ELSE @]
        /\ broker' = [broker EXCEPT !.join = "none"]
        /\ UNCHANGED <<conf, shared, app, calls, held, left>>

\* What a synced member does next: a cooperative one gives up what it lost before it adds.
AfterSync(t) ==
  LET revoked == t.owned \ t.new
  IN IF ~Eager /\ revoked # {}
       THEN /\ CallListener([t EXCEPT !.gen = t.ngen], "Revoked", revoked, "add")
            /\ UNCHANGED shared
       ELSE /\ task' = [t EXCEPT !.pc = StepAfter("Sync")]
            /\ UNCHANGED shared /\ TaskRest

SyncAnswer ==
  /\ task.pc = "Sync"
  /\ \/ IsFenced(task) /\ FenceMember
     \/ /\ ~IsFenced(task)
        /\ Unknown(task) \/ task.ngen # broker.gen \/ broker.phase = "Preparing"
        /\ Fail(task) /\ TaskRest
     \/ /\ task.id = broker.id /\ task.ngen = broker.gen /\ broker.phase = "Stable"
        /\ AfterSync([task EXCEPT !.new = broker.mine, !.prepared = FALSE])

\* The partitions of the assign callback: an eager member was revoked everything.
Announced(t) == IF Eager THEN t.new ELSE t.new \ t.owned

\* prime_offsets of the added partitions: the offsets that OffsetFetch told are stored.
PrimeOffsets ==
  /\ task.pc = "Prime"
  /\ shared' = [shared EXCEPT !.primed = @ \cup (task.new \ task.owned)]
  /\ task' = [task EXCEPT !.pc = StepAfter("Prime")]
  /\ TaskRest

\* assigned_callback_gate.
CloseGate ==
  /\ task.pc = "Gate"
  /\ shared' = [shared EXCEPT !.gate = Announced(task)]
  /\ task' = [task EXCEPT !.pc = StepAfter("Gate")]
  /\ TaskRest

\* publish_assignment: the assignment and its generation.
PublishAssignment ==
  /\ task.pc = "Publish"
  /\ shared' = [shared EXCEPT !.assigned = task.new]
  /\ task' = [task EXCEPT !.pc = StepAfter("Publish"), !.gen = task.ngen]
  /\ TaskRest

\* An eager member forgets the offsets of the partitions it lost.
PruneOffsets ==
  /\ task.pc = "Prune"
  /\ shared' = [shared EXCEPT !.primed = @ \cap task.new]
  /\ task' = [task EXCEPT !.pc = StepAfter("Prune")]
  /\ TaskRest

\* The assign callback; a cooperative member that gave partitions up joins again after it.
AnnounceAssignment ==
  LET again == ~Eager /\ task.rnd = 1 /\ task.owned \ task.new # {}
  IN /\ task.pc = "Announce"
     /\ CallListener(task, "Assigned", Announced(task), IF again THEN "round2" ELSE "finish")
     /\ UNCHANGED shared

\* A request of the rejoin fails: a transport error, a refused request, no committed offset.
\* report_rejoin_error leaves an authentication or a fatal OffsetFetch error for poll.
RejoinFails ==
  /\ task.pc \in {"SendJoin", "Join", "Sync", "Prime"}
  /\ Spend("request")
  /\ task' = Ended(task, "Idle")
  /\ \E fatal \in BOOLEAN : shared' = [shared EXCEPT !.gate = {}, !.err = @ \/ fatal]
  /\ UNCHANGED <<conf, app, calls, held, broker>>

(***************************************************************************)
(* The group coordinator and the rest of the group (external).              *)
(***************************************************************************)
BrokerOnly == UNCHANGED <<conf, task, shared, app, calls, held>>

BStartRebalance ==
  /\ broker.phase # "Preparing" /\ left.rebalances > 0
  /\ left' = [left EXCEPT !.rebalances = @ - 1]
  /\ broker' = [broker EXCEPT !.phase = "Preparing"]
  /\ BrokerOnly

\* Every member that is in the group joined: a new generation, with a leader.
BComplete ==
  /\ broker.phase = "Preparing" /\ (broker.id = NoId \/ broker.join = "waiting")
  /\ \E leads \in Leads :
       broker' = [broker EXCEPT !.phase = "Completing", !.gen = Next1(@),
                                !.join = IF broker.id = NoId THEN "none" ELSE "ready",
                                !.leader = leads /\ broker.id # NoId]
  /\ BrokerOnly /\ UNCHANGED left

\* The leader's SyncGroup.  A cooperative assignor gives nobody what another member claims.
BAssign ==
  LET topics == IF broker.leader THEN task.snapshot ELSE broker.exists
      free == IF Eager THEN topics ELSE broker.claims \cup (topics \ broker.other)
  IN /\ broker.phase = "Completing"
     /\ broker.leader => (task.pc = "Sync" /\ task.ngen = broker.gen /\ task.id = broker.id)
     /\ \E mine \in SUBSET (IF broker.id = NoId THEN {} ELSE free \cap broker.topics),
          other \in SUBSET (broker.exists \ (IF Eager THEN {} ELSE broker.claims)) :
          /\ mine \cap other = {}
          /\ Eager => other = topics \ mine
          /\ broker' = [broker EXCEPT !.phase = "Stable", !.mine = mine, !.other = other]
     /\ BrokerOnly /\ UNCHANGED left

\* The session or the rebalance timeout of the member passed.
BEvict ==
  /\ broker.id # NoId /\ broker.join # "waiting" /\ Spend("evict")
  /\ broker' = Without(broker)
  /\ BrokerOnly

\* Another consumer joins with the same group.instance.id.
BFence ==
  /\ Static /\ broker.id # NoId /\ Spend("fence")
  /\ broker' = [Without(broker) EXCEPT !.fenced = broker.id]
  /\ BrokerOnly

BCreateTopic ==
  \E p \in Partitions \ broker.exists :
    /\ broker' = [broker EXCEPT !.exists = @ \cup {p}]
    /\ BrokerOnly /\ UNCHANGED left

AppStep == \/ PollStart \/ RunCall \/ PollEnter \/ PollJoined \/ PollDeadline \/ PollReturn
TaskStep == \/ TaskPoll \/ Heartbeat \/ MetadataCheck \/ TakeEnforced \/ HandleSubscriptionChange
            \/ FencedWake \/ StartRejoin \/ JoinPrepare \/ HeartbeatInCall \/ CallReturns
            \/ SendJoin \/ JoinAnswer \/ SyncAnswer \/ PrimeOffsets \/ CloseGate
            \/ PublishAssignment \/ PruneOffsets \/ AnnounceAssignment
BrokerStep == BComplete \/ BAssign

Next ==
  \/ AppStep \/ DropCall \/ Subscribe \/ Unsubscribe \/ EnforceRebalance \/ Close
  \/ TaskStep \/ PollTimeout \/ CallTimeout \/ RejoinFails
  \/ BrokerStep \/ BStartRebalance \/ BEvict \/ BFence \/ BCreateTopic

Spec == Init /\ [][Next]_vars

\* The runtime runs the task whenever it can, the coordinator answers, and the application
\* keeps calling poll.
Fairness == WF_vars(AppStep) /\ WF_vars(TaskStep) /\ WF_vars(BrokerStep)
FairSpec == Spec /\ Fairness

(***************************************************************************)
(* Properties.                                                              *)
(***************************************************************************)
\* The partitions whose assign callback is still to run: the additions of an assignment that
\* is being installed, and those of the calls on their way to the listener.
Unannounced ==
  (IF task.pc \in {"Prime", "Gate", "Publish", "Prune", "Announce"}
     THEN task.new \ task.owned ELSE {})
    \cup UNION {calls[i].parts : i \in {j \in DOMAIN calls : calls[j].kind = "Assigned"}}

\* No poll sends a Fetch for a partition before its assign callback ran: the gate closes
\* before the partition is published, and opens after the callback (assigned_callback_gate).
AddedWaitForCallback == app.pc = "fetch" => FetchSet \cap Unannounced \subseteq held

\* A partition is visible in assigned only once its offset is established: prime_offsets
\* comes before the publication (coordinator.rs, rejoin_group).  Unsubscribe clears the
\* offsets under a rejoin that is about to publish; until the task handles it, which clears
\* the assignment again, nothing is promised.
AssignedIsPrimed == app.unsubscribed \/ shared.assigned \subseteq shared.primed

Queued == UNION {calls[i].parts : i \in DOMAIN calls}

\* A partition that the listener holds is owned, or remembered as lost, or named by a call on
\* its way to the listener: no reset may forget to remember it.
NoSilentLoss ==
  app.pc # "closed" => held \subseteq shared.assigned \cup task.lost \cup Queued \cup task.call.parts

\* A poll never fetches a partition of another member of the generation: the cooperative
\* member gives a partition up before the assignor can place it elsewhere, the eager one
\* fetches nothing while it joins.
FetchIsExclusive ==
  (app.pc = "fetch" /\ task.id # NoId /\ task.id = broker.id)
    => FetchSet \cap broker.other = {}

\* A rebalance ends: the poll that waits for it is released.
RebalanceEnds == shared.pending ~> (~shared.pending \/ app.pc = "closed" \/ app.sub = {})

=============================================================================
