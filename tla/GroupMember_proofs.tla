------------------------- MODULE GroupMember_proofs -------------------------
(***************************************************************************)
(* Proofs about GroupMember, for every set of partitions, every protocol   *)
(* and membership and any number of faults, rebalances and calls.          *)
(***************************************************************************)
EXTENDS GroupMember, TLAPS

Kinds == {"Assigned", "Revoked", "Lost"}
CallRecords == [kind : Kinds, parts : SUBSET Partitions]
QueuedCalls == [kind : Kinds, parts : SUBSET Partitions, live : BOOLEAN]

TaskFields == {"pc", "next", "rnd", "id", "gen", "prepared", "rejoin", "lost", "owned", "new",
               "ngen", "hb", "wait", "joined", "known", "snapshot", "watched", "unseen", "call"}
SharedFields == {"assigned", "pending", "gate", "primed", "err"}
AppFields == {"pc", "sub", "changed", "unsubscribed", "enforced"}
BrokerFields == {"id", "fenced", "gen", "phase", "join", "claims", "topics", "mine", "other",
                 "leader", "exists", "minted"}

\* The part of the type invariant that the proofs need.
Shape ==
  /\ DOMAIN task = TaskFields /\ DOMAIN shared = SharedFields
  /\ DOMAIN app = AppFields /\ DOMAIN broker = BrokerFields
  /\ calls \in Seq(QueuedCalls) /\ task.call \in CallRecords
  /\ task.lost \subseteq Partitions /\ task.owned \subseteq Partitions
  /\ task.new \subseteq Partitions /\ shared.assigned \subseteq Partitions
  /\ app.sub \subseteq Partitions /\ broker.mine \subseteq Partitions
  /\ broker.topics \subseteq Partitions /\ broker.gen \in Nat /\ broker.minted \in Nat

-----------------------------------------------------------------------------
(* What the helpers of a rejoin change.                                    *)

\* The fields of the task that the invariants are about, but for the program counter and the
\* request to rejoin.
SameRejoin(u, t) ==
  /\ u.next = t.next /\ u.prepared = t.prepared /\ u.owned = t.owned /\ u.new = t.new
  /\ u.ngen = t.ngen /\ u.wait = t.wait /\ u.call = t.call
SameMember(u, t) == u.id = t.id /\ u.gen = t.gen /\ u.lost = t.lost

LEMMA EndedFields ==
  ASSUME NEW t, DOMAIN t = TaskFields, NEW pc
  PROVE  /\ DOMAIN Ended(t, pc) = TaskFields /\ SameMember(Ended(t, pc), t)
         /\ Ended(t, pc).pc = pc /\ Ended(t, pc).next = "none" /\ Ended(t, pc).wait = "none"
         /\ Ended(t, pc).call = NoCall /\ Ended(t, pc).owned = {} /\ Ended(t, pc).new = {}
         /\ Ended(t, pc).ngen = NoGen /\ Ended(t, pc).prepared = t.prepared
         /\ Ended(t, pc).rejoin = t.rejoin
BY DEF Ended, TaskFields, SameMember

LEMMA WithoutMemberFields ==
  ASSUME NEW t, DOMAIN t = TaskFields
  PROVE  /\ DOMAIN WithoutMember(t) = TaskFields /\ SameRejoin(WithoutMember(t), t)
         /\ WithoutMember(t).id = NoId /\ WithoutMember(t).gen = NoGen
         /\ WithoutMember(t).lost = t.lost \cup shared.assigned
         /\ WithoutMember(t).pc = t.pc /\ WithoutMember(t).rejoin = t.rejoin
BY DEF WithoutMember, TaskFields, SameRejoin

LEMMA RequestFields ==
  ASSUME NEW t, DOMAIN t = TaskFields
  PROVE  /\ DOMAIN RequestAfterNextPoll(t) = TaskFields /\ SameRejoin(RequestAfterNextPoll(t), t)
         /\ SameMember(RequestAfterNextPoll(t), t) /\ RequestAfterNextPoll(t).pc = t.pc
         /\ RequestAfterNextPoll(t).rejoin = IF t.rejoin = "none" THEN "afterPoll" ELSE t.rejoin
BY DEF RequestAfterNextPoll, TaskFields, SameRejoin, SameMember

LEMMA PolledFields ==
  ASSUME NEW t, DOMAIN t = TaskFields
  PROVE  /\ DOMAIN Polled(t) = TaskFields /\ SameRejoin(Polled(t), t)
         /\ SameMember(Polled(t), t) /\ Polled(t).pc = t.pc
BY DEF Polled, TaskFields, SameRejoin, SameMember

LEMMA BeginJoinFields ==
  ASSUME NEW t, DOMAIN t = TaskFields
  PROVE  /\ DOMAIN BeginJoin(t) = TaskFields /\ SameRejoin(BeginJoin(t), t)
         /\ SameMember(BeginJoin(t), t)
         /\ BeginJoin(t).pc = IF t.prepared THEN "SendJoin" ELSE "Prepare"
BY DEF BeginJoin, TaskFields, SameRejoin, SameMember

LEMMA GiveUpFields ==
  ASSUME DOMAIN shared = SharedFields
  PROVE  /\ DOMAIN GiveUp(shared) = SharedFields /\ GiveUp(shared).assigned = {}
         /\ GiveUp(shared).gate = shared.gate /\ GiveUp(shared).primed = shared.primed
BY DEF GiveUp, SharedFields

\* A call of the listener with these partitions is queued, and the task waits for it.
CallMade(kind, parts, next) ==
  /\ DOMAIN task' = TaskFields /\ task'.pc = "Call" /\ task'.next = next
  /\ task'.wait = "queued" /\ task'.call \in CallRecords
  /\ task'.call.kind = kind /\ task'.call.parts = parts
  /\ calls' \in Seq(QueuedCalls) /\ Len(calls') = Len(calls) + 1
  /\ calls'[Len(calls')].kind = kind /\ calls'[Len(calls')].parts = parts
  /\ calls'[Len(calls')].live
  /\ \A i \in DOMAIN calls' : i # Len(calls') => i \in DOMAIN calls /\ calls'[i] = calls[i]
  /\ \A i \in DOMAIN calls : i \in DOMAIN calls' /\ calls'[i] = calls[i] /\ i < Len(calls')

LEMMA CallListenerEffect ==
  ASSUME NEW t, DOMAIN t = TaskFields, NEW kind \in Kinds, NEW parts \in SUBSET Partitions,
         NEW next, calls \in Seq(QueuedCalls), CallListener(t, kind, parts, next)
  PROVE  /\ CallMade(kind, parts, next) /\ SameMember(task', t) /\ task'.prepared = t.prepared
         /\ task'.owned = t.owned /\ task'.new = t.new /\ task'.ngen = t.ngen
<1> DEFINE r == [kind |-> kind, parts |-> parts, live |-> TRUE]
<1>1. /\ task' = [t EXCEPT !.pc = "Call", !.next = next, !.wait = "queued", !.hb = "none",
                           !.call = [kind |-> kind, parts |-> parts]]
      /\ calls' = Append(calls, r)
  BY DEF CallListener
<1>2. /\ DOMAIN task' = TaskFields /\ task'.pc = "Call" /\ task'.next = next
      /\ task'.wait = "queued" /\ task'.call = [kind |-> kind, parts |-> parts]
      /\ SameMember(task', t) /\ task'.prepared = t.prepared /\ task'.owned = t.owned
      /\ task'.new = t.new /\ task'.ngen = t.ngen
  BY <1>1 DEF TaskFields, SameMember
<1>3. task'.call \in CallRecords /\ task'.call.kind = kind /\ task'.call.parts = parts
  BY <1>2 DEF CallRecords
<1>4. r \in QueuedCalls /\ r.kind = kind /\ r.parts = parts /\ r.live
  BY DEF QueuedCalls
<1> HIDE DEF r
<1>5. /\ calls' \in Seq(QueuedCalls) /\ Len(calls') = Len(calls) + 1
      /\ calls'[Len(calls')] = r
      /\ \A i \in DOMAIN calls' : i # Len(calls') => i \in DOMAIN calls /\ calls'[i] = calls[i]
      /\ \A i \in DOMAIN calls : i \in DOMAIN calls' /\ calls'[i] = calls[i] /\ i < Len(calls')
  BY <1>1, <1>4
<1> QED
  BY <1>2, <1>3, <1>4, <1>5 DEF CallMade

\* FenceMember.
LEMMA FenceEffect ==
  ASSUME Shape, FenceMember
  PROVE  /\ DOMAIN task' = TaskFields /\ DOMAIN shared' = SharedFields
         /\ task'.pc = "Fenced" /\ task'.next = "none" /\ task'.wait = "none"
         /\ task'.call = NoCall /\ task'.owned = {} /\ task'.new = {} /\ task'.ngen = NoGen
         /\ task'.prepared = task.prepared /\ task'.id = NoId /\ task'.gen = NoGen
         /\ task'.lost = task.lost \cup shared.assigned
         /\ shared'.assigned = {} /\ shared'.gate = {} /\ shared'.primed = shared.primed
         /\ UNCHANGED <<conf, app, calls, held, broker, left>>
<1> DEFINE w == WithoutMember(task)
           e == Ended(w, "Fenced")
<1>1. /\ DOMAIN w = TaskFields /\ SameRejoin(w, task) /\ w.id = NoId /\ w.gen = NoGen
      /\ w.lost = task.lost \cup shared.assigned
  BY WithoutMemberFields DEF Shape
<1> HIDE DEF w
<1>2. /\ DOMAIN e = TaskFields /\ SameMember(e, w) /\ e.pc = "Fenced" /\ e.next = "none"
      /\ e.wait = "none" /\ e.call = NoCall /\ e.owned = {} /\ e.new = {} /\ e.ngen = NoGen
      /\ e.prepared = w.prepared
  BY <1>1, EndedFields
<1>3. task' = [e EXCEPT !.unseen = FALSE] /\ UNCHANGED <<conf, app, calls, held, broker, left>>
  BY DEF FenceMember, e, w
<1> HIDE DEF e
<1>4. /\ DOMAIN task' = TaskFields /\ SameMember(task', e) /\ SameRejoin(task', e)
      /\ task'.pc = "Fenced"
  BY <1>2, <1>3 DEF TaskFields, SameMember, SameRejoin
<1>5. /\ DOMAIN shared' = SharedFields /\ shared'.assigned = {} /\ shared'.gate = {}
      /\ shared'.primed = shared.primed
  BY DEF FenceMember, GiveUp, Shape, SharedFields
<1> QED
  BY <1>1, <1>2, <1>3, <1>4, <1>5 DEF SameMember, SameRejoin

-----------------------------------------------------------------------------
(* What the steps do, by kind.                                             *)

\* A step that moves neither the rejoin, nor the membership, nor the listener.
Quiet ==
  /\ task'.pc = task.pc /\ SameRejoin(task', task) /\ SameMember(task', task)
  /\ shared'.assigned = shared.assigned /\ shared'.gate = shared.gate
  /\ shared'.primed = shared.primed /\ UNCHANGED <<conf, calls, held>>

\* The rejoin ends, and the gate opens.
Ends ==
  /\ task'.next = "none" /\ task'.wait = "none" /\ task'.call = NoCall /\ task'.owned = {}
  /\ task'.new = {} /\ task'.ngen = NoGen /\ task'.prepared = task.prepared
  /\ shared'.gate = {}

\* The member is forgotten: its partitions are remembered as lost.
Forgets ==
  /\ task'.id = NoId /\ task'.gen = NoGen /\ task'.lost = task.lost \cup shared.assigned
  /\ shared'.assigned = {} /\ shared'.primed = shared.primed

Keeps == /\ SameMember(task', task) /\ shared'.assigned = shared.assigned
         /\ shared'.primed = shared.primed

Formed == DOMAIN task' = TaskFields /\ DOMAIN shared' = SharedFields

QuietAction ==
  \/ PollStart \/ PollEnter \/ PollJoined \/ PollDeadline \/ PollReturn \/ Subscribe
  \/ EnforceRebalance \/ TaskPoll \/ MetadataCheck \/ TakeEnforced \/ HeartbeatInCall
  \/ Heartbeat /\ HeartbeatOutcome = "NeedRejoin"
  \/ BrokerStep \/ BStartRebalance \/ BEvict \/ BFence \/ BCreateTopic

\* The application is inside poll.
Polling == {"wait", "waiting", "fetch"}

LEMMA QuietEffect ==
  ASSUME Shape, QuietAction
  PROVE  /\ Formed /\ Quiet
         /\ app'.pc = "fetch" => \/ calls = <<>> /\ app.pc \in {"wait", "waiting"}
                                 \/ app.pc = "fetch"
         /\ app.pc = "fetch" /\ task.rejoin = "afterPoll" => task'.rejoin = "afterPoll"
         /\ app'.pc \in Polling => app'.sub = app.sub /\ (app.pc \in Polling \/ app.sub # {})
         /\ app'.pc = "closed" => app.pc = "closed"
<1> USE DEF Formed, Quiet, SameRejoin, SameMember, TaskFields, SharedFields, AppFields, Shape
<1>1. ASSUME PollStart \/ PollEnter
      PROVE  /\ Formed /\ Quiet /\ app.pc \in {"idle", "wait"} /\ app'.sub = app.sub
             /\ app'.pc = "fetch" => calls = <<>> /\ app.pc = "wait"
             /\ app'.pc # "closed" /\ (app.pc = "idle" => app.sub # {})
  BY <1>1 DEF PollStart, PollEnter, Polled, PolledApp
<1>2. ASSUME PollJoined \/ PollDeadline \/ PollReturn
      PROVE  /\ Formed /\ Quiet /\ app'.sub = app.sub /\ task' = task
             /\ app'.pc = "fetch" => calls = <<>> /\ app.pc = "waiting"
             /\ app'.pc # "closed" /\ app.pc \in Polling
  BY <1>2 DEF PollJoined, PollDeadline, PollReturn, Polling
<1>3. ASSUME Subscribe \/ EnforceRebalance
      PROVE  Formed /\ Quiet /\ app.pc = "idle" /\ app'.pc = "idle"
  BY <1>3 DEF Subscribe, EnforceRebalance, AppCall
<1>4. ASSUME \/ TaskPoll \/ MetadataCheck \/ TakeEnforced \/ HeartbeatInCall
             \/ Heartbeat /\ HeartbeatOutcome = "NeedRejoin"
      PROVE  /\ Formed /\ Quiet /\ app'.pc = app.pc /\ app'.sub = app.sub
             /\ task.rejoin = "afterPoll" => task'.rejoin = "afterPoll"
  <2>1. ASSUME TaskPoll \/ HeartbeatInCall
        PROVE  Formed /\ Quiet /\ app' = app /\ task'.rejoin = task.rejoin
    BY <2>1 DEF TaskPoll, HeartbeatInCall, TaskRest
  <2>2. ASSUME MetadataCheck
        PROVE  /\ Formed /\ Quiet /\ app' = app
               /\ task.rejoin = "afterPoll" => task'.rejoin = "afterPoll"
    BY <2>2 DEF MetadataCheck, RequestAfterNextPoll, TaskRest
  <2>3. ASSUME TakeEnforced
        PROVE  /\ Formed /\ Quiet /\ app'.pc = app.pc /\ app'.sub = app.sub
               /\ task.rejoin = "afterPoll" => task'.rejoin = "afterPoll"
    BY <2>3 DEF TakeEnforced
  <2>4. ASSUME Heartbeat, HeartbeatOutcome = "NeedRejoin"
        PROVE  /\ Formed /\ Quiet /\ app' = app
               /\ task.rejoin = "afterPoll" => task'.rejoin = "afterPoll"
    BY <2>4 DEF Heartbeat, RequestAfterNextPoll, TaskRest
  <2> QED
    BY <1>4, <2>1, <2>2, <2>3, <2>4
<1>5. ASSUME BrokerStep \/ BStartRebalance \/ BEvict \/ BFence \/ BCreateTopic
      PROVE  Formed /\ Quiet /\ app' = app /\ task' = task
  BY <1>5 DEF BrokerStep, BComplete, BAssign, BStartRebalance, BEvict, BFence, BCreateTopic,
              BrokerOnly
<1> QED
  BY <1>1, <1>2, <1>3, <1>4, <1>5 DEF QuietAction, Polling

\* A call of the listener leaves the queue: it ran, or its poll was cancelled.
Taken ==
  /\ app.pc \in {"wait", "waiting"} /\ calls # <<>> /\ calls' = Tail(calls)
  /\ Keeps /\ shared'.gate = shared.gate /\ task'.pc = task.pc /\ task'.next = task.next
  /\ task'.prepared = task.prepared /\ task'.owned = task.owned /\ task'.new = task.new
  /\ task'.ngen = task.ngen /\ task'.call = task.call /\ conf' = conf

LEMMA TakenEffect ==
  ASSUME Shape
  PROVE  /\ RunCall => /\ Formed /\ Taken /\ app' = app /\ held' = Told(held, Head(calls))
                       /\ task'.wait = IF Head(calls).live THEN "ran" ELSE task.wait
         /\ DropCall => /\ Formed /\ Taken /\ app'.pc = "idle" /\ held' = held
                        /\ task'.wait = IF Head(calls).live THEN "dropped" ELSE task.wait
                        /\ "cancel" \in Faults
BY DEF RunCall, DropCall, Spend, Taken, Formed, Keeps, SameMember, TaskFields, SharedFields,
       AppFields, Shape

LEMMA UnsubscribeEffect ==
  ASSUME Shape, Unsubscribe
  PROVE  /\ Formed /\ calls' = <<>> /\ task'.pc = task.pc /\ SameMember(task', task)
         /\ task'.next = task.next /\ task'.prepared = task.prepared /\ task'.owned = task.owned
         /\ task'.new = task.new /\ task'.ngen = task.ngen /\ task'.call = task.call
         /\ task'.wait = IF \E i \in DOMAIN calls : calls[i].live THEN "ran" ELSE task.wait
         /\ shared'.assigned = {} /\ shared'.primed = {} /\ shared'.gate = shared.gate
         /\ app.pc = "idle" /\ app'.pc = "idle" /\ app'.sub = {}
         /\ "unsubscribe" \in Calls /\ conf' = conf
BY DEF Unsubscribe, AppCall, LeavePrepare, RanAll, Formed, SameMember, TaskFields, SharedFields,
       AppFields, Shape

LEMMA CloseEffect ==
  ASSUME Shape, Close
  PROVE  /\ Formed /\ Ends /\ Keeps /\ calls' = <<>> /\ task'.pc = "Stopped"
         /\ app'.pc = "closed" /\ app'.sub = app.sub /\ conf' = conf
<1>1. DOMAIN task' = TaskFields /\ Ends /\ SameMember(task', task) /\ task'.pc = "Stopped"
  BY EndedFields DEF Close, Ends, Shape, SharedFields
<1> QED
  BY <1>1 DEF Close, LeavePrepare, Formed, Keeps, Shape, SharedFields, AppFields

LEMMA SubscriptionEffect ==
  ASSUME Shape, HandleSubscriptionChange
  PROVE  /\ Formed /\ task.pc = "Idle" /\ task'.pc = "Idle" /\ SameRejoin(task', task)
         /\ shared'.gate = shared.gate /\ shared'.primed = shared.primed
         /\ \/ /\ app.unsubscribed /\ task'.id = NoId /\ task'.gen = NoGen /\ task'.lost = {}
               /\ shared'.assigned = {}
            \/ ~app.unsubscribed /\ Keeps
         /\ app'.pc = app.pc /\ app'.sub = app.sub /\ ~app'.unsubscribed
         /\ app.sub # {} /\ task.rejoin = "afterPoll" => task'.rejoin = "afterPoll"
         /\ UNCHANGED <<conf, calls, held>>
<1> DEFINE gone == [task EXCEPT !.id = NoId, !.gen = NoGen, !.lost = {}, !.rejoin = "none"]
           t == IF app.unsubscribed THEN gone ELSE task
           request == app.sub # {} /\ (app.sub # t.joined \/ t.id = NoId)
<1>1. /\ DOMAIN gone = TaskFields /\ SameRejoin(gone, task) /\ gone.id = NoId
      /\ gone.gen = NoGen /\ gone.lost = {} /\ gone.rejoin = "none" /\ gone.pc = task.pc
  BY DEF Shape, TaskFields, SameRejoin
<1>2. /\ task.pc = "Idle" /\ UNCHANGED <<conf, calls, held>>
      /\ app' = [app EXCEPT !.changed = FALSE, !.unsubscribed = FALSE]
      /\ task' = CASE app.sub = {} -> t
                   [] app.sub # {} /\ ~request -> [t EXCEPT !.watched = app.sub]
                   [] request -> [RequestAfterNextPoll(t) EXCEPT
                                  !.watched = app.sub,
                                  !.known = IF app.sub # t.joined
                                              THEN broker.exists \cap app.sub ELSE @]
  BY DEF HandleSubscriptionChange
<1>3. /\ DOMAIN shared' = SharedFields /\ shared'.gate = shared.gate
      /\ shared'.primed = shared.primed
      /\ shared'.assigned = IF app.unsubscribed THEN {} ELSE shared.assigned
  BY DEF HandleSubscriptionChange, Shape, SharedFields
<1>4. /\ DOMAIN t = TaskFields /\ SameRejoin(t, task) /\ t.pc = task.pc
      /\ app.unsubscribed => t.id = NoId /\ t.gen = NoGen /\ t.lost = {} /\ t.rejoin = "none"
      /\ ~app.unsubscribed => t = task
  BY <1>1 DEF Shape, SameRejoin
<1> DEFINE r == RequestAfterNextPoll(t)
<1> HIDE DEF t
<1>5. /\ DOMAIN r = TaskFields /\ SameRejoin(r, t) /\ SameMember(r, t) /\ r.pc = t.pc
      /\ r.rejoin = IF t.rejoin = "none" THEN "afterPoll" ELSE t.rejoin
  BY <1>4, RequestFields
<1>6. /\ DOMAIN task' = TaskFields /\ SameRejoin(task', t) /\ SameMember(task', t)
      /\ task'.pc = t.pc /\ task'.rejoin = IF request THEN r.rejoin ELSE t.rejoin
  <2>1. CASE ~request
    BY <1>2, <1>4, <2>1 DEF SameRejoin, SameMember, TaskFields
  <2>2. CASE request
    <3>1. \E w, k : task' = [r EXCEPT !.watched = w, !.known = k]
      BY <1>2, <2>2
    <3> HIDE DEF r
    <3> QED
      BY <1>5, <2>2, <3>1 DEF SameRejoin, SameMember, TaskFields
  <2> QED
    BY <2>1, <2>2
<1>7. /\ app'.pc = app.pc /\ app'.sub = app.sub /\ ~app'.unsubscribed
  BY <1>2 DEF Shape, AppFields
<1>8. app.sub # {} /\ task.rejoin = "afterPoll" => task'.rejoin = "afterPoll"
  BY <1>4, <1>5, <1>6
<1> QED
  BY <1>2, <1>3, <1>4, <1>6, <1>7, <1>8 DEF Formed, Keeps, SameMember, SameRejoin

\* A heartbeat that tells that the member is unknown or fenced.
LEMMA HeartbeatEffect ==
  ASSUME Shape, Heartbeat, HeartbeatOutcome # "NeedRejoin"
  PROVE  /\ task.pc = "Idle" /\ task.id # NoId
         /\ \/ FenceMember
            \/ /\ Formed /\ Forgets /\ task'.pc = "Idle" /\ SameRejoin(task', task)
               /\ shared'.gate = shared.gate /\ UNCHANGED <<conf, app, calls, held, broker>>
<1> DEFINE w == WithoutMember(task)
<1>1. /\ DOMAIN w = TaskFields /\ SameRejoin(w, task) /\ w.id = NoId /\ w.gen = NoGen
      /\ w.lost = task.lost \cup shared.assigned /\ w.pc = task.pc
  BY WithoutMemberFields DEF Shape
<1>2. /\ task.pc = "Idle" /\ task.id # NoId
      /\ \/ FenceMember
         \/ /\ task' = RequestAfterNextPoll(w) /\ shared' = GiveUp(shared)
            /\ UNCHANGED <<conf, app, calls, held, broker>>
  BY DEF Heartbeat, TaskRest
<1> HIDE DEF w
<1>3. CASE task' = RequestAfterNextPoll(w) /\ shared' = GiveUp(shared)
           /\ UNCHANGED <<conf, app, calls, held, broker>>
  <2>1. DOMAIN task' = TaskFields /\ SameRejoin(task', w) /\ SameMember(task', w) /\ task'.pc = w.pc
    BY <1>1, <1>3, RequestFields
  <2> QED
    BY <1>1, <1>2, <1>3, <2>1, GiveUpFields DEF Shape, Formed, Forgets, SameRejoin, SameMember
<1> QED
  BY <1>2, <1>3

\* The member leaves because no poll came in time.
LEMMA LeaveEffect ==
  ASSUME Shape, NEW t, DOMAIN t = TaskFields, t.prepared = task.prepared, t.lost = task.lost,
         LeaveOnPollTimeout(RequestAfterNextPoll(t))
  PROVE  /\ Formed /\ Ends /\ Forgets /\ task'.pc = "Idle"
         /\ task'.rejoin = IF t.rejoin = "none" THEN "afterPoll" ELSE t.rejoin
<1> DEFINE r == RequestAfterNextPoll(t)
           w == WithoutMember(r)
<1>1. /\ DOMAIN r = TaskFields /\ SameRejoin(r, t) /\ SameMember(r, t)
      /\ r.rejoin = IF t.rejoin = "none" THEN "afterPoll" ELSE t.rejoin
  BY RequestFields
<1> HIDE DEF r
<1>2. /\ DOMAIN w = TaskFields /\ SameRejoin(w, r) /\ w.id = NoId /\ w.gen = NoGen
      /\ w.lost = r.lost \cup shared.assigned /\ w.rejoin = r.rejoin
  BY <1>1, WithoutMemberFields
<1>3. task' = Ended(w, "Idle") /\ shared' = [GiveUp(shared) EXCEPT !.gate = {}]
  BY DEF LeaveOnPollTimeout, w, r
<1> HIDE DEF w
<1>4. /\ DOMAIN task' = TaskFields /\ SameMember(task', w) /\ task'.pc = "Idle"
      /\ task'.next = "none" /\ task'.wait = "none" /\ task'.call = NoCall /\ task'.owned = {}
      /\ task'.new = {} /\ task'.ngen = NoGen /\ task'.prepared = w.prepared
      /\ task'.rejoin = w.rejoin
  BY <1>2, <1>3, EndedFields
<1>5. /\ DOMAIN shared' = SharedFields /\ shared'.assigned = {} /\ shared'.gate = {}
      /\ shared'.primed = shared.primed
  BY <1>3, GiveUpFields DEF Shape, SharedFields
<1> QED
  BY <1>1, <1>2, <1>4, <1>5 DEF Formed, Ends, Forgets, SameRejoin, SameMember

LEMMA PollTimeoutEffect ==
  ASSUME Shape, PollTimeout
  PROVE  /\ Formed /\ Ends /\ Forgets /\ task.pc = "Idle" /\ task'.pc = "Idle" /\ task.id # NoId
         /\ UNCHANGED <<conf, app, calls, held>>
BY LeaveEffect DEF PollTimeout, Shape

LEMMA CallTimeoutEffect ==
  ASSUME Shape, CallTimeout
  PROVE  /\ Formed /\ Ends /\ Forgets /\ task.pc = "Call" /\ task.wait = "queued"
         /\ task'.pc = "Idle" /\ task'.rejoin = "afterPoll"
         /\ DOMAIN calls' = DOMAIN calls /\ Len(calls') = Len(calls)
         /\ calls' \in Seq(QueuedCalls)
         /\ \A i \in DOMAIN calls : /\ calls'[i].kind = calls[i].kind
                                    /\ calls'[i].parts = calls[i].parts /\ ~calls'[i].live
         /\ UNCHANGED <<conf, app, held>>
<1> DEFINE t == [task EXCEPT !.rejoin = "none"]
           D(i) == [calls[i] EXCEPT !.live = FALSE]
<1>1. DOMAIN t = TaskFields /\ t.prepared = task.prepared /\ t.lost = task.lost /\ t.rejoin = "none"
  BY DEF Shape, TaskFields
<1>2. /\ LeaveOnPollTimeout(RequestAfterNextPoll(t)) /\ task.pc = "Call" /\ task.wait = "queued"
      /\ calls' = [i \in DOMAIN calls |-> D(i)] /\ UNCHANGED <<conf, app, held>>
  BY DEF CallTimeout
<1> HIDE DEF t
<1>3. Formed /\ Ends /\ Forgets /\ task'.pc = "Idle" /\ task'.rejoin = "afterPoll"
  BY <1>1, <1>2, LeaveEffect
<1>4. \A i \in DOMAIN calls : /\ D(i) \in QueuedCalls /\ D(i).kind = calls[i].kind
                              /\ D(i).parts = calls[i].parts /\ ~D(i).live
  <2>1. \A i \in DOMAIN calls : calls[i] \in QueuedCalls
    BY DEF Shape
  <2> QED
    BY <2>1 DEF QueuedCalls
<1> HIDE DEF D
<1>5. /\ calls' \in Seq(QueuedCalls) /\ DOMAIN calls' = DOMAIN calls /\ Len(calls') = Len(calls)
      /\ \A i \in DOMAIN calls : calls'[i] = D(i)
  <2>1. calls \in Seq(QueuedCalls) /\ DOMAIN calls = 1..Len(calls) /\ Len(calls) \in Nat
    BY DEF Shape
  <2>2. calls' = [i \in 1..Len(calls) |-> D(i)] /\ \A i \in 1..Len(calls) : D(i) \in QueuedCalls
    BY <1>2, <1>4, <2>1
  <2> QED
    BY <2>1, <2>2
<1> QED
  BY <1>2, <1>3, <1>4, <1>5

LEMMA StartEffect ==
  ASSUME Shape, StartRejoin \/ FencedWake
  PROVE  /\ Formed /\ SameRejoin(task', task) /\ Keeps /\ shared'.gate = shared.gate
         /\ \/ task.pc = "Idle" /\ task.rejoin = "due"
            \/ task.pc = "Fenced"
         /\ task'.pc \in {"Fenced", "Idle", "Prepare"} \/ (task'.pc = "SendJoin" /\ task.prepared)
         /\ UNCHANGED <<conf, app, calls, held, broker>>
<1>1. CASE StartRejoin
  <2> DEFINE t == [task EXCEPT !.unseen = FALSE]
  <2>1. DOMAIN t = TaskFields /\ SameRejoin(t, task) /\ SameMember(t, task)
    BY DEF Shape, TaskFields, SameRejoin, SameMember
  <2>2. /\ task' = BeginJoin(t) /\ task.pc = "Idle" /\ task.rejoin = "due" /\ shared' = shared
        /\ UNCHANGED <<conf, app, calls, held, broker>>
    BY <1>1 DEF StartRejoin, TaskRest
  <2> HIDE DEF t
  <2>3. /\ DOMAIN task' = TaskFields /\ SameRejoin(task', t) /\ SameMember(task', t)
        /\ task'.pc = IF t.prepared THEN "SendJoin" ELSE "Prepare"
    BY <2>1, <2>2, BeginJoinFields
  <2> QED
    BY <2>1, <2>2, <2>3 DEF Formed, Keeps, SameRejoin, SameMember, Shape
<1>2. CASE FencedWake
  BY <1>2 DEF FencedWake, TaskRest, Formed, Keeps, SameRejoin, SameMember, Shape, TaskFields,
              SharedFields
<1> QED
  BY <1>1, <1>2

\* join_prepare before the call of the listener: the member is as it was, or is forgotten.
Prepared(lost) ==
  \/ /\ task'.id = task.id /\ task'.gen = task.gen /\ lost = task.lost
     /\ shared'.assigned = shared.assigned
  \/ /\ task'.id = NoId /\ task'.gen = NoGen /\ lost = task.lost \cup shared.assigned
     /\ shared'.assigned = {}

\* join_prepare of a member that is not fenced: what the listener is told, if anything.
JoinPrepared ==
  /\ Formed /\ task'.prepared /\ task'.owned = task.owned /\ task'.ngen = task.ngen
  /\ shared'.gate = shared.gate /\ shared'.primed = shared.primed
  /\ UNCHANGED <<conf, app, held, broker>>
  /\ \E lost \in SUBSET Partitions :
       /\ Prepared(lost)
       /\ \/ /\ CallMade("Lost", lost, "join") /\ task'.lost = {}
             /\ task'.new = task.new /\ (task'.id = NoId \/ task'.gen = NoGen)
          \/ /\ Eager /\ task'.id # NoId /\ task'.gen # NoGen
             /\ CallMade("Revoked", shared'.assigned, "join")
             /\ task'.lost = lost /\ task'.new = task.new
          \/ /\ ~Eager /\ task'.id # NoId /\ task'.gen # NoGen /\ task'.lost = lost
             /\ CallMade("Revoked", shared'.assigned \ app.sub, "kept")
             /\ task'.new = shared'.assigned \ (shared'.assigned \ app.sub)
          \/ /\ task'.pc = "SendJoin" /\ task'.lost = lost /\ task'.new = task.new
             /\ task'.next = task.next /\ task'.wait = task.wait
             /\ task'.call = task.call /\ calls' = calls
             /\ task'.id # NoId /\ task'.gen # NoGen => ~Eager
             /\ task'.id = NoId \/ task'.gen = NoGen => lost = {}

LEMMA JoinPrepareEffect ==
  ASSUME Shape, JoinPrepare
  PROVE  task.pc = "Prepare" /\ (FenceMember \/ JoinPrepared)
<1>1. /\ task.pc = "Prepare" /\ DOMAIN task = TaskFields /\ DOMAIN shared = SharedFields
      /\ calls \in Seq(QueuedCalls) /\ task.lost \subseteq Partitions
      /\ shared.assigned \subseteq Partitions
  BY DEF JoinPrepare, Shape
<1> SUFFICES ASSUME ~FenceMember PROVE JoinPrepared
  BY <1>1
<1> DEFINE T(f) == [(IF f THEN WithoutMember(task) ELSE task) EXCEPT !.prepared = TRUE]
           S(f) == IF f THEN GiveUp(shared) ELSE shared
           G(f) == S(f).assigned \ app.sub
<1>2. PICK f \in BOOLEAN :
        /\ shared' = S(f)
        /\ \/ /\ T(f).id = NoId \/ T(f).gen = NoGen
              /\ CallListener([T(f) EXCEPT !.lost = {}], "Lost", T(f).lost, "join")
           \/ /\ T(f).id # NoId /\ T(f).gen # NoGen /\ Eager
              /\ CallListener(T(f), "Revoked", S(f).assigned, "join")
           \/ /\ T(f).id # NoId /\ T(f).gen # NoGen /\ ~Eager
              /\ CallListener([T(f) EXCEPT !.new = S(f).assigned \ G(f)], "Revoked", G(f), "kept")
           \/ /\ T(f).id # NoId /\ T(f).gen # NoGen => ~Eager
              /\ T(f).id = NoId \/ T(f).gen = NoGen => T(f).lost = {}
              /\ task' = [T(f) EXCEPT !.pc = "SendJoin"] /\ TaskRest
  <2>1. PICK f \in {FALSE, Unknown(task)} :
          /\ shared' = S(f)
          /\ CASE (T(f).id = NoId \/ T(f).gen = NoGen) /\ T(f).lost # {} ->
                    CallListener([T(f) EXCEPT !.lost = {}], "Lost", T(f).lost, "join")
               [] (T(f).id # NoId /\ T(f).gen # NoGen) /\ Eager ->
                    CallListener(T(f), "Revoked", S(f).assigned, "join")
               [] (T(f).id # NoId /\ T(f).gen # NoGen) /\ ~Eager /\ G(f) # {} ->
                    CallListener([T(f) EXCEPT !.new = S(f).assigned \ G(f)], "Revoked", G(f),
                                 "kept")
               [] OTHER -> task' = [T(f) EXCEPT !.pc = "SendJoin"] /\ TaskRest
    BY DEF JoinPrepare
  <2>2. f \in BOOLEAN
    BY DEF Unknown
  <2> HIDE DEF T, S, G
  <2> QED
    BY <2>1, <2>2
<1> DEFINE t == T(f)
           s == S(f)
<1>3. /\ DOMAIN t = TaskFields /\ t.prepared /\ t.owned = task.owned /\ t.ngen = task.ngen
      /\ t.new = task.new /\ t.next = task.next /\ t.wait = task.wait /\ t.call = task.call
      /\ \/ ~f /\ SameMember(t, task)
         \/ f /\ t.id = NoId /\ t.gen = NoGen /\ t.lost = task.lost \cup shared.assigned
  <2>1. CASE f
    <3> DEFINE w == WithoutMember(task)
    <3>1. /\ DOMAIN w = TaskFields /\ SameRejoin(w, task) /\ w.id = NoId /\ w.gen = NoGen
          /\ w.lost = task.lost \cup shared.assigned
      BY <1>1, WithoutMemberFields
    <3>2. t = [w EXCEPT !.prepared = TRUE]
      BY <2>1
    <3> HIDE DEF w, t
    <3> QED
      BY <2>1, <3>1, <3>2 DEF SameRejoin, TaskFields
  <2>2. CASE ~f
    BY <1>1, <2>2 DEF SameMember, TaskFields
  <2> QED
    BY <2>1, <2>2
<1>4. /\ DOMAIN s = SharedFields /\ s.gate = shared.gate /\ s.primed = shared.primed
      /\ \/ ~f /\ s.assigned = shared.assigned
         \/ f /\ s.assigned = {}
  BY <1>1, GiveUpFields
<1>5. /\ shared' = s
      /\ \/ /\ t.id = NoId \/ t.gen = NoGen
            /\ CallListener([t EXCEPT !.lost = {}], "Lost", t.lost, "join")
         \/ /\ t.id # NoId /\ t.gen # NoGen /\ Eager
            /\ CallListener(t, "Revoked", s.assigned, "join")
         \/ /\ t.id # NoId /\ t.gen # NoGen /\ ~Eager
            /\ CallListener([t EXCEPT !.new = s.assigned \ (s.assigned \ app.sub)], "Revoked",
                            s.assigned \ app.sub, "kept")
         \/ /\ t.id # NoId /\ t.gen # NoGen => ~Eager
            /\ t.id = NoId \/ t.gen = NoGen => t.lost = {}
            /\ task' = [t EXCEPT !.pc = "SendJoin"] /\ TaskRest
  BY <1>2
<1> HIDE DEF t, s, T, S, G
<1>6. t.lost \in SUBSET Partitions /\ s.assigned \in SUBSET Partitions
  BY <1>1, <1>3, <1>4 DEF SameMember
<1>7. CASE /\ t.id = NoId \/ t.gen = NoGen
           /\ CallListener([t EXCEPT !.lost = {}], "Lost", t.lost, "join")
  <2> DEFINE u == [t EXCEPT !.lost = {}]
  <2>1. /\ DOMAIN u = TaskFields /\ u.lost = {} /\ SameRejoin(u, t) /\ u.id = t.id /\ u.gen = t.gen
    BY <1>3 DEF TaskFields, SameRejoin
  <2>2. CallListener(u, "Lost", t.lost, "join") /\ UNCHANGED <<conf, app, held, broker>>
    BY <1>7 DEF CallListener
  <2> HIDE DEF u
  <2>3. /\ CallMade("Lost", t.lost, "join") /\ SameMember(task', u) /\ task'.prepared = u.prepared
        /\ task'.owned = u.owned /\ task'.new = u.new /\ task'.ngen = u.ngen
    BY <1>1, <1>6, <2>1, <2>2, CallListenerEffect DEF Kinds
  <2>4. DOMAIN task' = TaskFields
    BY <2>3 DEF CallMade
  <2>5. Prepared(t.lost)
    BY <1>3, <1>4, <1>5, <2>1, <2>3 DEF Prepared, SameMember
  <2> QED
    BY <1>3, <1>4, <1>5, <1>6, <1>7, <2>1, <2>2, <2>3, <2>4, <2>5
       DEF JoinPrepared, Formed, SameMember, SameRejoin
<1>8. CASE t.id # NoId /\ t.gen # NoGen /\ Eager /\ CallListener(t, "Revoked", s.assigned, "join")
  <2>1. UNCHANGED <<conf, app, held, broker>>
    BY <1>8 DEF CallListener
  <2>2. /\ CallMade("Revoked", s.assigned, "join") /\ SameMember(task', t)
        /\ task'.prepared = t.prepared
        /\ task'.owned = t.owned /\ task'.new = t.new /\ task'.ngen = t.ngen
    BY <1>1, <1>3, <1>6, <1>8, CallListenerEffect DEF Kinds
  <2>3. DOMAIN task' = TaskFields
    BY <2>2 DEF CallMade
  <2>4. Prepared(t.lost)
    BY <1>3, <1>4, <1>5, <2>2 DEF Prepared, SameMember
  <2> QED
    BY <1>3, <1>4, <1>5, <1>6, <1>8, <2>1, <2>2, <2>3, <2>4
       DEF JoinPrepared, Formed, SameMember
<1>9. CASE /\ t.id # NoId /\ t.gen # NoGen /\ ~Eager
           /\ CallListener([t EXCEPT !.new = s.assigned \ (s.assigned \ app.sub)], "Revoked",
                           s.assigned \ app.sub, "kept")
  <2> DEFINE u == [t EXCEPT !.new = s.assigned \ (s.assigned \ app.sub)]
             g == s.assigned \ app.sub
  <2>1. /\ DOMAIN u = TaskFields /\ u.new = s.assigned \ g /\ SameMember(u, t)
        /\ u.prepared = t.prepared /\ u.owned = t.owned /\ u.ngen = t.ngen
    BY <1>3 DEF TaskFields, SameMember
  <2>2. CallListener(u, "Revoked", g, "kept") /\ UNCHANGED <<conf, app, held, broker>>
    BY <1>9 DEF CallListener
  <2>3. g \in SUBSET Partitions /\ g = shared'.assigned \ app.sub
    BY <1>5, <1>6
  <2> HIDE DEF u, g
  <2>4. /\ CallMade("Revoked", g, "kept") /\ SameMember(task', u) /\ task'.prepared = u.prepared
        /\ task'.owned = u.owned /\ task'.new = u.new /\ task'.ngen = u.ngen
    BY <1>1, <2>1, <2>2, <2>3, CallListenerEffect DEF Kinds
  <2>5. DOMAIN task' = TaskFields
    BY <2>4 DEF CallMade
  <2>6. Prepared(t.lost)
    BY <1>3, <1>4, <1>5, <2>1, <2>4 DEF Prepared, SameMember
  <2> QED
    BY <1>3, <1>4, <1>5, <1>6, <1>9, <2>1, <2>2, <2>3, <2>4, <2>5, <2>6
       DEF JoinPrepared, Formed, SameMember
<1>10. CASE /\ t.id # NoId /\ t.gen # NoGen => ~Eager
            /\ t.id = NoId \/ t.gen = NoGen => t.lost = {}
            /\ task' = [t EXCEPT !.pc = "SendJoin"] /\ TaskRest
  <2>1. /\ DOMAIN task' = TaskFields /\ SameRejoin(task', t) /\ SameMember(task', t)
        /\ task'.pc = "SendJoin" /\ calls' = calls /\ UNCHANGED <<conf, app, held, broker>>
    BY <1>3, <1>10 DEF TaskFields, TaskRest, SameRejoin, SameMember
  <2>2. Prepared(t.lost)
    BY <1>3, <1>4, <1>5, <2>1 DEF Prepared, SameMember
  <2> QED
    BY <1>3, <1>4, <1>5, <1>6, <1>10, <2>1, <2>2
       DEF JoinPrepared, Formed, SameMember, SameRejoin
<1> QED
  BY <1>5, <1>7, <1>8, <1>9, <1>10

Nexts == {"join", "kept", "add", "round2", "finish"}

\* What follows a listener call, when the member then owns asg.
Resumed(asg) ==
  /\ Formed /\ task'.wait = "none" /\ task'.call = NoCall /\ task'.next = "none"
  /\ task'.prepared = task.prepared
  /\ \/ /\ task.next = "join" /\ task'.pc = "SendJoin"
        /\ task'.owned = task.owned /\ task'.new = task.new /\ task'.ngen = task.ngen
        /\ shared'.assigned = asg /\ shared'.gate = shared.gate /\ shared'.primed = shared.primed
     \/ /\ task.next = "kept" /\ task'.pc = "SendJoin"
        /\ task'.owned = task.owned /\ task'.new = {} /\ task'.ngen = task.ngen
        /\ shared'.assigned = task.new /\ shared'.gate = shared.gate
        /\ shared'.primed = shared.primed
     \/ /\ task.next = "add" /\ task'.pc = "Prime"
        /\ task'.owned = task.owned /\ task'.new = task.new /\ task'.ngen = task.ngen
        /\ shared'.assigned = asg /\ shared'.gate = shared.gate /\ shared'.primed = shared.primed
     \/ /\ task.next = "round2" /\ task'.pc = (IF task.prepared THEN "SendJoin" ELSE "Prepare")
        /\ task'.owned = task.owned /\ task'.new = task.new /\ task'.ngen = task.ngen
        /\ shared'.assigned = asg /\ shared'.gate = {}
        /\ shared'.primed = shared.primed \ (task.owned \ task.new)
     \/ /\ task.next = "finish" /\ task'.pc = "Idle"
        /\ task'.owned = {} /\ task'.new = {} /\ task'.ngen = NoGen
        /\ shared'.assigned = asg /\ shared'.gate = {} /\ shared'.primed = shared.primed

LEMMA ContinueEffect ==
  ASSUME NEW t, DOMAIN t = TaskFields, SameRejoin(t, task),
         NEW s, DOMAIN s = SharedFields, s.gate = shared.gate, s.primed = shared.primed,
         task.next \in Nexts, Continue(t, s)
  PROVE  Resumed(s.assigned) /\ SameMember(task', t)
<1> DEFINE back == [t EXCEPT !.call = NoCall, !.next = "none", !.wait = "none", !.hb = "none"]
<1>1. /\ DOMAIN back = TaskFields /\ back.call = NoCall /\ back.next = "none"
      /\ back.wait = "none" /\ back.prepared = task.prepared /\ back.owned = task.owned
      /\ back.new = task.new /\ back.ngen = task.ngen /\ SameMember(back, t)
  BY DEF TaskFields, SameRejoin, SameMember
<1>2. t.next = task.next /\ t.new = task.new /\ t.owned = task.owned /\ t.prepared = task.prepared
  BY DEF SameRejoin
<1>3. CASE task.next \in {"join", "add"}
  <2>1. /\ shared' = s
        /\ task' = [back EXCEPT !.pc = IF task.next = "join" THEN "SendJoin" ELSE "Prime"]
    BY <1>2, <1>3 DEF Continue, StepAfter
  <2> HIDE DEF back
  <2> QED
    BY <1>1, <1>3, <2>1 DEF TaskFields, Resumed, Formed, SameMember
<1>4. CASE task.next = "kept"
  <2>1. /\ shared' = [s EXCEPT !.assigned = task.new]
        /\ task' = [back EXCEPT !.pc = "SendJoin", !.new = {}]
    BY <1>2, <1>4 DEF Continue
  <2> HIDE DEF back
  <2>2. /\ DOMAIN task' = TaskFields /\ task'.pc = "SendJoin" /\ task'.new = {}
        /\ task'.owned = task.owned /\ task'.ngen = task.ngen /\ task'.wait = "none"
        /\ task'.call = NoCall /\ task'.next = "none" /\ task'.prepared = task.prepared
        /\ SameMember(task', t)
    BY <1>1, <2>1 DEF TaskFields, SameMember
  <2>3. /\ DOMAIN shared' = SharedFields /\ shared'.assigned = task.new
        /\ shared'.gate = shared.gate /\ shared'.primed = shared.primed
    BY <2>1 DEF SharedFields
  <2> QED
    BY <1>4, <2>2, <2>3 DEF Resumed, Formed
<1>5. CASE task.next = "round2"
  <2> DEFINE u == [back EXCEPT !.rnd = 2]
  <2>1. /\ shared' = [s EXCEPT !.gate = {}, !.primed = @ \ (task.owned \ task.new)]
        /\ task' = BeginJoin(u)
    BY <1>2, <1>5 DEF Continue
  <2> HIDE DEF back
  <2>2. /\ DOMAIN u = TaskFields /\ SameRejoin(u, back) /\ SameMember(u, back)
    BY <1>1 DEF TaskFields, SameRejoin, SameMember
  <2> HIDE DEF u
  <2>3. /\ DOMAIN task' = TaskFields /\ SameRejoin(task', u) /\ SameMember(task', u)
        /\ task'.pc = IF u.prepared THEN "SendJoin" ELSE "Prepare"
    BY <2>1, <2>2, BeginJoinFields
  <2>4. /\ DOMAIN shared' = SharedFields /\ shared'.gate = {} /\ shared'.assigned = s.assigned
        /\ shared'.primed = shared.primed \ (task.owned \ task.new)
    BY <2>1 DEF SharedFields
  <2> QED
    BY <1>1, <1>5, <2>2, <2>3, <2>4 DEF Resumed, Formed, SameRejoin, SameMember
<1>6. CASE task.next = "finish"
  <2> DEFINE e == Ended(t, "Idle")
  <2>1. /\ shared' = [s EXCEPT !.gate = {}, !.pending = FALSE]
        /\ task' = [e EXCEPT !.rejoin = "none", !.known = @ \cup t.snapshot]
    BY <1>2, <1>6 DEF Continue, Complete
  <2>2. /\ DOMAIN e = TaskFields /\ SameMember(e, t) /\ e.pc = "Idle" /\ e.next = "none"
        /\ e.wait = "none" /\ e.call = NoCall /\ e.owned = {} /\ e.new = {} /\ e.ngen = NoGen
        /\ e.prepared = t.prepared
    BY EndedFields
  <2> HIDE DEF e
  <2>3. /\ DOMAIN task' = TaskFields /\ SameMember(task', t) /\ SameRejoin(task', e)
        /\ task'.pc = "Idle"
    BY <2>1, <2>2 DEF TaskFields, SameMember, SameRejoin
  <2>4. /\ DOMAIN shared' = SharedFields /\ shared'.gate = {} /\ shared'.assigned = s.assigned
        /\ shared'.primed = shared.primed
    BY <2>1 DEF SharedFields
  <2> QED
    BY <1>2, <1>6, <2>2, <2>3, <2>4 DEF Resumed, Formed, SameRejoin
<1> QED
  BY <1>3, <1>4, <1>5, <1>6 DEF Nexts

\* The end of call_listener.
LEMMA CallReturnsEffect ==
  ASSUME Shape, task.next \in Nexts, CallReturns
  PROVE  /\ task.pc = "Call" /\ task.wait \in {"ran", "dropped"}
         /\ \/ FenceMember
            \/ /\ Resumed({}) /\ task'.id = NoId /\ task'.gen = NoGen
               /\ task'.lost = task.lost \cup shared.assigned /\ task.hb = "unknown"
               /\ UNCHANGED <<conf, app, calls, held, broker>>
            \/ /\ Resumed(shared.assigned) /\ SameMember(task', task) /\ task.wait = "ran"
               /\ UNCHANGED <<conf, app, calls, held, broker>>
            \/ /\ CallMade(task.call.kind, task.call.parts, task.next) /\ shared' = shared
               /\ SameMember(task', task) /\ task'.prepared = task.prepared
               /\ task'.owned = task.owned /\ task'.new = task.new /\ task'.ngen = task.ngen
               /\ task.wait = "dropped" /\ UNCHANGED <<conf, app, held, broker>>
<1> DEFINE w == WithoutMember(task)
           g == GiveUp(shared)
<1>1. /\ DOMAIN w = TaskFields /\ SameRejoin(w, task) /\ w.id = NoId /\ w.gen = NoGen
      /\ w.lost = task.lost \cup shared.assigned
  BY WithoutMemberFields DEF Shape
<1>2. /\ DOMAIN g = SharedFields /\ g.assigned = {} /\ g.gate = shared.gate
      /\ g.primed = shared.primed
  BY GiveUpFields DEF Shape
<1>3. /\ task.pc = "Call" /\ task.wait \in {"ran", "dropped"}
      /\ \/ FenceMember
         \/ /\ Continue(w, g) /\ task.hb = "unknown"
            /\ UNCHANGED <<conf, app, calls, held, broker>>
         \/ /\ Continue(task, shared) /\ task.wait = "ran"
            /\ UNCHANGED <<conf, app, calls, held, broker>>
         \/ Resend
  BY DEF CallReturns, TaskRest
<1> HIDE DEF w, g
<1>4. CASE /\ Continue(w, g) /\ task.hb = "unknown"
           /\ UNCHANGED <<conf, app, calls, held, broker>>
  <2>1. Resumed(g.assigned) /\ SameMember(task', w)
    BY <1>1, <1>2, <1>4, ContinueEffect
  <2>2. Resumed({})
    BY <1>2, <2>1
  <2> QED
    BY <1>1, <1>3, <1>4, <2>1, <2>2 DEF SameMember
<1>5. CASE /\ Continue(task, shared) /\ task.wait = "ran"
           /\ UNCHANGED <<conf, app, calls, held, broker>>
  <2>1. SameRejoin(task, task)
    BY DEF SameRejoin
  <2>2. Resumed(shared.assigned) /\ SameMember(task', task)
    BY <1>5, <2>1, ContinueEffect DEF Shape
  <2> QED
    BY <1>3, <1>5, <2>2
<1>6. CASE Resend
  <2>1. task.call.kind \in Kinds /\ task.call.parts \in SUBSET Partitions
    BY DEF Shape, CallRecords
  <2>2. /\ CallListener(task, task.call.kind, task.call.parts, task.next) /\ shared' = shared
        /\ task.wait = "dropped" /\ UNCHANGED <<conf, app, held, broker>>
    BY <1>6 DEF Resend, CallListener
  <2> QED
    BY <1>3, <2>1, <2>2, CallListenerEffect DEF Shape
<1> QED
  BY <1>3, <1>4, <1>5, <1>6

\* The rejoin ends with an error, and the member stays what it was.
Failed == /\ Formed /\ Ends /\ Keeps /\ task'.pc = "Idle"
          /\ UNCHANGED <<conf, app, calls, held, broker>>

LEMMA FailEffect ==
  ASSUME Shape, NEW t, DOMAIN t = TaskFields, t.prepared = task.prepared, SameMember(t, task),
         Fail(t), UNCHANGED <<conf, app, calls, held, broker>>
  PROVE  Failed
<1>1. /\ DOMAIN task' = TaskFields /\ SameMember(task', t) /\ task'.pc = "Idle"
      /\ task'.next = "none" /\ task'.wait = "none" /\ task'.call = NoCall /\ task'.owned = {}
      /\ task'.new = {} /\ task'.ngen = NoGen /\ task'.prepared = t.prepared
  BY EndedFields DEF Fail
<1>2. /\ DOMAIN shared' = SharedFields /\ shared'.gate = {} /\ shared'.assigned = shared.assigned
      /\ shared'.primed = shared.primed
  BY DEF Fail, Shape, SharedFields
<1> QED
  BY <1>1, <1>2 DEF Failed, Formed, Ends, Keeps, SameMember

\* A step of the rejoin leaves the listener and what the member owns alone.
Proceeds ==
  /\ Formed /\ shared' = shared /\ UNCHANGED <<conf, app, calls, held>>
  /\ task'.lost = task.lost /\ task'.next = task.next /\ task'.wait = task.wait
  /\ task'.call = task.call

LEMMA SendJoinEffect ==
  ASSUME Shape, SendJoin
  PROVE  /\ task.pc = "SendJoin"
         /\ \/ FenceMember
            \/ Failed
            \/ /\ Proceeds /\ task'.pc = "Join" /\ task'.id # NoId /\ task'.gen = task.gen
               /\ task'.owned = shared.assigned /\ task'.new = task.new
               /\ task'.ngen = task.ngen /\ task'.prepared = task.prepared
<1> DEFINE id == IF task.id = NoId THEN Next1(broker.minted) ELSE task.id
           t == [task EXCEPT !.joined = app.sub, !.watched = app.sub, !.id = id,
                             !.owned = shared.assigned]
<1>1. /\ DOMAIN t = TaskFields /\ t.id = id /\ t.gen = task.gen /\ t.lost = task.lost
      /\ t.owned = shared.assigned /\ t.new = task.new /\ t.ngen = task.ngen
      /\ t.prepared = task.prepared /\ t.next = task.next /\ t.wait = task.wait
      /\ t.call = task.call
  BY DEF Shape, TaskFields
<1>2. id # NoId
  BY CycleAssumption DEF Shape, Next1, NoId
<1>3. /\ task.pc = "SendJoin"
      /\ \/ FenceMember
         \/ task.id # NoId /\ Fail(t) /\ UNCHANGED <<conf, app, calls, held, broker>>
         \/ task' = [t EXCEPT !.pc = "Join"] /\ UNCHANGED <<conf, shared, app, calls, held>>
  BY DEF SendJoin, TaskRest
<1>4. task.id # NoId => SameMember(t, task)
  BY <1>1 DEF SameMember
<1> HIDE DEF t
<1>5. CASE task.id # NoId /\ Fail(t) /\ UNCHANGED <<conf, app, calls, held, broker>>
  BY <1>1, <1>3, <1>4, <1>5, FailEffect
<1>6. CASE task' = [t EXCEPT !.pc = "Join"] /\ UNCHANGED <<conf, shared, app, calls, held>>
  <2>1. /\ DOMAIN task' = TaskFields /\ task'.pc = "Join" /\ SameMember(task', t)
        /\ SameRejoin(task', t)
    BY <1>1, <1>6 DEF TaskFields, SameMember, SameRejoin
  <2> HIDE DEF id
  <2> QED
    BY <1>1, <1>2, <1>3, <1>6, <2>1 DEF Proceeds, Formed, Shape, SameMember, SameRejoin
<1> QED
  BY <1>3, <1>5, <1>6

LEMMA JoinAnswerEffect ==
  ASSUME Shape, JoinAnswer
  PROVE  /\ task.pc = "Join"
         /\ \/ FenceMember
            \/ Failed
            \/ /\ Proceeds /\ task'.pc = "Sync" /\ SameMember(task', task) /\ task'.ngen # NoGen
               /\ task'.owned = task.owned /\ task'.new = task.new
               /\ task'.prepared = task.prepared
<1>1. /\ task.pc = "Join"
      /\ \/ FenceMember
         \/ Fail(task) /\ UNCHANGED <<conf, app, calls, held, broker>>
         \/ /\ \E s, w : task' = [task EXCEPT !.pc = "Sync", !.ngen = broker.gen,
                                              !.snapshot = s, !.watched = w]
            /\ UNCHANGED <<conf, shared, app, calls, held>>
  BY DEF JoinAnswer, TaskRest
<1>2. CASE Fail(task) /\ UNCHANGED <<conf, app, calls, held, broker>>
  BY <1>1, <1>2, FailEffect DEF Shape, SameMember
<1>3. CASE /\ \E s, w : task' = [task EXCEPT !.pc = "Sync", !.ngen = broker.gen,
                                             !.snapshot = s, !.watched = w]
           /\ UNCHANGED <<conf, shared, app, calls, held>>
  <2>1. PICK s, w : task' = [task EXCEPT !.pc = "Sync", !.ngen = broker.gen,
                                         !.snapshot = s, !.watched = w]
    BY <1>3
  <2>2. broker.gen # NoGen
    BY DEF Shape, NoGen
  <2>3. /\ DOMAIN task' = TaskFields /\ task'.pc = "Sync" /\ SameMember(task', task)
        /\ task'.ngen = broker.gen /\ task'.owned = task.owned /\ task'.new = task.new
        /\ task'.prepared = task.prepared /\ task'.next = task.next /\ task'.wait = task.wait
        /\ task'.call = task.call
    BY <2>1 DEF Shape, TaskFields, SameMember
  <2> QED
    BY <1>1, <1>3, <2>2, <2>3 DEF Shape, Proceeds, Formed, SameMember
<1> QED
  BY <1>1, <1>2, <1>3

LEMMA SyncAnswerEffect ==
  ASSUME Shape, SyncAnswer
  PROVE  /\ task.pc = "Sync"
         /\ \/ FenceMember
            \/ Failed
            \/ /\ Formed /\ shared' = shared /\ UNCHANGED <<conf, app, held, broker>>
               /\ broker.phase = "Stable"
               /\ task'.id = task.id /\ task'.lost = task.lost /\ task'.owned = task.owned
               /\ task'.new = broker.mine /\ task'.ngen = task.ngen /\ ~task'.prepared
               /\ \/ /\ ~Eager /\ task'.gen = task.ngen
                     /\ CallMade("Revoked", task.owned \ broker.mine, "add")
                  \/ /\ Proceeds /\ task'.pc = "Prime" /\ task'.gen = task.gen
                     /\ Eager \/ task.owned \subseteq broker.mine
<1> DEFINE t == [task EXCEPT !.new = broker.mine, !.prepared = FALSE]
           u == [t EXCEPT !.gen = t.ngen]
<1>1. /\ DOMAIN t = TaskFields /\ SameMember(t, task) /\ t.owned = task.owned
      /\ t.new = broker.mine /\ t.ngen = task.ngen /\ ~t.prepared
      /\ t.next = task.next /\ t.wait = task.wait /\ t.call = task.call
  BY DEF Shape, TaskFields, SameMember
<1>2. /\ task.pc = "Sync"
      /\ \/ FenceMember
         \/ Fail(task) /\ UNCHANGED <<conf, app, calls, held, broker>>
         \/ AfterSync(t) /\ broker.phase = "Stable"
  BY DEF SyncAnswer, TaskRest
<1> HIDE DEF t
<1>3. CASE Fail(task) /\ UNCHANGED <<conf, app, calls, held, broker>>
  BY <1>2, <1>3, FailEffect DEF Shape, SameMember
<1>4. CASE AfterSync(t) /\ broker.phase = "Stable"
  <2>1. CASE ~Eager /\ CallListener(u, "Revoked", t.owned \ t.new, "add") /\ shared' = shared
    <3>1. /\ DOMAIN u = TaskFields /\ u.gen = t.ngen /\ u.id = t.id /\ u.lost = t.lost
          /\ SameRejoin(u, t)
      BY <1>1 DEF TaskFields, SameRejoin
    <3> HIDE DEF u
    <3>2. UNCHANGED <<conf, app, held, broker>>
      BY <2>1 DEF CallListener
    <3>3. t.owned \ t.new \in SUBSET Partitions
      BY <1>1 DEF Shape
    <3>4. /\ CallMade("Revoked", t.owned \ t.new, "add") /\ SameMember(task', u)
          /\ task'.prepared = u.prepared
          /\ task'.owned = u.owned /\ task'.new = u.new /\ task'.ngen = u.ngen
      BY <2>1, <3>1, <3>3, CallListenerEffect DEF Shape, Kinds
    <3>5. Formed
      BY <2>1, <3>4 DEF CallMade, Formed, Shape
    <3> QED
      BY <1>1, <1>2, <1>4, <2>1, <3>1, <3>2, <3>4, <3>5 DEF SameMember, SameRejoin
  <2>2. CASE /\ Eager \/ t.owned \ t.new = {}
             /\ task' = [t EXCEPT !.pc = "Prime"] /\ shared' = shared
             /\ UNCHANGED <<conf, app, calls, held, broker>>
    <3>1. /\ DOMAIN task' = TaskFields /\ task'.pc = "Prime" /\ SameMember(task', t)
          /\ SameRejoin(task', t)
      BY <1>1, <2>2 DEF TaskFields, SameMember, SameRejoin
    <3> QED
      BY <1>1, <1>2, <1>4, <2>2, <3>1 DEF Proceeds, Formed, Shape, SameMember, SameRejoin
  <2> QED
    BY <1>4, <2>1, <2>2 DEF AfterSync, StepAfter, TaskRest
<1> QED
  BY <1>2, <1>3, <1>4

\* The steps that install an assignment, up to its assign callback.
Installing == PrimeOffsets \/ CloseGate \/ PublishAssignment \/ PruneOffsets

Installed ==
  /\ Formed /\ SameRejoin(task', task) /\ task'.id = task.id /\ task'.lost = task.lost
  /\ task'.rejoin = task.rejoin /\ task'.hb = task.hb /\ shared'.pending = shared.pending
  /\ UNCHANGED <<conf, app, calls, held, broker>>
  /\ \/ /\ task.pc = "Prime" /\ task'.pc = "Gate" /\ task'.gen = task.gen
        /\ shared'.assigned = shared.assigned /\ shared'.gate = shared.gate
        /\ shared'.primed = shared.primed \cup (task.new \ task.owned)
     \/ /\ task.pc = "Gate" /\ task'.pc = "Publish" /\ task'.gen = task.gen
        /\ shared'.assigned = shared.assigned /\ shared'.gate = Announced(task)
        /\ shared'.primed = shared.primed
     \/ /\ task.pc = "Publish" /\ task'.pc \in {"Prune", "Announce"} /\ task'.gen = task.ngen
        /\ shared'.assigned = task.new /\ shared'.gate = shared.gate
        /\ shared'.primed = shared.primed
     \/ /\ task.pc = "Prune" /\ task'.pc = "Announce" /\ task'.gen = task.gen
        /\ shared'.assigned = shared.assigned /\ shared'.gate = shared.gate
        /\ shared'.primed = shared.primed \cap task.new

LEMMA InstallEffect ==
  ASSUME Shape, Installing
  PROVE  Installed
<1>1. UNCHANGED <<conf, app, calls, held, broker>>
  BY DEF Installing, PrimeOffsets, CloseGate, PublishAssignment, PruneOffsets, TaskRest
<1>2. ASSUME NEW pc, \/ task' = [task EXCEPT !.pc = pc]
                     \/ task' = [task EXCEPT !.pc = pc, !.gen = task.ngen]
      PROVE  /\ DOMAIN task' = TaskFields /\ SameRejoin(task', task) /\ task'.id = task.id
             /\ task'.lost = task.lost /\ task'.rejoin = task.rejoin /\ task'.hb = task.hb
             /\ task'.pc = pc
  BY <1>2 DEF Shape, TaskFields, SameRejoin
<1>3. CASE PrimeOffsets
  <2>1. task.pc = "Prime" /\ task' = [task EXCEPT !.pc = "Gate"]
    BY <1>3 DEF PrimeOffsets, StepAfter
  <2>2. /\ DOMAIN shared' = SharedFields /\ shared'.assigned = shared.assigned
        /\ shared'.gate = shared.gate /\ shared'.pending = shared.pending
        /\ shared'.primed = shared.primed \cup (task.new \ task.owned)
    BY <1>3 DEF PrimeOffsets, Shape, SharedFields
  <2>3. task'.gen = task.gen
    BY <2>1 DEF Shape, TaskFields
  <2> QED
    BY <1>1, <1>2, <2>1, <2>2, <2>3 DEF Installed, Formed
<1>4. CASE CloseGate
  <2>1. task.pc = "Gate" /\ task' = [task EXCEPT !.pc = "Publish"]
    BY <1>4 DEF CloseGate, StepAfter
  <2>2. /\ DOMAIN shared' = SharedFields /\ shared'.assigned = shared.assigned
        /\ shared'.gate = Announced(task) /\ shared'.pending = shared.pending
        /\ shared'.primed = shared.primed
    BY <1>4 DEF CloseGate, Shape, SharedFields
  <2>3. task'.gen = task.gen
    BY <2>1 DEF Shape, TaskFields
  <2> QED
    BY <1>1, <1>2, <2>1, <2>2, <2>3 DEF Installed, Formed
<1>5. CASE PublishAssignment
  <2>1. /\ task.pc = "Publish"
        /\ \E pc \in {"Prune", "Announce"} : task' = [task EXCEPT !.pc = pc, !.gen = task.ngen]
    BY <1>5 DEF PublishAssignment, StepAfter
  <2>2. /\ DOMAIN shared' = SharedFields /\ shared'.assigned = task.new
        /\ shared'.gate = shared.gate /\ shared'.pending = shared.pending
        /\ shared'.primed = shared.primed
    BY <1>5 DEF PublishAssignment, Shape, SharedFields
  <2>3. task'.gen = task.ngen
    BY <2>1 DEF Shape, TaskFields
  <2> QED
    BY <1>1, <1>2, <2>1, <2>2, <2>3 DEF Installed, Formed
<1>6. CASE PruneOffsets
  <2>1. task.pc = "Prune" /\ task' = [task EXCEPT !.pc = "Announce"]
    BY <1>6 DEF PruneOffsets, StepAfter
  <2>2. /\ DOMAIN shared' = SharedFields /\ shared'.assigned = shared.assigned
        /\ shared'.gate = shared.gate /\ shared'.pending = shared.pending
        /\ shared'.primed = shared.primed \cap task.new
    BY <1>6 DEF PruneOffsets, Shape, SharedFields
  <2>3. task'.gen = task.gen
    BY <2>1 DEF Shape, TaskFields
  <2> QED
    BY <1>1, <1>2, <2>1, <2>2, <2>3 DEF Installed, Formed
<1> QED
  BY <1>3, <1>4, <1>5, <1>6 DEF Installing

LEMMA AnnounceEffect ==
  ASSUME Shape, AnnounceAssignment
  PROVE  /\ task.pc = "Announce" /\ Formed /\ shared' = shared
         /\ \E next \in {"round2", "finish"} :
              CallMade("Assigned", Announced(task), next) /\ (next = "round2" => ~Eager)
         /\ SameMember(task', task) /\ task'.owned = task.owned /\ task'.new = task.new
         /\ task'.ngen = task.ngen /\ task'.prepared = task.prepared
         /\ UNCHANGED <<conf, app, held, broker>>
<1> DEFINE next == IF ~Eager /\ task.rnd = 1 /\ task.owned \ task.new # {}
                     THEN "round2" ELSE "finish"
<1>1. /\ task.pc = "Announce" /\ CallListener(task, "Assigned", Announced(task), next)
      /\ shared' = shared /\ UNCHANGED <<conf, app, held, broker>>
  BY DEF AnnounceAssignment, CallListener
<1>2. next \in {"round2", "finish"} /\ (next = "round2" => ~Eager)
  OBVIOUS
<1> HIDE DEF next
<1>3. Announced(task) \in SUBSET Partitions
  BY DEF Shape, Announced
<1>4. /\ CallMade("Assigned", Announced(task), next) /\ SameMember(task', task)
      /\ task'.prepared = task.prepared
      /\ task'.owned = task.owned /\ task'.new = task.new /\ task'.ngen = task.ngen
  BY <1>1, <1>3, CallListenerEffect DEF Shape, Kinds
<1> QED
  BY <1>1, <1>2, <1>4 DEF Formed, CallMade, Shape

LEMMA RejoinFailsEffect ==
  ASSUME Shape, RejoinFails
  PROVE  Failed /\ task.pc \in {"SendJoin", "Join", "Sync", "Prime"}
<1>1. /\ task.pc \in {"SendJoin", "Join", "Sync", "Prime"} /\ task' = Ended(task, "Idle")
      /\ UNCHANGED <<conf, app, calls, held, broker>>
      /\ \E fatal \in BOOLEAN : shared' = [shared EXCEPT !.gate = {}, !.err = @ \/ fatal]
  BY DEF RejoinFails
<1>2. /\ DOMAIN task' = TaskFields /\ SameMember(task', task) /\ task'.pc = "Idle"
      /\ task'.next = "none" /\ task'.wait = "none" /\ task'.call = NoCall /\ task'.owned = {}
      /\ task'.new = {} /\ task'.ngen = NoGen /\ task'.prepared = task.prepared
  BY <1>1, EndedFields DEF Shape
<1>3. /\ DOMAIN shared' = SharedFields /\ shared'.gate = {}
      /\ shared'.assigned = shared.assigned /\ shared'.primed = shared.primed
  BY <1>1 DEF Shape, SharedFields
<1> QED
  BY <1>1, <1>2, <1>3 DEF Failed, Formed, Ends, Keeps

-----------------------------------------------------------------------------
(* The shape of the state.                                                 *)

LEMMA BrokerShape ==
  ASSUME Shape, Next
  PROVE  /\ DOMAIN app' = AppFields /\ app'.sub \subseteq Partitions
         /\ app.pc = "closed" => app'.pc = "closed"
         /\ ~app.unsubscribed /\ "unsubscribe" \notin Calls => ~app'.unsubscribed
         /\ app.unsubscribed => app'.unsubscribed \/ HandleSubscriptionChange
         /\ DOMAIN broker' = BrokerFields /\ broker'.mine \subseteq Partitions
         /\ broker'.topics \subseteq Partitions /\ broker'.gen \in Nat /\ broker'.minted \in Nat
<1>1. /\ DOMAIN app = AppFields /\ app.sub \subseteq Partitions
      /\ DOMAIN broker = BrokerFields /\ broker.mine \subseteq Partitions
      /\ broker.topics \subseteq Partitions /\ broker.gen \in Nat /\ broker.minted \in Nat
  BY DEF Shape
<1>2. /\ DOMAIN app' = AppFields /\ app'.sub \subseteq Partitions
      /\ app.pc = "closed" => app'.pc = "closed"
      /\ ~app.unsubscribed /\ "unsubscribe" \notin Calls => ~app'.unsubscribed
      /\ app.unsubscribed => app'.unsubscribed \/ HandleSubscriptionChange
  <2>1. CASE PollStart \/ PollEnter
    BY <1>1, <2>1 DEF PollStart, PollEnter, PolledApp, AppFields
  <2>2. CASE \/ RunCall \/ PollJoined \/ PollDeadline \/ PollReturn \/ DropCall \/ Subscribe
             \/ Unsubscribe \/ EnforceRebalance \/ Close
    BY <1>1, <2>2 DEF RunCall, PollJoined, PollDeadline, PollReturn, DropCall, Subscribe,
                      Unsubscribe, EnforceRebalance, Close, AppCall, AppFields
  <2>3. CASE TakeEnforced \/ HandleSubscriptionChange
    BY <1>1, <2>3 DEF TakeEnforced, HandleSubscriptionChange, AppFields
  <2>4. CASE \/ TaskPoll \/ MetadataCheck \/ Heartbeat \/ PollTimeout \/ FencedWake \/ StartRejoin
             \/ HeartbeatInCall \/ CallTimeout \/ RejoinFails \/ CallReturns
    <3>1. app' = app
      BY <2>4 DEF TaskPoll, MetadataCheck, Heartbeat, PollTimeout, FencedWake, StartRejoin,
                  HeartbeatInCall, CallTimeout, RejoinFails, CallReturns, Resend, CallListener,
                  TaskRest, FenceMember
    <3> QED
      BY <1>1, <3>1
  <2>5. CASE JoinPrepare
    BY <1>1, <2>5, JoinPrepareEffect DEF JoinPrepared, FenceMember
  <2>6. CASE SendJoin \/ JoinAnswer \/ SyncAnswer \/ Installing \/ AnnounceAssignment
    <3>1. app' = app
      BY <2>6, SendJoinEffect, JoinAnswerEffect, SyncAnswerEffect, InstallEffect, AnnounceEffect
         DEF FenceMember, Failed, Proceeds, Installed
    <3> QED
      BY <1>1, <3>1
  <2>7. CASE BrokerStep \/ BStartRebalance \/ BEvict \/ BFence \/ BCreateTopic
    <3>1. app' = app
      BY <2>7 DEF BrokerStep, BComplete, BAssign, BStartRebalance, BEvict, BFence, BCreateTopic,
                  BrokerOnly
    <3> QED
      BY <1>1, <3>1
  <2> QED
    BY <2>1, <2>2, <2>3, <2>4, <2>5, <2>6, <2>7 DEF Next, AppStep, TaskStep, Installing
<1> DEFINE Fit(b) == /\ DOMAIN b = BrokerFields /\ b.mine \subseteq Partitions
                     /\ b.topics \subseteq Partitions /\ b.gen \in Nat /\ b.minted \in Nat
<1>3. Fit(broker) /\ Fit(Without(broker))
  BY <1>1 DEF Without, BrokerFields
<1>4. \A id : Fit(LeaveGroup(id))
  BY <1>3 DEF LeaveGroup
<1>5. \A n \in Nat : Next1(n) \in Nat
  BY CycleAssumption DEF Next1
<1>6. Fit(broker')
  <2>1. CASE \/ AppStep \/ DropCall \/ Subscribe \/ Unsubscribe \/ EnforceRebalance
    <3>1. broker' = broker
      BY <2>1 DEF AppStep, PollStart, RunCall, PollEnter, PollJoined, PollDeadline, PollReturn,
                  DropCall, Subscribe, Unsubscribe, EnforceRebalance
    <3> QED
      BY <1>3, <3>1
  <2>2. CASE Close \/ PollTimeout \/ CallTimeout \/ HandleSubscriptionChange
    <3>1. broker' = broker \/ \E id : broker' = LeaveGroup(id)
      BY <2>2 DEF Close, PollTimeout, CallTimeout, LeaveOnPollTimeout, HandleSubscriptionChange
    <3> HIDE DEF Fit
    <3> QED
      BY <1>3, <1>4, <3>1
  <2>3. CASE \/ TaskPoll \/ MetadataCheck \/ TakeEnforced \/ Heartbeat \/ FencedWake \/ StartRejoin
             \/ HeartbeatInCall \/ RejoinFails \/ CallReturns
    <3>1. broker' = broker
      BY <2>3 DEF TaskPoll, MetadataCheck, TakeEnforced, Heartbeat, FencedWake, StartRejoin,
                  HeartbeatInCall, RejoinFails, CallReturns, Resend, CallListener, TaskRest,
                  FenceMember
    <3> QED
      BY <1>3, <3>1
  <2>4. CASE JoinPrepare
    <3>1. broker' = broker
      BY <2>4, JoinPrepareEffect DEF JoinPrepared, FenceMember
    <3> QED
      BY <1>3, <3>1
  <2>5. CASE SyncAnswer \/ Installing \/ AnnounceAssignment
    <3>1. broker' = broker
      BY <2>5, InstallEffect DEF SyncAnswer, AfterSync, AnnounceAssignment, CallListener, TaskRest,
                                 FenceMember, Installed
    <3> QED
      BY <1>3, <3>1
  <2>6. CASE JoinAnswer
    <3>1. broker' = broker \/ broker' = [broker EXCEPT !.join = "none"]
      BY <2>6 DEF JoinAnswer, TaskRest, FenceMember
    <3> QED
      BY <1>3, <3>1 DEF BrokerFields
  <2>7. CASE SendJoin
    <3> DEFINE id == IF task.id = NoId THEN Next1(broker.minted) ELSE task.id
    <3>1. \/ broker' = broker
          \/ broker' = [broker EXCEPT
                !.id = id, !.minted = IF task.id = NoId THEN id ELSE @, !.phase = "Preparing",
                !.mine = IF task.id = NoId THEN {} ELSE @, !.join = "waiting", !.topics = app.sub,
                !.claims = IF Eager THEN {} ELSE shared.assigned \ broker.other]
      BY <2>7 DEF SendJoin, TaskRest, FenceMember
    <3>2. task.id = NoId => id \in Nat
      BY <1>1, <1>5
    <3> HIDE DEF id
    <3> QED
      BY <1>1, <1>3, <3>1, <3>2 DEF BrokerFields
  <2>8. CASE BComplete
    BY <1>1, <1>5, <2>8 DEF BComplete, BrokerFields
  <2>9. CASE BAssign
    <3>1. \E mine \in SUBSET broker.topics : \E other :
            broker' = [broker EXCEPT !.phase = "Stable", !.mine = mine, !.other = other]
      BY <2>9 DEF BAssign
    <3> QED
      BY <1>1, <3>1 DEF BrokerFields
  <2>10. CASE BStartRebalance \/ BEvict \/ BFence \/ BCreateTopic
    <3>1. \/ broker' = Without(broker)
          \/ \E p : \/ broker' = [broker EXCEPT !.phase = p]
                    \/ broker' = [broker EXCEPT !.exists = p]
                    \/ broker' = [Without(broker) EXCEPT !.fenced = p]
      BY <2>10 DEF BStartRebalance, BEvict, BFence, BCreateTopic
    <3> QED
      BY <1>1, <1>3, <3>1 DEF BrokerFields
  <2> QED
    BY <2>1, <2>2, <2>3, <2>4, <2>5, <2>6, <2>7, <2>8, <2>9, <2>10 DEF Next, TaskStep, BrokerStep, Installing
<1> QED
  BY <1>2, <1>6

-----------------------------------------------------------------------------
(* The listener calls: at most the last one has a task that waits for it.  *)

\* A call that the task waits for is the last one, and the task knows it; a task that waits
\* has such a call; only the published partitions are announced.
LiveCall ==
  /\ \A i \in DOMAIN calls : calls[i].live =>
       /\ task.pc = "Call" /\ task.wait = "queued" /\ i = Len(calls)
       /\ calls[i].kind = task.call.kind /\ calls[i].parts = task.call.parts
  /\ task.pc # "Call" => task.call = NoCall
  /\ task.pc = "Call" =>
       /\ task.wait # "none" /\ task.next \in Nexts
       /\ task.wait = "queued" => calls # <<>> /\ calls[Len(calls)].live
       /\ task.next \in {"join", "kept", "add"} => task.call.kind # "Assigned"

\* The gate stays closed for the partitions of an assign callback that waits.
GateClosed ==
  task.pc = "Call" /\ task.call.kind = "Assigned" => task.call.parts \subseteq shared.gate

\* A poll that fetches while a call that nobody waits for is queued finds no partitions: the
\* member left in a callback, and it rejoins with the next poll at the earliest.
FetchStale ==
  /\ app.pc \in Polling => app.sub # {}
  /\ app.pc = "fetch" /\ (\E i \in DOMAIN calls : ~calls[i].live) =>
       /\ shared.assigned = {} /\ task.pc = "Idle" /\ task.id = NoId
       /\ task.rejoin = "afterPoll"

InCall(next) == task.pc = "Call" /\ task.next = next
Syncing == task.pc \in {"Join", "Sync", "Prime", "Gate", "Publish"} \/ InCall("add")

\* Up to the publication the member owns at most what it owned when it joined; from the gate
\* to the assign callback, what will be announced is behind the gate.
InstallInv ==
  /\ Syncing => shared.assigned \subseteq task.owned
  /\ task.pc \in {"Publish", "Prune", "Announce"} => Announced(task) \subseteq shared.gate

ListenerInv == LiveCall /\ GateClosed /\ FetchStale
Inv == Shape /\ ListenerInv /\ InstallInv

Idling == task.pc # "Call" \/ task.wait # "queued"

LEMMA NoLiveCall ==
  ASSUME LiveCall, Idling
  PROVE  \A i \in DOMAIN calls : ~calls[i].live
BY DEF LiveCall, Idling

\* A step of the task that queues nothing.
LEMMA ProceedStep ==
  ASSUME Inv, Idling, task.pc # "Idle" \/ task.rejoin = "due" \/ task.id # NoId,
         task'.pc # "Call", task'.call = NoCall, UNCHANGED <<app, calls>>
  PROVE  ListenerInv'
<1>1. \A i \in DOMAIN calls : ~calls[i].live
  BY NoLiveCall DEF Inv, ListenerInv
<1>2. LiveCall' /\ GateClosed'
  BY <1>1 DEF LiveCall, GateClosed
<1>3. FetchStale'
  BY DEF Inv, ListenerInv, FetchStale
<1> QED
  BY <1>2, <1>3 DEF ListenerInv

\* A call of the listener is queued.
LEMMA CallMadeStep ==
  ASSUME Inv, Idling, task.pc # "Idle", NEW kind, NEW parts, NEW next \in Nexts,
         CallMade(kind, parts, next), next \in {"join", "kept", "add"} => kind # "Assigned",
         kind = "Assigned" => parts \subseteq shared'.gate, app' = app
  PROVE  ListenerInv'
<1>1. \A i \in DOMAIN calls : ~calls[i].live
  BY NoLiveCall DEF Inv, ListenerInv
<1>2. /\ task'.pc = "Call" /\ task'.next = next /\ task'.wait = "queued"
      /\ task'.call.kind = kind /\ task'.call.parts = parts
      /\ calls' \in Seq(QueuedCalls) /\ Len(calls') = Len(calls) + 1 /\ Len(calls) \in Nat
      /\ calls'[Len(calls')].kind = kind /\ calls'[Len(calls')].parts = parts
      /\ calls'[Len(calls')].live
      /\ \A i \in DOMAIN calls' : i # Len(calls') => i \in DOMAIN calls /\ calls'[i] = calls[i]
  BY DEF CallMade, Inv, Shape
<1>3. calls' # <<>>
  BY <1>2
<1>4. LiveCall'
  BY <1>1, <1>2, <1>3 DEF LiveCall
<1>5. GateClosed'
  BY <1>2 DEF GateClosed
<1>6. FetchStale'
  <2>1. app'.pc \in Polling => app'.sub # {}
    BY DEF Inv, ListenerInv, FetchStale
  <2>2. ASSUME app'.pc = "fetch", NEW i \in DOMAIN calls', ~calls'[i].live
        PROVE  FALSE
    BY <1>2, <2>2 DEF Inv, ListenerInv, FetchStale
  <2> QED
    BY <2>1, <2>2 DEF FetchStale
<1> QED
  BY <1>4, <1>5, <1>6 DEF ListenerInv

LEMMA TakenStep ==
  ASSUME Inv, RunCall \/ DropCall
  PROVE  ListenerInv'
<1>1. /\ Taken /\ app'.pc \in {"wait", "waiting", "idle"} /\ (app'.pc # "idle" => app' = app)
      /\ \E w \in {"ran", "dropped"} : task'.wait = IF Head(calls).live THEN w ELSE task.wait
  BY TakenEffect DEF Inv, Taken
<1>2. /\ calls \in Seq(QueuedCalls) /\ calls # <<>> /\ calls' = Tail(calls)
  BY <1>1 DEF Taken, Inv, Shape
<1>3. /\ Len(calls) \in Nat /\ Len(calls) > 0 /\ Len(calls') = Len(calls) - 1
      /\ DOMAIN calls = 1..Len(calls) /\ DOMAIN calls' = 1..Len(calls')
      /\ \A i \in DOMAIN calls' : i + 1 \in DOMAIN calls /\ calls'[i] = calls[i + 1]
      /\ Head(calls) = calls[1] /\ 1 \in DOMAIN calls
      /\ Len(calls) = 1 \/ (calls' # <<>> /\ calls'[Len(calls')] = calls[Len(calls)])
  <2>1. /\ Len(calls) \in Nat /\ Len(calls) > 0 /\ Len(calls') = Len(calls) - 1
        /\ DOMAIN calls = 1..Len(calls) /\ DOMAIN calls' = 1..Len(calls')
        /\ \A i \in DOMAIN calls' : calls'[i] = calls[i + 1]
        /\ Head(calls) = calls[1]
    BY <1>2
  <2>2. Len(calls) # 1 => calls' # <<>> /\ Len(calls') \in DOMAIN calls'
    BY <2>1
  <2> QED
    BY <2>1, <2>2
<1>4. LiveCall'
  <2>1. /\ task'.pc = task.pc /\ task'.call = task.call /\ task'.next = task.next
    BY <1>1 DEF Taken
  <2>2. LiveCall
    BY DEF Inv, ListenerInv
  <2>3. \A i \in DOMAIN calls' : calls'[i].live =>
          /\ task'.pc = "Call" /\ task'.wait = "queued" /\ i = Len(calls')
          /\ calls'[i].kind = task'.call.kind /\ calls'[i].parts = task'.call.parts
    <3> SUFFICES ASSUME NEW i \in DOMAIN calls', calls'[i].live
                 PROVE  /\ task'.pc = "Call" /\ task'.wait = "queued" /\ i = Len(calls')
                        /\ calls'[i].kind = task'.call.kind /\ calls'[i].parts = task'.call.parts
      OBVIOUS
    <3>1. calls[i + 1].live /\ i + 1 \in DOMAIN calls /\ calls'[i] = calls[i + 1]
      BY <1>3
    <3>2. /\ task.pc = "Call" /\ task.wait = "queued" /\ i + 1 = Len(calls)
          /\ calls[i + 1].kind = task.call.kind /\ calls[i + 1].parts = task.call.parts
      BY <2>2, <3>1 DEF LiveCall
    <3>3. ~Head(calls).live
      BY <1>3, <2>2, <3>2 DEF LiveCall
    <3> QED
      BY <1>1, <1>3, <2>1, <3>1, <3>2, <3>3
  <2>4. task.pc = "Call" => task'.wait # "none" /\
          (task'.wait = "queued" => calls' # <<>> /\ calls'[Len(calls')].live)
    BY <1>1, <1>3, <2>2 DEF LiveCall
  <2> QED
    BY <2>1, <2>2, <2>3, <2>4 DEF LiveCall
<1>5. GateClosed'
  BY <1>1 DEF Taken, GateClosed, Inv, ListenerInv
<1>6. FetchStale'
  BY <1>1 DEF Taken, FetchStale, Inv, ListenerInv, Polling
<1> QED
  BY <1>4, <1>5, <1>6 DEF ListenerInv

LEMMA ListenerStep ==
  ASSUME Inv, Next
  PROVE  ListenerInv'
<1>1. Shape /\ ListenerInv
  BY DEF Inv
<1>2. CASE QuietAction
  <2>1. /\ Quiet
        /\ app'.pc = "fetch" => \/ calls = <<>> /\ app.pc \in {"wait", "waiting"}
                                \/ app.pc = "fetch"
        /\ app.pc = "fetch" /\ task.rejoin = "afterPoll" => task'.rejoin = "afterPoll"
        /\ app'.pc \in Polling => app'.sub = app.sub /\ (app.pc \in Polling \/ app.sub # {})
    BY <1>1, <1>2, QuietEffect
  <2>2. LiveCall' /\ GateClosed'
    BY <1>1, <2>1 DEF Quiet, SameRejoin, ListenerInv, LiveCall, GateClosed
  <2>3. FetchStale'
    <3>1. app'.pc \in Polling => app'.sub # {}
      BY <1>1, <2>1 DEF ListenerInv, FetchStale
    <3>2. ASSUME app'.pc = "fetch", NEW i \in DOMAIN calls', ~calls'[i].live
          PROVE  /\ shared'.assigned = {} /\ task'.pc = "Idle" /\ task'.id = NoId
                 /\ task'.rejoin = "afterPoll"
      BY <1>1, <2>1, <3>2 DEF ListenerInv, FetchStale, Quiet, SameMember
    <3> QED
      BY <3>1, <3>2 DEF FetchStale
  <2> QED
    BY <2>2, <2>3 DEF ListenerInv
<1>3. CASE RunCall \/ DropCall
  BY <1>3, TakenStep
<1>4. CASE Unsubscribe
  <2>1. /\ calls' = <<>> /\ task'.pc = task.pc /\ task'.next = task.next /\ task'.call = task.call
        /\ task'.wait = (IF \E i \in DOMAIN calls : calls[i].live THEN "ran" ELSE task.wait)
        /\ shared'.gate = shared.gate /\ app'.pc = "idle"
    BY <1>1, <1>4, UnsubscribeEffect
  <2>2. task.pc = "Call" => task'.wait \notin {"none", "queued"}
    <3>1. calls \in Seq(QueuedCalls) /\ (calls # <<>> => Len(calls) \in DOMAIN calls)
      BY <1>1 DEF Shape
    <3> QED
      BY <1>1, <2>1, <3>1 DEF ListenerInv, LiveCall
  <2>3. LiveCall' /\ GateClosed'
    BY <1>1, <2>1, <2>2 DEF ListenerInv, LiveCall, GateClosed
  <2> QED
    BY <2>1, <2>3 DEF ListenerInv, FetchStale, Polling
<1>5. CASE Close
  <2>1. Ends /\ calls' = <<>> /\ task'.pc = "Stopped" /\ app'.pc = "closed"
    BY <1>1, <1>5, CloseEffect
  <2> QED
    BY <2>1 DEF ListenerInv, LiveCall, GateClosed, FetchStale, Polling, Ends
<1>6. CASE HandleSubscriptionChange
  <2>1. /\ task.pc = "Idle" /\ task'.pc = "Idle" /\ SameRejoin(task', task)
        /\ (shared'.assigned = {} /\ task'.id = NoId) \/ Keeps
        /\ app'.pc = app.pc /\ app'.sub = app.sub /\ calls' = calls
        /\ app.sub # {} /\ task.rejoin = "afterPoll" => task'.rejoin = "afterPoll"
    BY <1>1, <1>6, SubscriptionEffect
  <2>2. LiveCall' /\ GateClosed'
    BY <1>1, <2>1 DEF SameRejoin, ListenerInv, LiveCall, GateClosed
  <2>3. FetchStale'
    BY <1>1, <2>1 DEF ListenerInv, FetchStale, Keeps, SameMember, Polling
  <2> QED
    BY <2>2, <2>3 DEF ListenerInv
<1>7. CASE Heartbeat /\ ~QuietAction
  <2>1. /\ task.pc = "Idle" /\ task.id # NoId /\ Idling /\ task.call = NoCall
    BY <1>1, <1>7 DEF Heartbeat, Idling, ListenerInv, LiveCall
  <2>2. \/ FenceMember
        \/ task'.pc = "Idle" /\ SameRejoin(task', task) /\ UNCHANGED <<app, calls>>
    BY <1>1, <1>7, HeartbeatEffect DEF QuietAction
  <2>3. task'.pc # "Call" /\ task'.call = NoCall /\ UNCHANGED <<app, calls>>
    BY <1>1, <2>1, <2>2, FenceEffect DEF SameRejoin
  <2> QED
    BY <2>1, <2>3, ProceedStep
<1>8. CASE PollTimeout
  <2>1. /\ Ends /\ task.pc = "Idle" /\ task'.pc = "Idle" /\ task.id # NoId
        /\ UNCHANGED <<app, calls>>
    BY <1>1, <1>8, PollTimeoutEffect
  <2> QED
    BY <2>1, ProceedStep DEF Ends, Idling
<1>9. CASE CallTimeout
  <2>1. /\ Ends /\ Forgets /\ task'.pc = "Idle" /\ task'.rejoin = "afterPoll"
        /\ DOMAIN calls' = DOMAIN calls /\ (\A i \in DOMAIN calls : ~calls'[i].live)
        /\ app' = app
    BY <1>1, <1>9, CallTimeoutEffect
  <2> QED
    BY <1>1, <2>1 DEF ListenerInv, LiveCall, GateClosed, FetchStale, Ends, Forgets
<1>10. CASE StartRejoin \/ FencedWake
  <2>1. /\ SameRejoin(task', task) /\ task'.pc # "Call" /\ UNCHANGED <<app, calls>>
        /\ \/ task.pc = "Idle" /\ task.rejoin = "due"
           \/ task.pc = "Fenced"
    BY <1>1, <1>10, StartEffect
  <2>2. task.call = NoCall /\ Idling /\ (task.pc # "Idle" \/ task.rejoin = "due")
    BY <1>1, <2>1 DEF ListenerInv, LiveCall, Idling
  <2>3. task'.call = NoCall
    BY <2>1, <2>2 DEF SameRejoin
  <2> QED
    BY <2>1, <2>2, <2>3, ProceedStep
<1>11. CASE JoinPrepare
  <2>1. task.pc = "Prepare" /\ Idling /\ task.call = NoCall /\ (FenceMember \/ JoinPrepared)
    BY <1>1, <1>11, JoinPrepareEffect DEF ListenerInv, LiveCall, Idling
  <2>2. CASE FenceMember
    BY <1>1, <2>1, <2>2, FenceEffect, ProceedStep
  <2>3. CASE JoinPrepared
    <3>1. /\ app' = app
          /\ \/ \E kind \in {"Revoked", "Lost"}, next \in {"join", "kept"} : \E parts :
                  CallMade(kind, parts, next)
             \/ task'.pc = "SendJoin" /\ task'.call = task.call /\ calls' = calls
      BY <2>3 DEF JoinPrepared
    <3>2. CASE \E kind \in {"Revoked", "Lost"}, next \in {"join", "kept"} : \E parts :
                 CallMade(kind, parts, next)
      BY <2>1, <3>1, <3>2, CallMadeStep DEF Nexts
    <3> QED
      BY <2>1, <3>1, <3>2, ProceedStep
  <2> QED
    BY <2>1, <2>2, <2>3
<1>12. CASE CallReturns
  <2>1. task.pc = "Call" /\ task.wait \in {"ran", "dropped"} /\ Idling /\ task.next \in Nexts
    BY <1>1, <1>12 DEF CallReturns, ListenerInv, LiveCall, Idling
  <2>2. \/ FenceMember
        \/ (\E asg : Resumed(asg)) /\ UNCHANGED <<app, calls>>
        \/ /\ CallMade(task.call.kind, task.call.parts, task.next) /\ shared' = shared
           /\ app' = app
    BY <1>1, <1>12, <2>1, CallReturnsEffect
  <2>3. CASE FenceMember
    BY <1>1, <2>1, <2>3, FenceEffect, ProceedStep
  <2>4. CASE (\E asg : Resumed(asg)) /\ UNCHANGED <<app, calls>>
    <3>1. task'.pc # "Call" /\ task'.call = NoCall
      BY <2>4 DEF Resumed
    <3> QED
      BY <2>1, <2>4, <3>1, ProceedStep
  <2>5. CASE /\ CallMade(task.call.kind, task.call.parts, task.next) /\ shared' = shared
             /\ app' = app
    <3>1. /\ task.next \in {"join", "kept", "add"} => task.call.kind # "Assigned"
          /\ task.call.kind = "Assigned" => task.call.parts \subseteq shared'.gate
      BY <1>1, <2>1, <2>5 DEF ListenerInv, LiveCall, GateClosed
    <3> QED
      BY <2>1, <2>5, <3>1, CallMadeStep
  <2> QED
    BY <2>2, <2>3, <2>4, <2>5
<1>13. CASE SendJoin \/ JoinAnswer \/ SyncAnswer \/ RejoinFails
  <2>1. /\ task.pc \in {"SendJoin", "Join", "Sync", "Prime"}
        /\ \/ FenceMember
           \/ Failed
           \/ Proceeds /\ task'.pc # "Call"
           \/ \E parts : CallMade("Revoked", parts, "add") /\ app' = app
    BY <1>1, <1>13, SendJoinEffect, JoinAnswerEffect, SyncAnswerEffect, RejoinFailsEffect
  <2>2. Idling /\ task.pc # "Idle" /\ task.call = NoCall
    BY <1>1, <2>1 DEF Idling, ListenerInv, LiveCall
  <2>3. CASE FenceMember
    BY <1>1, <2>2, <2>3, FenceEffect, ProceedStep
  <2>4. CASE Failed \/ (Proceeds /\ task'.pc # "Call")
    BY <2>2, <2>4, ProceedStep DEF Failed, Ends, Proceeds
  <2>5. CASE \E parts : CallMade("Revoked", parts, "add") /\ app' = app
    BY <2>2, <2>5, CallMadeStep DEF Nexts
  <2> QED
    BY <2>1, <2>3, <2>4, <2>5
<1>14. CASE AnnounceAssignment
  <2>1. /\ task.pc = "Announce" /\ shared' = shared /\ app' = app
        /\ \E next \in {"round2", "finish"} : CallMade("Assigned", Announced(task), next)
    BY <1>1, <1>14, AnnounceEffect
  <2>2. Idling /\ Announced(task) \subseteq shared'.gate
    BY <2>1 DEF Idling, Inv, InstallInv
  <2> QED
    BY <2>1, <2>2, CallMadeStep DEF Nexts
<1>15. CASE Installing
  <2>1. /\ task.pc \in {"Prime", "Gate", "Publish", "Prune"} /\ task'.pc # "Call"
        /\ task'.call = task.call /\ UNCHANGED <<app, calls>>
    BY <1>1, <1>15, InstallEffect DEF Installed, SameRejoin
  <2>2. Idling /\ task.call = NoCall
    BY <1>1, <2>1 DEF Idling, ListenerInv, LiveCall
  <2> QED
    BY <2>1, <2>2, ProceedStep
<1> QED
  BY <1>2, <1>3, <1>4, <1>5, <1>6, <1>7, <1>8, <1>9, <1>10, <1>11, <1>12, <1>13, <1>14, <1>15
     DEF Next, AppStep, TaskStep, Installing, QuietAction

LEMMA NoCallFits == NoCall \in CallRecords /\ NoCall.parts = {} /\ NoCall.kind = "Lost"
BY DEF NoCall, CallRecords, Kinds

LEMMA ShapeStep ==
  ASSUME Inv, Next
  PROVE  Shape'
<1> DEFINE Typed == /\ Formed /\ calls' \in Seq(QueuedCalls) /\ task'.call \in CallRecords
                    /\ task'.lost \subseteq Partitions /\ task'.owned \subseteq Partitions
                    /\ task'.new \subseteq Partitions /\ shared'.assigned \subseteq Partitions
<1>1. /\ Shape /\ calls \in Seq(QueuedCalls) /\ task.call \in CallRecords
      /\ task.lost \subseteq Partitions /\ task.owned \subseteq Partitions
      /\ task.new \subseteq Partitions /\ shared.assigned \subseteq Partitions
      /\ broker.mine \subseteq Partitions
  BY DEF Inv, Shape
<1> SUFFICES Typed
  BY <1>1, BrokerShape DEF Shape, Formed
<1>2. ASSUME FenceMember PROVE Typed
  BY <1>1, <1>2, FenceEffect, NoCallFits DEF Formed
<1>3. ASSUME Failed PROVE Typed
  BY <1>1, <1>3, NoCallFits DEF Failed, Ends, Keeps, SameMember
<1>4. CASE QuietAction
  BY <1>1, <1>4, QuietEffect DEF Quiet, SameRejoin, SameMember
<1>5. CASE RunCall \/ DropCall
  <2>1. Formed /\ Taken
    BY <1>1, <1>5, TakenEffect
  <2>2. calls' \in Seq(QueuedCalls)
    BY <1>1, <2>1 DEF Taken
  <2> QED
    BY <1>1, <2>1, <2>2 DEF Taken, Keeps, SameMember
<1>6. CASE Unsubscribe
  BY <1>1, <1>6, UnsubscribeEffect DEF SameMember
<1>7. CASE Close
  BY <1>1, <1>7, CloseEffect, NoCallFits DEF Ends, Keeps, SameMember
<1>8. CASE HandleSubscriptionChange
  BY <1>1, <1>8, SubscriptionEffect DEF SameRejoin, Keeps, SameMember
<1>9. CASE Heartbeat /\ ~QuietAction
  BY <1>1, <1>2, <1>9, HeartbeatEffect DEF QuietAction, Forgets, SameRejoin
<1>10. CASE PollTimeout \/ CallTimeout
  BY <1>1, <1>10, PollTimeoutEffect, CallTimeoutEffect, NoCallFits DEF Ends, Forgets
<1>11. CASE StartRejoin \/ FencedWake
  BY <1>1, <1>11, StartEffect DEF SameRejoin, Keeps, SameMember
<1>12. CASE JoinPrepare
  <2>1. CASE JoinPrepared
    BY <1>1, <2>1 DEF JoinPrepared, Prepared, CallMade
  <2> QED
    BY <1>1, <1>2, <1>12, <2>1, JoinPrepareEffect
<1>13. CASE CallReturns
  <2>1. task.next \in Nexts
    BY <1>13 DEF CallReturns, Inv, ListenerInv, LiveCall
  <2>2. \/ FenceMember
        \/ /\ Resumed({}) /\ task'.lost = task.lost \cup shared.assigned /\ calls' = calls
        \/ /\ Resumed(shared.assigned) /\ SameMember(task', task) /\ calls' = calls
        \/ /\ CallMade(task.call.kind, task.call.parts, task.next) /\ shared' = shared
           /\ SameMember(task', task) /\ task'.owned = task.owned /\ task'.new = task.new
    BY <1>1, <1>13, <2>1, CallReturnsEffect
  <2>3. ASSUME NEW asg \in SUBSET Partitions, Resumed(asg), calls' = calls,
               task'.lost \subseteq Partitions
        PROVE  Typed
    BY <1>1, <2>3, NoCallFits DEF Resumed
  <2>4. CASE \/ /\ Resumed({}) /\ task'.lost = task.lost \cup shared.assigned /\ calls' = calls
             \/ /\ Resumed(shared.assigned) /\ SameMember(task', task) /\ calls' = calls
    BY <1>1, <2>3, <2>4 DEF SameMember
  <2>5. CASE /\ CallMade(task.call.kind, task.call.parts, task.next) /\ shared' = shared
             /\ SameMember(task', task) /\ task'.owned = task.owned /\ task'.new = task.new
    BY <1>1, <2>5 DEF CallMade, Formed, SameMember, Shape
  <2> QED
    BY <1>2, <2>2, <2>4, <2>5
<1>14. CASE SendJoin \/ JoinAnswer
  BY <1>1, <1>2, <1>3, <1>14, SendJoinEffect, JoinAnswerEffect DEF Proceeds
<1>15. CASE SyncAnswer
  BY <1>1, <1>2, <1>3, <1>15, SyncAnswerEffect DEF Proceeds, CallMade
<1>16. CASE AnnounceAssignment
  BY <1>1, <1>16, AnnounceEffect DEF CallMade, SameMember
<1>17. CASE RejoinFails
  BY <1>1, <1>3, <1>17, RejoinFailsEffect
<1>18. CASE Installing
  BY <1>1, <1>18, InstallEffect DEF Installed, SameRejoin
<1> QED
  BY <1>4, <1>5, <1>6, <1>7, <1>8, <1>9, <1>10, <1>11, <1>12, <1>13, <1>14, <1>15, <1>16, <1>17,
     <1>18 DEF Next, AppStep, TaskStep, Installing, QuietAction

LEMMA InstallStep ==
  ASSUME Inv, Next
  PROVE  InstallInv'
<1> USE DEF InstallInv, Syncing, InCall
<1>1. Shape /\ LiveCall /\ InstallInv
  BY DEF Inv, ListenerInv
<1>2. ASSUME FenceMember PROVE InstallInv'
  BY <1>1, <1>2, FenceEffect
<1>3. ASSUME Failed PROVE InstallInv'
  BY <1>3 DEF Failed
<1>4. CASE QuietAction
  BY <1>1, <1>4, QuietEffect DEF Quiet, SameRejoin, Announced, Eager
<1>5. CASE RunCall \/ DropCall
  BY <1>1, <1>5, TakenEffect DEF Taken, Keeps, Announced, Eager
<1>6. CASE Unsubscribe
  BY <1>1, <1>6, UnsubscribeEffect DEF Announced, Eager
<1>7. CASE Close
  BY <1>1, <1>7, CloseEffect
<1>8. CASE HandleSubscriptionChange
  BY <1>1, <1>8, SubscriptionEffect
<1>9. CASE Heartbeat /\ ~QuietAction
  BY <1>1, <1>2, <1>9, HeartbeatEffect DEF QuietAction
<1>10. CASE PollTimeout \/ CallTimeout
  BY <1>1, <1>10, PollTimeoutEffect, CallTimeoutEffect
<1>11. CASE StartRejoin \/ FencedWake
  BY <1>1, <1>11, StartEffect
<1>12. CASE JoinPrepare
  <2>1. CASE JoinPrepared
    BY <2>1 DEF JoinPrepared, CallMade
  <2> QED
    BY <1>1, <1>2, <1>12, <2>1, JoinPrepareEffect
<1>13. CASE CallReturns
  <2>1. task.pc = "Call" /\ task.next \in Nexts
    BY <1>1, <1>13 DEF CallReturns, LiveCall
  <2>2. \/ FenceMember
        \/ \E asg \in {{}, shared.assigned} : Resumed(asg)
        \/ /\ CallMade(task.call.kind, task.call.parts, task.next) /\ shared' = shared
           /\ task'.owned = task.owned
    BY <1>1, <1>13, <2>1, CallReturnsEffect
  <2>3. ASSUME NEW asg \in {{}, shared.assigned}, Resumed(asg)
        PROVE  InstallInv'
    BY <1>1, <2>1, <2>3 DEF Resumed
  <2>4. CASE /\ CallMade(task.call.kind, task.call.parts, task.next) /\ shared' = shared
             /\ task'.owned = task.owned
    BY <1>1, <2>1, <2>4 DEF CallMade
  <2> QED
    BY <1>2, <2>2, <2>3, <2>4
<1>14. CASE SendJoin \/ JoinAnswer
  BY <1>1, <1>2, <1>3, <1>14, SendJoinEffect, JoinAnswerEffect DEF Proceeds
<1>15. CASE SyncAnswer
  BY <1>1, <1>2, <1>3, <1>15, SyncAnswerEffect DEF Proceeds, CallMade
<1>16. CASE AnnounceAssignment
  BY <1>1, <1>16, AnnounceEffect DEF CallMade
<1>17. CASE RejoinFails
  BY <1>1, <1>3, <1>17, RejoinFailsEffect
<1>18. CASE Installing
  BY <1>1, <1>18, InstallEffect DEF Installed, SameRejoin, Announced, Eager
<1> QED
  BY <1>4, <1>5, <1>6, <1>7, <1>8, <1>9, <1>10, <1>11, <1>12, <1>13, <1>14, <1>15, <1>16, <1>17,
     <1>18 DEF Next, AppStep, TaskStep, Installing, QuietAction

LEMMA InitInv ==
  ASSUME Init
  PROVE  Inv
<1>1. PICK mine \in SUBSET Existing :
        /\ task = [pc |-> "Idle", next |-> "none", rnd |-> 1, id |-> 0, gen |-> 0,
                   prepared |-> FALSE, rejoin |-> "none", lost |-> {}, owned |-> {},
                   new |-> {}, ngen |-> NoGen, hb |-> "none", wait |-> "none",
                   joined |-> Partitions, known |-> Existing, snapshot |-> {},
                   watched |-> Partitions,
                   unseen |-> FALSE, call |-> NoCall]
        /\ shared = [assigned |-> mine, pending |-> FALSE, gate |-> {}, primed |-> mine,
                     err |-> FALSE]
        /\ \E l : broker = [id |-> 0, fenced |-> NoId, gen |-> 0, phase |-> "Stable",
                            join |-> "none", claims |-> {}, topics |-> Partitions, mine |-> mine,
                            other |-> Existing \ mine, leader |-> l, exists |-> Existing,
                            minted |-> 0]
  BY DEF Init
<1>2. /\ DOMAIN task = TaskFields /\ task.pc = "Idle" /\ task.call = NoCall
      /\ task.lost = {} /\ task.owned = {} /\ task.new = {}
  BY <1>1 DEF TaskFields
<1>3. DOMAIN shared = SharedFields /\ shared.assigned = mine
  BY <1>1 DEF SharedFields
<1>4. /\ DOMAIN broker = BrokerFields /\ broker.mine = mine /\ broker.topics = Partitions
      /\ broker.gen = 0 /\ broker.minted = 0
  BY <1>1 DEF BrokerFields
<1>5. /\ DOMAIN app = AppFields /\ app.sub = Partitions /\ app.pc = "idle" /\ calls = <<>>
  BY DEF Init, AppFields
<1>6. Shape
  BY <1>2, <1>3, <1>4, <1>5, NoCallFits, ExistingAssumption DEF Shape
<1>7. ListenerInv
  BY <1>2, <1>5 DEF ListenerInv, LiveCall, GateClosed, FetchStale, Polling
<1>8. InstallInv
  BY <1>2 DEF InstallInv, Syncing, InCall
<1> QED
  BY <1>6, <1>7, <1>8 DEF Inv

LEMMA StutterInv ==
  ASSUME Inv, UNCHANGED vars
  PROVE  Inv'
BY DEF Inv, vars, Shape, ListenerInv, LiveCall, GateClosed, FetchStale, InstallInv, Syncing,
       InCall, Announced, Eager

\* What the listener calls and the gate keep, in every state.
THEOREM Invariance == Spec => []Inv
<1>1. Inv /\ [Next]_vars => Inv'
  BY ShapeStep, ListenerStep, InstallStep, StutterInv DEF Inv
<1> QED
  BY <1>1, InitInv, PTL DEF Spec

\* No poll of any member sends a Fetch for a partition whose assign callback is still to run,
\* whatever fails, leaves or is cancelled in between.
THEOREM AddedAlwaysWaitForCallback == Spec => []AddedWaitForCallback
<1>1. ASSUME Inv, app.pc = "fetch", NEW i \in DOMAIN calls, calls[i].kind = "Assigned"
      PROVE  FetchSet \cap calls[i].parts = {}
  <2>1. CASE calls[i].live
    BY <1>1, <2>1 DEF Inv, ListenerInv, LiveCall, GateClosed, FetchSet
  <2>2. CASE ~calls[i].live
    BY <1>1, <2>2 DEF Inv, ListenerInv, FetchStale, FetchSet
  <2> QED
    BY <2>1, <2>2
<1>2. ASSUME Inv, task.pc \in {"Prime", "Gate", "Publish", "Prune", "Announce"}
      PROVE  FetchSet \cap (task.new \ task.owned) = {}
  BY <1>2 DEF Inv, InstallInv, Syncing, FetchSet, Announced
<1>3. Inv => AddedWaitForCallback
  BY <1>1, <1>2 DEF AddedWaitForCallback, Unannounced
<1> QED
  BY <1>3, Invariance, PTL

-----------------------------------------------------------------------------
(* The offsets: what the member owns, or is about to own, is primed.       *)

\* prime_offsets leaves out what the member owned when it joined, so that must be primed; a
\* partition that a cooperative member keeps, or that a second round or a prune forgets, too.
PrimedParts ==
  /\ shared.assigned \subseteq shared.primed
  /\ Syncing => task.owned \subseteq shared.primed
  /\ task.pc \in {"Gate", "Publish"} \/ InCall("kept") => task.new \subseteq shared.primed
  /\ task.pc \in {"Prune", "Announce"} \/ InCall("round2") => shared.assigned \subseteq task.new

PrimedInv == app.unsubscribed \/ PrimedParts

LEMMA PrimedStep ==
  ASSUME Inv, PrimedInv, Next
  PROVE  PrimedInv'
<1> USE DEF PrimedParts, Syncing, InCall
<1>1. Shape /\ LiveCall
  BY DEF Inv, ListenerInv
<1>a. CASE HandleSubscriptionChange
  <2>1. CASE ~app.unsubscribed
    BY <1>1, <1>a, <2>1, SubscriptionEffect DEF SameRejoin, Keeps, PrimedInv
  <2>2. CASE app.unsubscribed
    BY <1>1, <1>a, <2>2, SubscriptionEffect DEF PrimedInv
  <2> QED
    BY <2>1, <2>2
<1>b. CASE Unsubscribe
  <2>1. app'.unsubscribed
    BY <1>1, <1>b DEF Unsubscribe, Shape, AppFields
  <2> QED
    BY <2>1 DEF PrimedInv
<1> SUFFICES ASSUME ~HandleSubscriptionChange, ~Unsubscribe, PrimedParts
            PROVE  PrimedParts'
  BY <1>1, <1>a, <1>b, BrokerShape DEF PrimedInv
<1>2. ASSUME FenceMember PROVE PrimedParts'
  BY <1>1, <1>2, FenceEffect
<1>3. ASSUME Failed PROVE PrimedParts'
  BY <1>3 DEF Failed, Ends, Keeps
<1>4. CASE QuietAction
  BY <1>1, <1>4, QuietEffect DEF Quiet, SameRejoin
<1>5. CASE RunCall \/ DropCall
  BY <1>1, <1>5, TakenEffect DEF Taken, Keeps
<1>7. CASE Close
  BY <1>1, <1>7, CloseEffect DEF Ends, Keeps
<1>9. CASE Heartbeat /\ ~QuietAction
  BY <1>1, <1>2, <1>9, HeartbeatEffect DEF QuietAction, Forgets
<1>10. CASE PollTimeout \/ CallTimeout
  BY <1>1, <1>10, PollTimeoutEffect, CallTimeoutEffect DEF Ends, Forgets
<1>11. CASE StartRejoin \/ FencedWake
  BY <1>1, <1>11, StartEffect DEF SameRejoin, Keeps
<1>12. CASE JoinPrepare
  <2>1. CASE JoinPrepared
    BY <1>1, <2>1 DEF JoinPrepared, Prepared, CallMade
  <2> QED
    BY <1>1, <1>2, <1>12, <2>1, JoinPrepareEffect
<1>13. CASE CallReturns
  <2>1. task.pc = "Call" /\ task.next \in Nexts
    BY <1>1, <1>13 DEF CallReturns, LiveCall
  <2>2. \/ FenceMember
        \/ \E asg \in {{}, shared.assigned} : Resumed(asg)
        \/ /\ CallMade(task.call.kind, task.call.parts, task.next) /\ shared' = shared
           /\ task'.owned = task.owned /\ task'.new = task.new
    BY <1>1, <1>13, <2>1, CallReturnsEffect
  <2>3. ASSUME NEW asg \in {{}, shared.assigned}, Resumed(asg)
        PROVE  PrimedParts'
    BY <2>1, <2>3 DEF Resumed
  <2>4. CASE /\ CallMade(task.call.kind, task.call.parts, task.next) /\ shared' = shared
             /\ task'.owned = task.owned /\ task'.new = task.new
    BY <2>1, <2>4 DEF CallMade
  <2> QED
    BY <1>2, <2>2, <2>3, <2>4
<1>14. CASE SendJoin \/ JoinAnswer
  BY <1>1, <1>2, <1>3, <1>14, SendJoinEffect, JoinAnswerEffect DEF Proceeds
<1>15. CASE SyncAnswer
  BY <1>1, <1>2, <1>3, <1>15, SyncAnswerEffect DEF Proceeds, CallMade
<1>16. CASE AnnounceAssignment
  BY <1>1, <1>16, AnnounceEffect DEF CallMade
<1>18. CASE Installing
  BY <1>1, <1>18, InstallEffect DEF Installed, SameRejoin
<1>17. CASE RejoinFails
  BY <1>1, <1>3, <1>17, RejoinFailsEffect
<1> QED
  BY <1>4, <1>5, <1>7, <1>9, <1>10, <1>11, <1>12, <1>13, <1>14, <1>15, <1>16, <1>17, <1>18
     DEF Next, AppStep, TaskStep, Installing, QuietAction

LEMMA InitPrimed ==
  ASSUME Init
  PROVE  PrimedInv
BY DEF Init, PrimedInv, PrimedParts, Syncing, InCall

\* A partition is visible only once its offset is established, whatever the application calls
\* and whatever fails, but for the time between an unsubscribe and its handling by the task.
THEOREM AssignedAlwaysPrimed == Spec => []AssignedIsPrimed
<1>1. Inv /\ PrimedInv /\ [Next]_vars => PrimedInv'
  <2>1. PrimedInv /\ UNCHANGED vars => PrimedInv'
    BY DEF vars, PrimedInv, PrimedParts, Syncing, InCall
  <2> QED
    BY <2>1, PrimedStep
<1>2. PrimedInv => AssignedIsPrimed
  BY DEF PrimedInv, PrimedParts, AssignedIsPrimed
<1> QED
  BY <1>1, <1>2, InitPrimed, Invariance, PTL DEF Spec

-----------------------------------------------------------------------------
(* The listener: what it holds is owned, remembered as lost, or on its way. *)

\* The partitions of the calls behind call i.
QueuedAfter(i) == UNION {calls[j].parts : j \in {k \in DOMAIN calls : k > i}}

Accounted == held \subseteq shared.assigned \cup task.lost \cup Queued \cup task.call.parts

\* Where a rejoin stands, and what the listener was told by then.
ToldInv ==
  /\ task.wait # "dropped"
  /\ InCall("join") => task.prepared
  /\ InCall("kept") \/ InCall("add") \/ InCall("round2") => ~Eager
  /\ (\/ task.pc \in {"Prime", "Gate", "Publish", "Prune", "Announce"}
      \/ InCall("add") \/ InCall("round2") \/ InCall("finish")) => ~task.prepared
  /\ task.pc \in {"Prune", "Announce"} => shared.assigned = task.new
  /\ task.pc = "Call" /\ task.wait = "ran" =>
       calls = <<>> /\ (task.call.kind # "Assigned" => held \cap task.call.parts = {})
  /\ task.pc = "Call" /\ task.call.kind = "Assigned" => task.call.parts \subseteq shared.assigned
  /\ InCall("kept") => shared.assigned \subseteq task.new \cup task.call.parts

\* A cooperative member: what it owned, then what it gives up, then what it gets.
CooperativeInv ==
  ~Eager => /\ Syncing => shared.assigned \subseteq task.owned
            /\ InCall("add") => task.call.parts = task.owned \ task.new
            /\ task.pc \in {"Prime", "Gate", "Publish"} =>
                 \/ shared.assigned \subseteq task.new
                 \/ calls = <<>> /\ held \cap (shared.assigned \ task.new) = {}

\* An eager member that joins was revoked everything; without a generation it owns nothing.
EagerInv ==
  Eager => /\ task.id = NoId \/ task.gen = NoGen => shared.assigned = {}
           /\ task.pc \in {"Join", "Sync", "Prime", "Gate", "Publish"} => task.id # NoId
           /\ task.pc \in {"Sync", "Prime", "Gate", "Publish"} => task.ngen # NoGen
           /\ task.prepared \/ task.pc \in {"SendJoin", "Join", "Sync", "Prime", "Gate", "Publish"} =>
                held \subseteq task.lost \cup Queued \cup task.call.parts

\* An assign callback that nobody waits for hands out what was lost, or is revoked behind it.
DeadInv ==
  \A i \in DOMAIN calls : calls[i].kind = "Assigned" /\ ~calls[i].live =>
    calls[i].parts \subseteq task.lost \cup QueuedAfter(i)

LossInv == Accounted /\ ToldInv /\ CooperativeInv /\ EagerInv /\ DeadInv

LEMMA QueuedMade ==
  ASSUME Shape, NEW kind, NEW parts, NEW next, CallMade(kind, parts, next)
  PROVE  /\ Queued \cup parts \subseteq Queued'
         /\ \A i \in DOMAIN calls : QueuedAfter(i) \cup parts \subseteq QueuedAfter(i)'
<1> DEFINE n == Len(calls')
<1>1. /\ calls' \in Seq(QueuedCalls) /\ n = Len(calls) + 1 /\ Len(calls) \in Nat
      /\ calls'[n].parts = parts
      /\ \A i \in DOMAIN calls : i \in DOMAIN calls' /\ calls'[i] = calls[i] /\ i < n
  BY DEF CallMade, Shape
<1>2. n \in DOMAIN calls'
  BY <1>1
<1> HIDE DEF n
<1>3. Queued \cup parts \subseteq Queued'
  BY <1>1, <1>2 DEF Queued
<1>4. ASSUME NEW i \in DOMAIN calls
      PROVE  QueuedAfter(i) \cup parts \subseteq QueuedAfter(i)'
  <2>1. n \in {k \in DOMAIN calls' : k > i}
    BY <1>1, <1>2
  <2>2. \A j \in {k \in DOMAIN calls : k > i} :
          j \in {k \in DOMAIN calls' : k > i} /\ calls'[j] = calls[j]
    BY <1>1
  <2> QED
    BY <1>1, <2>1, <2>2 DEF QueuedAfter
<1> QED
  BY <1>3, <1>4

LEMMA DeadMade ==
  ASSUME Shape, DeadInv, NEW kind, NEW parts, NEW next, CallMade(kind, parts, next),
         task.lost \subseteq task'.lost \cup parts
  PROVE  DeadInv'
<1> SUFFICES ASSUME NEW i \in DOMAIN calls', calls'[i].kind = "Assigned", ~calls'[i].live
             PROVE  calls'[i].parts \subseteq task'.lost \cup QueuedAfter(i)'
  BY DEF DeadInv
<1>1. i \in DOMAIN calls /\ calls'[i] = calls[i]
  BY DEF CallMade
<1> QED
  BY <1>1, QueuedMade DEF DeadInv

\* A task that waits for no call is owed nothing by its last one.
LEMMA IdlingHeld ==
  ASSUME LiveCall, Accounted, ToldInv, Idling, task.wait \in {"ran", "dropped"} \/ task.pc # "Call"
  PROVE  held \subseteq shared.assigned \cup task.lost \cup Queued
<1>1. CASE task.pc # "Call"
  BY <1>1, NoCallFits DEF LiveCall, Accounted
<1>2. CASE task.pc = "Call"
  BY <1>2 DEF ToldInv, Accounted
<1> QED
  BY <1>1, <1>2

\* Running a call keeps what the listener holds accounted for.
LEMMA RunKeepsHeld ==
  ASSUME Inv, DeadInv, RunCall, NEW A, task.lost \subseteq A, task.call.parts \subseteq A,
         held \subseteq A \cup Queued
  PROVE  held' \subseteq A \cup Queued'
<1> DEFINE h == Head(calls)
<1>1. /\ calls \in Seq(QueuedCalls) /\ calls # <<>> /\ calls' = Tail(calls)
      /\ held' = Told(held, h)
  BY DEF RunCall, Inv, Shape
<1>2. /\ Len(calls) \in Nat /\ DOMAIN calls = 1..Len(calls) /\ 1 \in DOMAIN calls /\ h = calls[1]
      /\ \A i \in DOMAIN calls : i # 1 => i - 1 \in DOMAIN calls' /\ calls'[i - 1] = calls[i]
  BY <1>1
<1> HIDE DEF h
<1>3. Queued \subseteq h.parts \cup Queued'
  BY <1>2 DEF Queued
<1>4. QueuedAfter(1) \subseteq Queued'
  BY <1>2 DEF Queued, QueuedAfter
<1>5. h.kind = "Assigned" => h.parts \subseteq A \cup Queued'
  <2>1. CASE h.live
    BY <1>2, <2>1 DEF Inv, ListenerInv, LiveCall
  <2>2. CASE ~h.live
    BY <1>2, <1>4, <2>2 DEF DeadInv
  <2> QED
    BY <2>1, <2>2
<1>6. CASE h.kind = "Assigned"
  BY <1>1, <1>3, <1>5, <1>6 DEF Told
<1>7. CASE h.kind # "Assigned"
  BY <1>1, <1>3, <1>7 DEF Told
<1> QED
  BY <1>6, <1>7

LEMMA RunLoss ==
  ASSUME Inv, LossInv, RunCall
  PROVE  LossInv'
<1>1. /\ Taken /\ app' = app /\ held' = Told(held, Head(calls))
      /\ task'.wait = IF Head(calls).live THEN "ran" ELSE task.wait
  BY TakenEffect DEF Inv
<1>2. /\ calls \in Seq(QueuedCalls) /\ calls # <<>> /\ calls' = Tail(calls) /\ conf' = conf
      /\ task'.lost = task.lost /\ task'.call = task.call /\ shared'.assigned = shared.assigned
      /\ task'.pc = task.pc /\ task'.next = task.next /\ task'.prepared = task.prepared
      /\ task'.owned = task.owned /\ task'.new = task.new /\ task'.ngen = task.ngen
      /\ task'.id = task.id /\ task'.gen = task.gen
  BY <1>1 DEF Taken, Keeps, SameMember, Inv, Shape
<1>3. /\ Len(calls) \in Nat /\ DOMAIN calls = 1..Len(calls) /\ 1 \in DOMAIN calls
      /\ Head(calls) = calls[1] /\ Len(calls') = Len(calls) - 1 /\ DOMAIN calls' = 1..Len(calls')
      /\ \A i \in DOMAIN calls' : i + 1 \in DOMAIN calls /\ calls'[i] = calls[i + 1]
      /\ \A i \in DOMAIN calls : i # 1 => i - 1 \in DOMAIN calls' /\ calls'[i - 1] = calls[i]
      /\ Len(calls) = 1 => calls' = <<>>
  BY <1>2
<1>4. Accounted'
  <2>1. held' \subseteq (shared.assigned \cup task.lost \cup task.call.parts) \cup Queued'
    BY RunKeepsHeld DEF LossInv, Accounted
  <2> QED
    BY <1>2, <2>1 DEF Accounted
<1>5. ToldInv'
  <2>1. ToldInv
    BY DEF LossInv
  <2>2. task'.wait # "dropped"
    BY <1>1, <2>1 DEF ToldInv
  <2>3. ASSUME task.pc = "Call", task'.wait = "ran"
        PROVE  calls' = <<>> /\ (task.call.kind # "Assigned" => held' \cap task.call.parts = {})
    <3>1. Head(calls).live
      BY <1>1, <1>2, <2>1, <2>3 DEF ToldInv
    <3>2. Len(calls) = 1 /\ Head(calls).kind = task.call.kind /\ Head(calls).parts = task.call.parts
      BY <1>3, <3>1 DEF Inv, ListenerInv, LiveCall
    <3> QED
      BY <1>1, <1>3, <3>2 DEF Told
  <2> QED
    BY <1>2, <2>1, <2>2, <2>3 DEF ToldInv, InCall, Eager
<1>6. CooperativeInv'
  BY <1>2 DEF LossInv, CooperativeInv, InCall, Syncing, Eager
<1>7. EagerInv'
  <2>1. held \subseteq (task.lost \cup task.call.parts) \cup Queued
          => held' \subseteq (task.lost \cup task.call.parts) \cup Queued'
    BY RunKeepsHeld DEF LossInv
  <2> QED
    BY <1>2, <2>1 DEF LossInv, EagerInv, Eager
<1>8. DeadInv'
  <2> SUFFICES ASSUME NEW i \in DOMAIN calls', calls'[i].kind = "Assigned", ~calls'[i].live
               PROVE  calls'[i].parts \subseteq task'.lost \cup QueuedAfter(i)'
    BY DEF DeadInv
  <2>1. calls[i + 1].parts \subseteq task.lost \cup QueuedAfter(i + 1)
    BY <1>3 DEF LossInv, DeadInv
  <2>2. \A j \in {k \in DOMAIN calls : k > i + 1} :
          j - 1 \in {k \in DOMAIN calls' : k > i} /\ calls'[j - 1] = calls[j]
    BY <1>3
  <2>3. QueuedAfter(i + 1) \subseteq QueuedAfter(i)'
    BY <2>2 DEF QueuedAfter
  <2> QED
    BY <1>2, <1>3, <2>1, <2>3
<1> QED
  BY <1>4, <1>5, <1>6, <1>7, <1>8 DEF LossInv

LEMMA CallTimeoutLoss ==
  ASSUME Inv, LossInv, CallTimeout
  PROVE  LossInv'
<1>1. /\ Ends /\ Forgets /\ task.pc = "Call" /\ task.wait = "queued" /\ task'.pc = "Idle"
      /\ DOMAIN calls' = DOMAIN calls /\ Len(calls') = Len(calls)
      /\ \A i \in DOMAIN calls : /\ calls'[i].kind = calls[i].kind
                                 /\ calls'[i].parts = calls[i].parts
      /\ UNCHANGED <<conf, app, held>>
  BY CallTimeoutEffect DEF Inv
<1>2. Queued' = Queued /\ \A i : QueuedAfter(i)' = QueuedAfter(i)
  BY <1>1 DEF Queued, QueuedAfter
<1>3. task.call.parts \subseteq Queued
  <2>1. calls # <<>> /\ calls[Len(calls)].live
    BY <1>1 DEF Inv, ListenerInv, LiveCall
  <2>2. Len(calls) \in DOMAIN calls
    BY <2>1 DEF Inv, Shape
  <2>3. calls[Len(calls)].parts = task.call.parts
    BY <2>1, <2>2 DEF Inv, ListenerInv, LiveCall
  <2> QED
    BY <2>2, <2>3 DEF Queued
<1>4. held \subseteq task'.lost \cup Queued'
  BY <1>1, <1>2, <1>3 DEF LossInv, Accounted, Forgets
<1>5. Accounted' /\ ToldInv' /\ CooperativeInv' /\ EagerInv'
  BY <1>1, <1>4 DEF Accounted, ToldInv, CooperativeInv, EagerInv, InCall, Syncing, Ends, Forgets
<1>6. DeadInv'
  <2> SUFFICES ASSUME NEW i \in DOMAIN calls, calls[i].kind = "Assigned"
               PROVE  calls[i].parts \subseteq task'.lost \cup QueuedAfter(i)
    BY <1>1, <1>2 DEF DeadInv
  <2>1. CASE calls[i].live
    <3>1. calls[i].parts = task.call.parts /\ task.call.kind = "Assigned"
      BY <2>1 DEF Inv, ListenerInv, LiveCall
    <3> QED
      BY <1>1, <3>1 DEF LossInv, ToldInv, Forgets
  <2>2. CASE ~calls[i].live
    BY <1>1, <2>2 DEF LossInv, DeadInv, Forgets
  <2> QED
    BY <2>1, <2>2
<1> QED
  BY <1>5, <1>6 DEF LossInv

\* The member is forgotten, or the rejoin ends with an error.
LEMMA EndLoss ==
  ASSUME Inv, LossInv, task.pc # "Call" \/ task.wait \in {"ran", "dropped"},
         task'.pc \in {"Idle", "Fenced"}, task'.call = NoCall, task'.wait # "dropped",
         task'.prepared = task.prepared, UNCHANGED <<conf, calls, held>>,
         \/ Forgets
         \/ Keeps /\ task.pc \in {"SendJoin", "Join", "Sync", "Prime"}
  PROVE  LossInv'
<1>1. held \subseteq shared.assigned \cup task.lost \cup Queued
  BY IdlingHeld DEF Inv, ListenerInv, LossInv, Idling
<1>2. Queued' = Queued /\ \A i : QueuedAfter(i)' = QueuedAfter(i)
  BY DEF Queued, QueuedAfter
<1>3. Accounted'
  BY <1>1, <1>2 DEF Accounted, Forgets, Keeps, SameMember
<1>4. ToldInv' /\ CooperativeInv'
  BY DEF ToldInv, CooperativeInv, InCall, Syncing
<1>5. EagerInv'
  <2>1. CASE Forgets
    BY <1>1, <1>2, <2>1 DEF EagerInv, Forgets
  <2>2. CASE Keeps /\ task.pc \in {"SendJoin", "Join", "Sync", "Prime"}
    <3>1. Eager => held \subseteq task.lost \cup Queued
      BY <2>2, NoCallFits DEF LossInv, EagerInv, Inv, ListenerInv, LiveCall
    <3> QED
      BY <1>2, <2>2, <3>1 DEF LossInv, EagerInv, Keeps, SameMember, Eager
  <2> QED
    BY <2>1, <2>2
<1>6. DeadInv'
  BY <1>2 DEF LossInv, DeadInv, Forgets, Keeps, SameMember
<1> QED
  BY <1>3, <1>4, <1>5, <1>6 DEF LossInv

LEMMA PrepareLoss ==
  ASSUME Inv, LossInv, task.pc = "Prepare", JoinPrepared
  PROVE  LossInv'
<1>1. /\ task.call.parts = {} /\ task.wait # "dropped"
      /\ held \subseteq shared.assigned \cup task.lost \cup Queued
  <2>1. LiveCall /\ Accounted /\ ToldInv
    BY DEF Inv, ListenerInv, LossInv
  <2> QED
    BY <2>1, IdlingHeld, NoCallFits DEF LiveCall, ToldInv, Idling
<1>2. PICK lost \in SUBSET Partitions :
        /\ Prepared(lost)
        /\ \/ /\ CallMade("Lost", lost, "join") /\ task'.lost = {}
              /\ task'.id = NoId \/ task'.gen = NoGen
           \/ /\ Eager /\ task'.id # NoId /\ task'.gen # NoGen
              /\ CallMade("Revoked", shared'.assigned, "join") /\ task'.lost = lost
           \/ /\ ~Eager /\ task'.lost = lost
              /\ CallMade("Revoked", shared'.assigned \ app.sub, "kept")
              /\ task'.new = shared'.assigned \ (shared'.assigned \ app.sub)
           \/ /\ task'.pc = "SendJoin" /\ task'.lost = lost /\ task'.wait = task.wait
              /\ task'.call = task.call /\ calls' = calls
              /\ task'.id # NoId /\ task'.gen # NoGen => ~Eager
              /\ task'.id = NoId \/ task'.gen = NoGen => lost = {}
  BY DEF JoinPrepared
<1>3. task'.prepared /\ UNCHANGED <<conf, held>>
  BY DEF JoinPrepared
<1>4. /\ held \subseteq shared'.assigned \cup lost \cup Queued /\ task.lost \subseteq lost
      /\ Eager /\ (task'.id = NoId \/ task'.gen = NoGen) => shared'.assigned = {}
  <2>1. CASE shared'.assigned = shared.assigned /\ lost = task.lost
             /\ task'.id = task.id /\ task'.gen = task.gen
    BY <1>1, <2>1 DEF LossInv, EagerInv
  <2>2. CASE shared'.assigned = {} /\ lost = task.lost \cup shared.assigned
    BY <1>1, <2>2
  <2> QED
    BY <1>2, <2>1, <2>2 DEF Prepared
<1>5. Shape /\ DeadInv
  BY DEF Inv, LossInv
<1>6. CASE /\ CallMade("Lost", lost, "join") /\ task'.lost = {}
           /\ task'.id = NoId \/ task'.gen = NoGen
  <2>1. /\ task'.pc = "Call" /\ task'.next = "join" /\ task'.wait = "queued"
        /\ task'.call.kind = "Lost" /\ task'.call.parts = lost
    BY <1>6 DEF CallMade
  <2>2. Queued \cup lost \subseteq Queued' /\ DeadInv'
    BY <1>4, <1>5, <1>6, QueuedMade, DeadMade
  <2>3. Accounted'
    BY <1>3, <1>4, <2>1, <2>2 DEF Accounted
  <2>4. ToldInv' /\ CooperativeInv'
    BY <1>3, <2>1 DEF ToldInv, CooperativeInv, InCall, Syncing
  <2>5. EagerInv'
    BY <1>3, <1>4, <1>6, <2>1, <2>2 DEF EagerInv, Eager
  <2> QED
    BY <2>2, <2>3, <2>4, <2>5 DEF LossInv
<1>7. CASE /\ Eager /\ task'.id # NoId /\ task'.gen # NoGen
           /\ CallMade("Revoked", shared'.assigned, "join") /\ task'.lost = lost
  <2>1. /\ task'.pc = "Call" /\ task'.next = "join" /\ task'.wait = "queued"
        /\ task'.call.kind = "Revoked" /\ task'.call.parts = shared'.assigned
    BY <1>7 DEF CallMade
  <2>2. Queued \subseteq Queued' /\ DeadInv'
    BY <1>4, <1>5, <1>7, QueuedMade, DeadMade
  <2>3. Accounted'
    BY <1>3, <1>4, <1>7, <2>1, <2>2 DEF Accounted
  <2>4. ToldInv' /\ CooperativeInv'
    BY <1>3, <1>7, <2>1 DEF ToldInv, CooperativeInv, InCall, Syncing, Eager
  <2>5. EagerInv'
    BY <1>3, <1>4, <1>7, <2>1, <2>2 DEF EagerInv, Eager
  <2> QED
    BY <2>2, <2>3, <2>4, <2>5 DEF LossInv
<1>8. CASE /\ ~Eager /\ task'.lost = lost
           /\ CallMade("Revoked", shared'.assigned \ app.sub, "kept")
           /\ task'.new = shared'.assigned \ (shared'.assigned \ app.sub)
  <2>1. /\ task'.pc = "Call" /\ task'.next = "kept" /\ task'.wait = "queued"
        /\ task'.call.kind = "Revoked" /\ task'.call.parts = shared'.assigned \ app.sub
    BY <1>8 DEF CallMade
  <2>2. Queued \subseteq Queued' /\ DeadInv'
    BY <1>4, <1>5, <1>8, QueuedMade, DeadMade
  <2>3. Accounted'
    BY <1>3, <1>4, <1>8, <2>1, <2>2 DEF Accounted
  <2>4. ToldInv' /\ CooperativeInv' /\ EagerInv'
    BY <1>3, <1>8, <2>1 DEF ToldInv, CooperativeInv, EagerInv, InCall, Syncing, Eager
  <2> QED
    BY <2>2, <2>3, <2>4 DEF LossInv
<1>9. CASE /\ task'.pc = "SendJoin" /\ task'.lost = lost /\ task'.wait = task.wait
           /\ task'.call = task.call /\ calls' = calls
           /\ task'.id # NoId /\ task'.gen # NoGen => ~Eager
           /\ task'.id = NoId \/ task'.gen = NoGen => lost = {}
  <2>1. Queued' = Queued /\ \A i : QueuedAfter(i)' = QueuedAfter(i)
    BY <1>9 DEF Queued, QueuedAfter
  <2>2. Accounted'
    BY <1>3, <1>4, <1>9, <2>1 DEF Accounted
  <2>3. ToldInv' /\ CooperativeInv'
    BY <1>1, <1>9 DEF ToldInv, CooperativeInv, InCall, Syncing
  <2>4. EagerInv'
    BY <1>3, <1>4, <1>9, <2>1 DEF EagerInv, Eager
  <2>5. DeadInv'
    BY <1>4, <1>5, <1>9, <2>1 DEF DeadInv
  <2> QED
    BY <2>2, <2>3, <2>4, <2>5 DEF LossInv
<1> QED
  BY <1>2, <1>6, <1>7, <1>8, <1>9

\* The task goes on after a call of the listener that ran.
LEMMA ResumeLoss ==
  ASSUME Inv, LossInv, task.pc = "Call", task.wait = "ran", NEW asg, Resumed(asg),
         \/ /\ asg = {} /\ task'.id = NoId /\ task'.gen = NoGen
            /\ task'.lost = task.lost \cup shared.assigned
         \/ asg = shared.assigned /\ SameMember(task', task),
         UNCHANGED <<conf, calls, held>>
  PROVE  LossInv'
<1>1. /\ calls = <<>> /\ (task.call.kind # "Assigned" => held \cap task.call.parts = {})
      /\ (task.call.kind = "Assigned" => task.call.parts \subseteq shared.assigned)
  BY DEF LossInv, ToldInv
<1>2. Queued = {} /\ Queued' = {}
  BY <1>1 DEF Queued
<1>3. held \subseteq shared.assigned \cup task.lost
  BY <1>1, <1>2 DEF LossInv, Accounted
<1>4. held \subseteq asg \cup task'.lost
  BY <1>3 DEF SameMember
<1>5. /\ task'.wait = "none" /\ task'.call = NoCall /\ task'.prepared = task.prepared
      /\ task'.pc # "Call"
  BY DEF Resumed
<1>6. DeadInv'
  BY <1>1 DEF DeadInv
<1>7. task.next \in {"join", "kept", "add"} => task.call.kind # "Assigned"
  BY DEF Inv, ListenerInv, LiveCall
<1>8. CASE task.next = "join"
  <2>1. task'.pc = "SendJoin" /\ shared'.assigned = asg /\ task.prepared
    BY <1>8 DEF Resumed, LossInv, ToldInv, InCall
  <2>2. Eager => held \subseteq task'.lost
    BY <1>1, <1>2, <1>3, <1>7, <1>8, <2>1 DEF LossInv, EagerInv, SameMember
  <2>3. Accounted' /\ ToldInv' /\ CooperativeInv'
    BY <1>4, <1>5, <2>1 DEF Accounted, ToldInv, CooperativeInv, InCall, Syncing
  <2>4. EagerInv'
    BY <2>1, <2>2 DEF LossInv, EagerInv, Eager, SameMember
  <2> QED
    BY <1>6, <2>3, <2>4 DEF LossInv
<1>9. CASE task.next = "kept"
  <2>1. /\ task'.pc = "SendJoin" /\ shared'.assigned = task.new /\ ~Eager
        /\ shared.assigned \subseteq task.new \cup task.call.parts
    BY <1>9 DEF Resumed, LossInv, ToldInv, InCall
  <2>2. Accounted' /\ ToldInv' /\ CooperativeInv' /\ EagerInv'
    BY <1>1, <1>3, <1>4, <1>5, <1>7, <1>9, <2>1
       DEF Accounted, ToldInv, CooperativeInv, EagerInv, InCall, Syncing, Eager
  <2> QED
    BY <1>6, <2>2 DEF LossInv
<1>10. CASE task.next = "add"
  <2>1. /\ task'.pc = "Prime" /\ shared'.assigned = asg /\ ~Eager /\ ~task.prepared
        /\ task'.owned = task.owned /\ task'.new = task.new
        /\ shared.assigned \subseteq task.owned /\ task.call.parts = task.owned \ task.new
    BY <1>10 DEF Resumed, LossInv, ToldInv, CooperativeInv, InCall, Syncing
  <2>2. Accounted' /\ ToldInv' /\ EagerInv'
    BY <1>4, <1>5, <2>1 DEF Accounted, ToldInv, EagerInv, InCall, Syncing, Eager
  <2>3. CooperativeInv'
    BY <1>1, <1>7, <1>10, <2>1 DEF CooperativeInv, InCall, Syncing, SameMember
  <2> QED
    BY <1>6, <2>2, <2>3 DEF LossInv
<1>11. CASE task.next \in {"round2", "finish"}
  <2>1. /\ task'.pc \in {"Prepare", "Idle"} /\ shared'.assigned = asg /\ ~task.prepared
    BY <1>11 DEF Resumed, LossInv, ToldInv, InCall
  <2>2. Accounted' /\ ToldInv' /\ CooperativeInv'
    BY <1>4, <1>5, <2>1 DEF Accounted, ToldInv, CooperativeInv, InCall, Syncing
  <2>3. EagerInv'
    BY <1>5, <2>1 DEF LossInv, EagerInv, Eager, SameMember
  <2> QED
    BY <1>6, <2>2, <2>3 DEF LossInv
<1> QED
  BY <1>8, <1>9, <1>10, <1>11 DEF Resumed

LEMMA SyncLoss ==
  ASSUME Inv, LossInv, SyncAnswer, ~FenceMember, ~Failed
  PROVE  LossInv'
<1>1. /\ task.pc = "Sync" /\ shared' = shared /\ UNCHANGED <<conf, held>>
      /\ task'.id = task.id /\ task'.lost = task.lost /\ task'.owned = task.owned
      /\ task'.new = broker.mine /\ task'.ngen = task.ngen /\ ~task'.prepared
      /\ \/ /\ ~Eager /\ task'.gen = task.ngen
            /\ CallMade("Revoked", task.owned \ broker.mine, "add")
         \/ /\ Proceeds /\ task'.pc = "Prime" /\ task'.gen = task.gen
            /\ Eager \/ task.owned \subseteq broker.mine
  BY SyncAnswerEffect DEF Inv
<1>2. /\ task.call = NoCall /\ Accounted /\ CooperativeInv /\ EagerInv /\ DeadInv /\ Shape
      /\ task.wait # "dropped"
  BY <1>1 DEF Inv, ListenerInv, LiveCall, LossInv, ToldInv
<1>3. CASE ~Eager /\ CallMade("Revoked", task.owned \ broker.mine, "add")
  <2>1. /\ task'.pc = "Call" /\ task'.next = "add" /\ task'.wait = "queued"
        /\ task'.call.kind = "Revoked" /\ task'.call.parts = task.owned \ broker.mine
    BY <1>3 DEF CallMade
  <2>2. Queued \subseteq Queued' /\ DeadInv'
    BY <1>1, <1>2, <1>3, QueuedMade, DeadMade
  <2>3. Accounted'
    BY <1>1, <1>2, <2>2, NoCallFits DEF Accounted
  <2>4. ToldInv' /\ CooperativeInv' /\ EagerInv'
    BY <1>1, <1>2, <1>3, <2>1 DEF ToldInv, CooperativeInv, EagerInv, InCall, Syncing, Eager
  <2> QED
    BY <2>2, <2>3, <2>4 DEF LossInv
<1>4. CASE /\ Proceeds /\ task'.pc = "Prime" /\ task'.gen = task.gen
           /\ Eager \/ task.owned \subseteq broker.mine
  <2>1. calls' = calls /\ task'.call = task.call /\ task'.wait = task.wait
    BY <1>4 DEF Proceeds
  <2>2. Queued' = Queued /\ \A i : QueuedAfter(i)' = QueuedAfter(i)
    BY <2>1 DEF Queued, QueuedAfter
  <2>3. Accounted' /\ DeadInv'
    BY <1>1, <1>2, <2>1, <2>2 DEF Accounted, DeadInv
  <2>4. ToldInv' /\ CooperativeInv'
    BY <1>1, <1>2, <1>4, <2>1 DEF ToldInv, CooperativeInv, InCall, Syncing, Eager
  <2>5. EagerInv'
    BY <1>1, <1>2, <1>4, <2>1, <2>2 DEF EagerInv, Eager
  <2> QED
    BY <2>3, <2>4, <2>5 DEF LossInv
<1> QED
  BY <1>1, <1>3, <1>4

LEMMA JoinLoss ==
  ASSUME Inv, LossInv, SendJoin \/ JoinAnswer, ~FenceMember, ~Failed
  PROVE  LossInv'
<1>1. Proceeds
  BY SendJoinEffect, JoinAnswerEffect DEF Inv, SameMember
<1>2. \/ /\ task.pc = "SendJoin" /\ task'.pc = "Join" /\ task'.owned = shared.assigned
         /\ task'.id # NoId /\ task'.gen = task.gen
      \/ /\ task.pc = "Join" /\ task'.pc = "Sync" /\ task'.owned = task.owned
         /\ task'.ngen # NoGen /\ task'.id = task.id /\ task'.gen = task.gen
  BY SendJoinEffect, JoinAnswerEffect DEF Inv, SameMember
<1>3. /\ shared' = shared /\ UNCHANGED <<conf, calls, held>> /\ task'.lost = task.lost
      /\ task'.wait = task.wait /\ task'.call = task.call
  BY <1>1 DEF Proceeds
<1>4. Queued' = Queued /\ \A i : QueuedAfter(i)' = QueuedAfter(i)
  BY <1>3 DEF Queued, QueuedAfter
<1>5. Accounted' /\ DeadInv'
  BY <1>3, <1>4 DEF LossInv, Accounted, DeadInv
<1>6. ToldInv' /\ CooperativeInv'
  BY <1>2, <1>3 DEF LossInv, ToldInv, CooperativeInv, InCall, Syncing, Eager
<1>7. EagerInv'
  BY <1>2, <1>3, <1>4 DEF LossInv, EagerInv, Eager
<1> QED
  BY <1>5, <1>6, <1>7 DEF LossInv

LEMMA InstallLoss ==
  ASSUME Inv, LossInv, Installing
  PROVE  LossInv'
<1>1. Installed
  BY InstallEffect DEF Inv
<1>2. /\ calls' = calls /\ held' = held /\ conf' = conf /\ task'.lost = task.lost
      /\ task'.call = task.call /\ task'.wait = task.wait /\ task'.prepared = task.prepared
      /\ task'.id = task.id /\ task'.owned = task.owned /\ task'.new = task.new
      /\ task'.ngen = task.ngen /\ task'.next = task.next
      /\ task.pc \in {"Prime", "Gate", "Publish", "Prune"}
  BY <1>1 DEF Installed, SameRejoin
<1>3. task.call.parts = {} /\ task.wait # "dropped" /\ ~task.prepared
  BY <1>2, NoCallFits DEF Inv, ListenerInv, LiveCall, LossInv, ToldInv
<1>4. Queued' = Queued /\ \A i : QueuedAfter(i)' = QueuedAfter(i)
  BY <1>2 DEF Queued, QueuedAfter
<1>5. DeadInv'
  BY <1>2, <1>4 DEF LossInv, DeadInv
<1>6. CASE /\ task'.gen = task.gen /\ shared'.assigned = shared.assigned
           /\ \/ task.pc \in {"Prime", "Gate"} /\ task'.pc \in {"Gate", "Publish"}
              \/ task.pc = "Prune" /\ task'.pc = "Announce"
  <2>1. Accounted'
    BY <1>2, <1>4, <1>6 DEF LossInv, Accounted
  <2>2. ToldInv'
    BY <1>2, <1>3, <1>6 DEF LossInv, ToldInv, InCall, Eager
  <2>3. CooperativeInv'
    BY <1>2, <1>6 DEF LossInv, CooperativeInv, InCall, Syncing, Eager
  <2>4. EagerInv'
    BY <1>2, <1>4, <1>6 DEF LossInv, EagerInv, Eager
  <2> QED
    BY <1>5, <2>1, <2>2, <2>3, <2>4 DEF LossInv
<1>7. CASE /\ task.pc = "Publish" /\ task'.pc \in {"Prune", "Announce"}
           /\ task'.gen = task.ngen /\ shared'.assigned = task.new
  <2>1. Accounted'
    <3>1. CASE Eager
      BY <1>2, <1>3, <1>4, <1>7, <3>1 DEF LossInv, EagerInv, Accounted
    <3>2. CASE ~Eager
      BY <1>2, <1>3, <1>4, <1>7, <3>2 DEF LossInv, CooperativeInv, Accounted, Queued
    <3> QED
      BY <3>1, <3>2
  <2>2. ToldInv'
    BY <1>2, <1>3, <1>7 DEF LossInv, ToldInv, InCall, Eager
  <2>3. CooperativeInv'
    BY <1>7 DEF CooperativeInv, InCall, Syncing
  <2>4. EagerInv'
    BY <1>2, <1>3, <1>7 DEF LossInv, EagerInv, Eager
  <2> QED
    BY <1>5, <2>1, <2>2, <2>3, <2>4 DEF LossInv
<1> QED
  BY <1>1, <1>6, <1>7 DEF Installed

LEMMA AnnounceLoss ==
  ASSUME Inv, LossInv, AnnounceAssignment
  PROVE  LossInv'
<1>1. /\ task.pc = "Announce" /\ shared' = shared /\ UNCHANGED <<conf, held>>
      /\ SameMember(task', task) /\ task'.prepared = task.prepared
      /\ \E next \in {"round2", "finish"} :
           CallMade("Assigned", Announced(task), next) /\ (next = "round2" => ~Eager)
  BY AnnounceEffect DEF Inv
<1>2. PICK next \in {"round2", "finish"} :
        CallMade("Assigned", Announced(task), next) /\ (next = "round2" => ~Eager)
  BY <1>1
<1>3. /\ task'.pc = "Call" /\ task'.next = next /\ task'.wait = "queued"
      /\ task'.call.kind = "Assigned" /\ task'.call.parts = Announced(task)
  BY <1>2 DEF CallMade
<1>4. /\ task.call.parts = {} /\ ~task.prepared /\ Shape /\ DeadInv
      /\ shared.assigned = task.new
  BY <1>1, NoCallFits DEF Inv, ListenerInv, LiveCall, LossInv, ToldInv
<1>5. task'.lost = task.lost /\ task'.id = task.id /\ task'.gen = task.gen
  BY <1>1 DEF SameMember
<1>6. Queued \subseteq Queued' /\ DeadInv'
  BY <1>1, <1>2, <1>4, <1>5, QueuedMade, DeadMade
<1>7. Accounted'
  BY <1>1, <1>4, <1>5, <1>6 DEF LossInv, Accounted
<1>8. Announced(task) \subseteq task.new
  BY DEF Announced
<1>9. ToldInv'
  BY <1>1, <1>2, <1>3, <1>4, <1>8 DEF ToldInv, InCall, Eager
<1>10. CooperativeInv'
  BY <1>2, <1>3 DEF CooperativeInv, InCall, Syncing
<1>11. EagerInv'
  BY <1>1, <1>3, <1>4, <1>5 DEF LossInv, EagerInv, Eager
<1> QED
  BY <1>6, <1>7, <1>9, <1>10, <1>11 DEF LossInv

LEMMA LossStep ==
  ASSUME Inv, LossInv, ~app.unsubscribed, "cancel" \notin Faults, "unsubscribe" \notin Calls,
         app'.pc # "closed", Next
  PROVE  LossInv'
<1>1. Shape /\ LiveCall /\ task.wait # "dropped"
  BY DEF Inv, ListenerInv, LossInv, ToldInv
<1>2. ASSUME FenceMember, task.pc # "Call" \/ task.wait \in {"ran", "dropped"}
      PROVE  LossInv'
  <2>1. /\ task'.pc = "Fenced" /\ task'.call = NoCall /\ task'.wait = "none" /\ Forgets
        /\ task'.prepared = task.prepared /\ UNCHANGED <<conf, calls, held>>
    BY <1>1, <1>2, FenceEffect DEF Forgets
  <2> QED
    BY <1>2, <2>1, EndLoss
<1>3. ASSUME Failed, task.pc \in {"SendJoin", "Join", "Sync", "Prime"}
      PROVE  LossInv'
  BY <1>3, EndLoss DEF Failed, Ends
\* A step that leaves alone all that the invariant is about.
<1>4. ASSUME SameRejoin(task', task), SameMember(task', task), UNCHANGED <<conf, calls, held>>,
             shared'.assigned = shared.assigned,
             \/ task'.pc = task.pc
             \/ /\ task.pc \in {"Idle", "Fenced"}
                /\ \/ task'.pc \in {"Idle", "Fenced", "Prepare"}
                   \/ task'.pc = "SendJoin" /\ task.prepared
      PROVE  LossInv'
  <2>1. Queued' = Queued /\ \A i : QueuedAfter(i)' = QueuedAfter(i)
    BY <1>4 DEF Queued, QueuedAfter
  <2>2. Accounted' /\ DeadInv'
    BY <1>4, <2>1 DEF LossInv, Accounted, DeadInv, SameRejoin, SameMember
  <2>3. ToldInv' /\ CooperativeInv'
    BY <1>4 DEF LossInv, ToldInv, CooperativeInv, InCall, Syncing, Eager, SameRejoin
  <2>4. EagerInv'
    BY <1>4, <2>1 DEF LossInv, EagerInv, Eager, SameRejoin, SameMember
  <2> QED
    BY <2>2, <2>3, <2>4 DEF LossInv
<1>5. CASE QuietAction
  BY <1>1, <1>4, <1>5, QuietEffect DEF Quiet
<1>6. CASE RunCall
  BY <1>6, RunLoss
<1>7. CASE DropCall \/ Unsubscribe \/ Close
  BY <1>1, <1>7, TakenEffect, UnsubscribeEffect, CloseEffect
<1>8. CASE HandleSubscriptionChange
  BY <1>1, <1>4, <1>8, SubscriptionEffect DEF Keeps
<1>9. CASE Heartbeat /\ ~QuietAction
  <2>1. /\ task.pc = "Idle"
        /\ \/ FenceMember
           \/ /\ Forgets /\ task'.pc = "Idle" /\ SameRejoin(task', task)
              /\ UNCHANGED <<conf, calls, held>>
    BY <1>1, <1>9, HeartbeatEffect DEF QuietAction
  <2>2. CASE /\ Forgets /\ task'.pc = "Idle" /\ SameRejoin(task', task)
             /\ UNCHANGED <<conf, calls, held>>
    <3>1. task'.call = NoCall /\ task'.wait # "dropped" /\ task'.prepared = task.prepared
      BY <1>1, <2>1, <2>2 DEF LiveCall, SameRejoin
    <3> QED
      BY <2>1, <2>2, <3>1, EndLoss
  <2> QED
    BY <1>2, <2>1, <2>2
<1>10. CASE PollTimeout
  BY <1>1, <1>10, PollTimeoutEffect, EndLoss DEF Ends
<1>11. CASE CallTimeout
  BY <1>11, CallTimeoutLoss
<1>12. CASE StartRejoin \/ FencedWake
  BY <1>1, <1>4, <1>12, StartEffect DEF Keeps
<1>13. CASE JoinPrepare
  BY <1>1, <1>2, <1>13, JoinPrepareEffect, PrepareLoss
<1>14. CASE CallReturns
  <2>1. task.pc = "Call" /\ task.wait = "ran" /\ task.next \in Nexts
    BY <1>1, <1>14 DEF CallReturns, LiveCall
  <2>2. \/ FenceMember
        \/ /\ Resumed({}) /\ task'.id = NoId /\ task'.gen = NoGen
           /\ task'.lost = task.lost \cup shared.assigned
           /\ UNCHANGED <<conf, calls, held>>
        \/ /\ Resumed(shared.assigned) /\ SameMember(task', task)
           /\ UNCHANGED <<conf, calls, held>>
    BY <1>1, <1>14, <2>1, CallReturnsEffect
  <2> QED
    BY <1>2, <2>1, <2>2, ResumeLoss
<1>15. CASE SendJoin \/ JoinAnswer
  <2>1. task.pc \in {"SendJoin", "Join"}
    BY <1>15 DEF SendJoin, JoinAnswer
  <2> QED
    BY <1>2, <1>3, <1>15, <2>1, JoinLoss
<1>16. CASE SyncAnswer
  <2>1. task.pc = "Sync"
    BY <1>16 DEF SyncAnswer
  <2> QED
    BY <1>2, <1>3, <1>16, <2>1, SyncLoss
<1>17. CASE Installing \/ AnnounceAssignment
  BY <1>17, InstallLoss, AnnounceLoss
<1>18. CASE RejoinFails
  BY <1>1, <1>3, <1>18, RejoinFailsEffect
<1> QED
  BY <1>5, <1>6, <1>7, <1>8, <1>9, <1>10, <1>11, <1>12, <1>13, <1>14, <1>15, <1>16, <1>17, <1>18
     DEF Next, AppStep, TaskStep, Installing, QuietAction

LEMMA InitLoss ==
  ASSUME Init
  PROVE  LossInv /\ ~app.unsubscribed
<1>1. /\ task.pc = "Idle" /\ task.call = NoCall /\ task.wait = "none" /\ ~task.prepared
      /\ task.id = 0 /\ task.gen = 0 /\ held = shared.assigned /\ calls = <<>>
      /\ ~app.unsubscribed
  BY DEF Init
<1>2. task.id # NoId /\ task.gen # NoGen
  BY <1>1 DEF NoId, NoGen
<1>3. Accounted /\ DeadInv
  BY <1>1 DEF Accounted, DeadInv
<1>4. ToldInv /\ CooperativeInv /\ EagerInv
  BY <1>1, <1>2 DEF ToldInv, CooperativeInv, EagerInv, InCall, Syncing
<1> QED
  BY <1>1, <1>3, <1>4 DEF LossInv

\* Whatever fails, is fenced, times out or is revoked: a partition that the listener holds is
\* owned, remembered as lost, or named by a call on its way to the listener, as long as the
\* application neither cancels a poll inside a callback nor unsubscribes.
THEOREM NoLossIsSilent ==
  ASSUME "cancel" \notin Faults, "unsubscribe" \notin Calls
  PROVE  Spec => []NoSilentLoss
<1> DEFINE Open == ~app.unsubscribed /\ (app.pc # "closed" => LossInv)
<1>1. Inv /\ Open /\ [Next]_vars => Open'
  <2>1. ASSUME Inv, Open, Next PROVE Open'
    BY <2>1, LossStep, BrokerShape DEF Inv
  <2>2. ASSUME Open, UNCHANGED vars PROVE Open'
    BY <2>2 DEF vars, LossInv, Accounted, ToldInv, CooperativeInv, EagerInv, DeadInv, Queued,
                QueuedAfter, InCall, Syncing, Eager
  <2> QED
    BY <2>1, <2>2
<1>2. Open => NoSilentLoss
  BY DEF LossInv, Accounted, NoSilentLoss
<1>3. Init => Open
  BY InitLoss
<1> HIDE DEF Open
<1> QED
  BY <1>1, <1>2, <1>3, Invariance, PTL DEF Spec

-----------------------------------------------------------------------------
(* The fetches: no partition of another member.                            *)

Joining == {"SendJoin", "Join", "Sync", "Prime", "Gate", "Publish"}
Rejoining == Joining \cup {"Prepare", "Call", "Prune", "Announce"}

\* Polls wait while a rejoin is requested or runs.  A heartbeat that tells that the member is
\* unknown is kept only during a call of the listener.
RequestInv ==
  /\ task.rejoin # "none" => shared.pending
  /\ task.pc \in Rejoining => task.rejoin # "none"
  /\ task.hb = "unknown" => task.pc = "Call"

\* What a step does to the request and to the heartbeat's verdict.
LEMMA RequestStep ==
  ASSUME Shape, LiveCall, RequestInv, Next
  PROVE  /\ RequestInv'
         /\ shared.pending => shared'.pending \/ task'.id = NoId \/ InCall("finish")
         /\ task'.hb = "unknown" =>
              task'.id = task.id /\ (task.hb = "unknown" \/ Unknown(task))
<1> DEFINE Goal == /\ RequestInv'
                   /\ shared.pending => shared'.pending \/ task'.id = NoId \/ InCall("finish")
                   /\ task'.hb = "unknown" =>
                        task'.id = task.id /\ (task.hb = "unknown" \/ Unknown(task))
<1> USE DEF RequestInv
<1>1. /\ DOMAIN task = TaskFields /\ DOMAIN shared = SharedFields
      /\ task.pc \in Rejoining => shared.pending
  BY DEF Shape
<1> SUFFICES Goal
  OBVIOUS
<1>2. ASSUME NEW t, DOMAIN t = TaskFields, NEW pc, pc \notin Rejoining, task' = Ended(t, pc),
             t.rejoin # "none" \/ shared.pending => shared'.pending
      PROVE  Goal
  <2>1. task'.pc = pc /\ task'.rejoin = t.rejoin /\ task'.hb = "none"
    BY <1>2 DEF Ended, TaskFields
  <2> QED
    BY <1>2, <2>1
<1>3. ASSUME NEW t, DOMAIN t = TaskFields, task' = t,
             t.rejoin # "none", shared'.pending, t.hb # "unknown"
      PROVE  Goal
  BY <1>3
<1>4. DOMAIN GiveUp(shared) = SharedFields /\ GiveUp(shared).pending
  BY <1>1 DEF GiveUp, SharedFields
<1>5. ASSUME FenceMember PROVE Goal
  <2>1. task'.pc = "Fenced" /\ task'.hb = "none"
    BY <1>1, <1>5, WithoutMemberFields DEF FenceMember, Ended, TaskFields
  <2>2. shared'.pending
    BY <1>4, <1>5 DEF FenceMember, SharedFields
  <2> QED
    BY <2>1, <2>2 DEF Rejoining, Joining
<1>6. ASSUME NEW t, NEW kind, NEW parts, NEW next, CallListener(t, kind, parts, next),
             DOMAIN t = TaskFields, t.rejoin # "none", shared'.pending
      PROVE  Goal
  <2>1. task'.pc = "Call" /\ task'.hb = "none" /\ task'.rejoin = t.rejoin
    BY <1>6 DEF CallListener, TaskFields
  <2> QED
    BY <1>6, <2>1
<1>7. ASSUME NEW t, Fail(t), DOMAIN t = TaskFields, t.rejoin = task.rejoin
      PROVE  Goal
  <2>1. shared'.pending = shared.pending
    BY <1>1, <1>7 DEF Fail, SharedFields
  <2> QED
    BY <1>2, <1>7, <2>1 DEF Fail, Rejoining, Joining
<1>8. CASE PollStart \/ PollEnter
  <2>1. /\ shared'.pending = shared.pending
        /\ task' = task \/ task' = Polled(task)
    BY <1>1, <1>8 DEF PollStart, PollEnter, SharedFields
  <2>2. /\ Polled(task).pc = task.pc /\ Polled(task).hb = task.hb /\ Polled(task).id = task.id
        /\ Polled(task).rejoin # "none" <=> task.rejoin # "none"
    BY <1>1 DEF Polled, TaskFields
  <2> QED
    BY <2>1, <2>2
<1>9. CASE \/ PollJoined \/ PollDeadline \/ PollReturn \/ Subscribe \/ EnforceRebalance
           \/ BrokerStep \/ BStartRebalance \/ BEvict \/ BFence \/ BCreateTopic
  <2>1. task' = task /\ shared' = shared
    BY <1>9 DEF PollJoined, PollDeadline, PollReturn, Subscribe, EnforceRebalance, BrokerStep,
                BComplete, BAssign, BStartRebalance, BEvict, BFence, BCreateTopic, BrokerOnly
  <2> QED
    BY <2>1
<1>10. CASE RunCall \/ DropCall \/ Unsubscribe
  <2>1. /\ \E w : task' = [task EXCEPT !.wait = w]
        /\ shared'.pending = shared.pending
    BY <1>1, <1>10 DEF RunCall, DropCall, Unsubscribe, RanAll, SharedFields
  <2> QED
    BY <1>1, <2>1 DEF TaskFields
<1>11. CASE Close
  <2>1. shared'.pending = shared.pending /\ task' = Ended(task, "Stopped")
    BY <1>1, <1>11 DEF Close, SharedFields
  <2> QED
    BY <1>1, <1>2, <2>1 DEF Rejoining, Joining
<1>12. CASE TaskPoll \/ HeartbeatInCall
  <2>1. /\ shared' = shared /\ task'.pc = task.pc /\ task'.rejoin = task.rejoin
        /\ task'.id = task.id
        /\ \/ task'.hb = task.hb
           \/ task.pc = "Call" /\ (task'.hb = "unknown" => HeartbeatOutcome = "RejoinFromScratch")
    BY <1>1, <1>12 DEF TaskPoll, HeartbeatInCall, TaskFields
  <2>2. HeartbeatOutcome = "RejoinFromScratch" => Unknown(task)
    BY DEF HeartbeatOutcome
  <2> QED
    BY <2>1, <2>2
<1>13. CASE MetadataCheck \/ TakeEnforced \/ (Heartbeat /\ ~FenceMember)
  <2>1. shared'.pending /\ task.pc = "Idle"
    BY <1>1, <1>4, <1>13 DEF MetadataCheck, TakeEnforced, Heartbeat, SharedFields
  <2>2. task'.pc = "Idle" /\ task'.hb = task.hb
    <3>1. \A t : DOMAIN t = TaskFields =>
            RequestAfterNextPoll(t).pc = t.pc /\ RequestAfterNextPoll(t).hb = t.hb
      BY DEF RequestAfterNextPoll, TaskFields
    <3>2. /\ DOMAIN WithoutMember(task) = TaskFields /\ WithoutMember(task).pc = task.pc
          /\ WithoutMember(task).hb = task.hb
      BY <1>1 DEF WithoutMember, TaskFields
    <3>3. \/ task' = RequestAfterNextPoll(task)
          \/ task' = RequestAfterNextPoll(WithoutMember(task))
          \/ \E r : task' = [task EXCEPT !.rejoin = r]
      BY <1>13 DEF MetadataCheck, TakeEnforced, Heartbeat
    <3>4. ASSUME NEW r, task' = [task EXCEPT !.rejoin = r]
          PROVE  task'.pc = task.pc /\ task'.hb = task.hb
      BY <1>1, <3>4 DEF TaskFields
    <3> QED
      BY <1>1, <2>1, <3>1, <3>2, <3>3, <3>4
  <2> QED
    BY <2>1, <2>2 DEF Rejoining, Joining
<1>14. CASE HandleSubscriptionChange
  <2> DEFINE gone == [task EXCEPT !.id = NoId, !.gen = NoGen, !.lost = {}, !.rejoin = "none"]
             t == IF app.unsubscribed THEN gone ELSE task
             request == app.sub # {} /\ (app.sub # t.joined \/ t.id = NoId)
  <2>1. /\ DOMAIN t = TaskFields /\ t.pc = "Idle" /\ t.hb # "unknown"
        /\ app.unsubscribed => t.id = NoId
        /\ t.rejoin # "none" => shared.pending /\ ~app.unsubscribed
    BY <1>1, <1>14 DEF HandleSubscriptionChange, TaskFields
  <2>2. /\ shared'.pending <=> (shared.pending /\ ~app.unsubscribed) \/ request
        /\ task' = CASE app.sub = {} -> t
                     [] app.sub # {} /\ ~request -> [t EXCEPT !.watched = app.sub]
                     [] request -> [RequestAfterNextPoll(t) EXCEPT
                                    !.watched = app.sub,
                                    !.known = IF app.sub # t.joined
                                                THEN broker.exists \cap app.sub ELSE @]
    BY <1>1, <1>14 DEF HandleSubscriptionChange, SharedFields
  <2> HIDE DEF t
  <2>3. RequestAfterNextPoll(t).hb = t.hb /\ RequestAfterNextPoll(t).pc = t.pc
        /\ RequestAfterNextPoll(t).id = t.id
        /\ DOMAIN RequestAfterNextPoll(t) = TaskFields
    BY <2>1 DEF RequestAfterNextPoll, TaskFields
  <2>4. task'.pc = "Idle" /\ task'.hb = t.hb /\ task'.id = t.id
        /\ (task'.rejoin = t.rejoin \/ request)
    BY <2>1, <2>2, <2>3 DEF TaskFields
  <2> QED
    BY <2>1, <2>2, <2>4 DEF Rejoining, Joining
<1>15. CASE PollTimeout \/ CallTimeout
  <2>1. PICK t : DOMAIN t = TaskFields /\ LeaveOnPollTimeout(t)
    <3>1. DOMAIN [task EXCEPT !.rejoin = "none"] = TaskFields
      BY <1>1 DEF TaskFields
    <3> QED
      BY <1>1, <1>15, <3>1, RequestFields DEF PollTimeout, CallTimeout
  <2>2. DOMAIN WithoutMember(t) = TaskFields
    BY <2>1, WithoutMemberFields
  <2>3. shared'.pending /\ task' = Ended(WithoutMember(t), "Idle")
    BY <1>4, <2>1 DEF LeaveOnPollTimeout, SharedFields
  <2> QED
    BY <1>2, <2>2, <2>3 DEF Rejoining, Joining
<1>16. CASE FencedWake
  <2>1. task'.pc \in {"Idle", "Fenced"} /\ task'.hb = task.hb /\ task.pc = "Fenced"
        /\ (task'.rejoin # "none" \/ shared.pending => shared'.pending)
    BY <1>1, <1>16 DEF FencedWake, TaskFields, SharedFields
  <2> QED
    BY <2>1 DEF Rejoining, Joining
<1>17. CASE StartRejoin
  <2>1. task'.rejoin = "due" /\ task'.hb = task.hb /\ task.pc = "Idle" /\ task.rejoin = "due"
        /\ shared' = shared
    BY <1>1, <1>17 DEF StartRejoin, BeginJoin, TaskFields
  <2> QED
    BY <2>1
<1>18. CASE JoinPrepare
  <2> DEFINE T(f) == [(IF f THEN WithoutMember(task) ELSE task) EXCEPT !.prepared = TRUE]
             S(f) == IF f THEN GiveUp(shared) ELSE shared
             G(f) == S(f).assigned \ app.sub
  <2>1. task.pc = "Prepare"
    BY <1>18 DEF JoinPrepare
  <2>2. \A f \in BOOLEAN : /\ DOMAIN T(f) = TaskFields /\ T(f).rejoin # "none"
                           /\ T(f).hb # "unknown" /\ S(f).pending
    <3>1. /\ DOMAIN WithoutMember(task) = TaskFields /\ WithoutMember(task).rejoin = task.rejoin
          /\ WithoutMember(task).hb = task.hb
      BY <1>1 DEF WithoutMember, TaskFields
    <3> HIDE DEF S
    <3>2. S(TRUE).pending /\ S(FALSE).pending
      BY <1>1, <1>4, <2>1 DEF S, Rejoining
    <3>3. task.rejoin # "none" /\ task.hb # "unknown"
      BY <2>1 DEF Rejoining
    <3> QED
      BY <1>1, <3>1, <3>2, <3>3 DEF TaskFields
  <2>3. \/ FenceMember
        \/ \E f \in BOOLEAN :
             /\ shared' = S(f)
             /\ \/ CallListener([T(f) EXCEPT !.lost = {}], "Lost", T(f).lost, "join")
                \/ CallListener(T(f), "Revoked", S(f).assigned, "join")
                \/ CallListener([T(f) EXCEPT !.new = S(f).assigned \ G(f)], "Revoked", G(f), "kept")
                \/ task' = [T(f) EXCEPT !.pc = "SendJoin"]
    <3>1. Unknown(task) \in BOOLEAN
      BY DEF Unknown
    <3>2. \/ FenceMember
          \/ \E f \in {FALSE, Unknown(task)} :
               /\ shared' = S(f)
               /\ CASE (T(f).id = NoId \/ T(f).gen = NoGen) /\ T(f).lost # {} ->
                         CallListener([T(f) EXCEPT !.lost = {}], "Lost", T(f).lost, "join")
                    [] (T(f).id # NoId /\ T(f).gen # NoGen) /\ Eager ->
                         CallListener(T(f), "Revoked", S(f).assigned, "join")
                    [] (T(f).id # NoId /\ T(f).gen # NoGen) /\ ~Eager /\ G(f) # {} ->
                         CallListener([T(f) EXCEPT !.new = S(f).assigned \ G(f)], "Revoked", G(f),
                                      "kept")
                    [] OTHER -> task' = [T(f) EXCEPT !.pc = "SendJoin"] /\ TaskRest
      BY <1>18 DEF JoinPrepare
    <3> HIDE DEF T, S, G
    <3> QED
      BY <3>1, <3>2
  <2>4. ASSUME NEW f \in BOOLEAN, shared' = S(f),
               \/ CallListener([T(f) EXCEPT !.lost = {}], "Lost", T(f).lost, "join")
               \/ CallListener(T(f), "Revoked", S(f).assigned, "join")
               \/ CallListener([T(f) EXCEPT !.new = S(f).assigned \ G(f)], "Revoked", G(f), "kept")
               \/ task' = [T(f) EXCEPT !.pc = "SendJoin"]
        PROVE  Goal
    <3> DEFINE t == T(f)
    <3>1. DOMAIN t = TaskFields /\ t.rejoin # "none" /\ t.hb # "unknown" /\ shared'.pending
      BY <2>2, <2>4
    <3>2. \/ CallListener([t EXCEPT !.lost = {}], "Lost", t.lost, "join")
          \/ CallListener(t, "Revoked", S(f).assigned, "join")
          \/ CallListener([t EXCEPT !.new = S(f).assigned \ G(f)], "Revoked", G(f), "kept")
          \/ task' = [t EXCEPT !.pc = "SendJoin"]
      BY <2>4
    <3> HIDE DEF t, T, S, G
    <3>3. \A x : /\ DOMAIN [t EXCEPT !.lost = x] = TaskFields
                 /\ DOMAIN [t EXCEPT !.new = x] = TaskFields
                 /\ DOMAIN [t EXCEPT !.pc = x] = TaskFields
                 /\ [t EXCEPT !.lost = x].rejoin # "none" /\ [t EXCEPT !.new = x].rejoin # "none"
                 /\ [t EXCEPT !.pc = x].rejoin # "none" /\ [t EXCEPT !.pc = x].hb # "unknown"
      BY <3>1 DEF TaskFields
    <3> HIDE DEF Goal
    <3>4. CASE task' = [t EXCEPT !.pc = "SendJoin"]
      BY <1>3, <3>1, <3>3, <3>4
    <3>5. CASE CallListener([t EXCEPT !.lost = {}], "Lost", t.lost, "join")
      BY <1>6, <3>1, <3>3, <3>5
    <3>6. CASE CallListener(t, "Revoked", S(f).assigned, "join")
      BY <1>6, <3>1, <3>6
    <3>7. CASE CallListener([t EXCEPT !.new = S(f).assigned \ G(f)], "Revoked", G(f), "kept")
      BY <1>6, <3>1, <3>3, <3>7
    <3> QED
      BY <3>2, <3>4, <3>5, <3>6, <3>7
  <2> QED
    BY <1>5, <2>3, <2>4
<1>19. CASE CallReturns
  <2>1. task.pc = "Call" /\ task.next \in Nexts
    BY <1>19 DEF CallReturns, LiveCall
  <2>2. ASSUME NEW t, NEW s, Continue(t, s), DOMAIN t = TaskFields, DOMAIN s = SharedFields,
               t.next = task.next, t.rejoin # "none", s.pending
        PROVE  Goal
    <3> DEFINE back == [t EXCEPT !.call = NoCall, !.next = "none", !.wait = "none", !.hb = "none"]
    <3>1. DOMAIN back = TaskFields /\ back.rejoin # "none" /\ back.hb = "none"
      BY <2>2 DEF TaskFields
    <3>2. CASE task.next = "finish"
      <4>1. task' = [Ended(t, "Idle") EXCEPT !.rejoin = "none", !.known = @ \cup t.snapshot]
        BY <2>2, <3>2 DEF Continue, Complete
      <4>2. DOMAIN Ended(t, "Idle") = TaskFields /\ Ended(t, "Idle").hb = "none"
            /\ Ended(t, "Idle").pc = "Idle"
        BY <2>2 DEF Ended, TaskFields
      <4>3. task'.rejoin = "none" /\ task'.hb = "none" /\ task'.pc = "Idle"
        BY <4>1, <4>2 DEF TaskFields
      <4> QED
        BY <2>1, <3>2, <4>3 DEF Rejoining, Joining, InCall
    <3>3. CASE task.next # "finish"
      <4>1. /\ shared'.pending
            /\ \/ task' = [back EXCEPT !.pc = "SendJoin"]
               \/ task' = [back EXCEPT !.pc = "SendJoin", !.new = {}]
               \/ task' = [back EXCEPT !.pc = "Prime"]
               \/ task' = BeginJoin([back EXCEPT !.rnd = 2])
        BY <2>1, <2>2, <3>3 DEF Continue, StepAfter, Nexts, SharedFields
      <4> HIDE DEF back
      <4>2. task'.rejoin # "none" /\ task'.hb = "none"
        <5>1. /\ DOMAIN [back EXCEPT !.rnd = 2] = TaskFields
              /\ [back EXCEPT !.rnd = 2].rejoin = back.rejoin /\ [back EXCEPT !.rnd = 2].hb = "none"
          BY <3>1 DEF TaskFields
        <5>2. \A u : DOMAIN u = TaskFields =>
                BeginJoin(u).rejoin = u.rejoin /\ BeginJoin(u).hb = u.hb
          BY DEF BeginJoin, TaskFields
        <5>3. ASSUME task' # BeginJoin([back EXCEPT !.rnd = 2])
              PROVE  task'.rejoin = back.rejoin /\ task'.hb = "none"
          BY <3>1, <4>1, <5>3 DEF TaskFields
        <5> QED
          BY <3>1, <5>1, <5>2, <5>3
      <4> QED
        BY <4>1, <4>2
    <3> QED
      BY <3>2, <3>3
  <2>3. CASE Continue(WithoutMember(task), GiveUp(shared))
    <3>1. /\ DOMAIN WithoutMember(task) = TaskFields /\ WithoutMember(task).rejoin = task.rejoin
          /\ WithoutMember(task).next = task.next
      BY <1>1, WithoutMemberFields DEF SameRejoin
    <3> QED
      BY <1>4, <2>1, <2>2, <2>3, <3>1 DEF Rejoining
  <2>4. CASE Continue(task, shared)
    BY <1>1, <2>1, <2>2, <2>4 DEF Rejoining
  <2>5. CASE Resend
    BY <1>1, <1>6, <2>1, <2>5 DEF Resend, Rejoining
  <2> QED
    BY <1>5, <1>19, <2>3, <2>4, <2>5 DEF CallReturns
<1>20. CASE SendJoin
  <2> DEFINE id == IF task.id = NoId THEN Next1(broker.minted) ELSE task.id
             t == [task EXCEPT !.joined = app.sub, !.watched = app.sub, !.id = id,
                               !.owned = shared.assigned]
  <2>1. DOMAIN t = TaskFields /\ t.rejoin = task.rejoin /\ t.hb = task.hb
    BY <1>1 DEF TaskFields
  <2>2. /\ task.pc = "SendJoin"
        /\ FenceMember \/ Fail(t) \/ (task' = [t EXCEPT !.pc = "Join"] /\ shared' = shared)
    BY <1>20 DEF SendJoin
  <2> HIDE DEF t, Goal
  <2>3. CASE task' = [t EXCEPT !.pc = "Join"] /\ shared' = shared
    <3>1. task'.rejoin = task.rejoin /\ task'.hb = task.hb
      BY <2>1, <2>3 DEF TaskFields
    <3> QED
      BY <1>1, <2>2, <2>3, <3>1 DEF Goal, Rejoining, Joining
  <2> QED
    BY <1>5, <1>7, <2>1, <2>2, <2>3
<1>25. CASE JoinAnswer
  <2>1. /\ task.pc = "Join"
        /\ \/ FenceMember \/ Fail(task)
           \/ /\ shared' = shared
              /\ \E s, w : task' = [task EXCEPT !.pc = "Sync", !.ngen = broker.gen,
                                                !.snapshot = s, !.watched = w]
    <3> HIDE DEF RequestInv, Goal
    <3> QED
      BY <1>25 DEF JoinAnswer, TaskRest
  <2>2. ASSUME shared' = shared, NEW s, NEW w,
               task' = [task EXCEPT !.pc = "Sync", !.ngen = broker.gen, !.snapshot = s,
                                    !.watched = w]
        PROVE  Goal
    <3>1. task'.rejoin = task.rejoin /\ task'.hb = task.hb
      BY <1>1, <2>2 DEF TaskFields
    <3> QED
      BY <1>1, <2>1, <2>2, <3>1 DEF Rejoining, Joining
  <2> HIDE DEF Goal
  <2> QED
    BY <1>1, <1>5, <1>7, <2>1, <2>2
<1>21. CASE SyncAnswer
  <2> DEFINE t == [task EXCEPT !.new = broker.mine, !.prepared = FALSE]
             u == [t EXCEPT !.gen = t.ngen]
  <2>1. task.pc \in Rejoining /\ task.pc # "Call"
    BY <1>21 DEF SyncAnswer, Rejoining, Joining
  <2>2. DOMAIN t = TaskFields /\ t.rejoin = task.rejoin /\ t.hb = task.hb
    BY <1>1 DEF TaskFields
  <2>3. FenceMember \/ Fail(task) \/ AfterSync(t)
    BY <1>21 DEF SyncAnswer
  <2> HIDE DEF t
  <2>4. DOMAIN u = TaskFields /\ u.rejoin = task.rejoin
    BY <2>2 DEF TaskFields
  <2>5. \/ FenceMember \/ Fail(task)
        \/ CallListener(u, "Revoked", t.owned \ t.new, "add") /\ shared' = shared
        \/ task' = [t EXCEPT !.pc = "Prime"] /\ shared' = shared
    BY <2>3 DEF AfterSync, StepAfter
  <2> HIDE DEF u
  <2>6. CASE task' = [t EXCEPT !.pc = "Prime"] /\ shared' = shared
    <3>1. task'.rejoin = task.rejoin /\ task'.hb = task.hb
      BY <2>2, <2>6 DEF TaskFields
    <3> QED
      BY <1>1, <2>1, <2>6, <3>1
  <2>7. CASE CallListener(u, "Revoked", t.owned \ t.new, "add") /\ shared' = shared
    BY <1>1, <1>6, <2>1, <2>4, <2>7
  <2> QED
    BY <1>1, <1>5, <1>7, <2>5, <2>6, <2>7
<1>22. CASE Installing
  <2>1. /\ task.pc \in Rejoining /\ task.pc # "Call" /\ task'.rejoin = task.rejoin
        /\ task'.hb = task.hb /\ shared'.pending = shared.pending
    BY <1>22, InstallEffect DEF Installed, Rejoining, Joining
  <2> QED
    BY <1>1, <2>1
<1>26. CASE AnnounceAssignment
  <2>1. /\ task.pc \in Rejoining /\ shared' = shared
        /\ \E n : CallListener(task, "Assigned", Announced(task), n)
    BY <1>26 DEF AnnounceAssignment, Rejoining
  <2> QED
    BY <1>1, <1>6, <2>1
<1>23. CASE RejoinFails
  <2>1. task' = Ended(task, "Idle") /\ shared'.pending = shared.pending
    BY <1>1, <1>23 DEF RejoinFails, SharedFields
  <2> QED
    BY <1>1, <1>2, <2>1 DEF Rejoining, Joining
<1>24. CASE Heartbeat /\ FenceMember
  BY <1>5, <1>24
<1> HIDE DEF Goal
<1> QED
  BY <1>8, <1>9, <1>10, <1>11, <1>12, <1>13, <1>14, <1>15, <1>16, <1>17, <1>18, <1>19, <1>20,
     <1>21, <1>22, <1>23, <1>24, <1>25, <1>26 DEF Next, AppStep, TaskStep, Installing

\* The member is one of the group.
Member == task.id # NoId /\ task.id = broker.id

\* The group is about to place partitions, in a round that knows of this member.
Reassigning == broker.join = "waiting" \/ broker.phase = "Completing"

\* The member knows its assignment of this round.
Synced == \/ task.pc \in {"Prime", "Gate", "Publish", "Prune", "Announce"}
          \/ InCall("add") \/ InCall("round2") \/ InCall("finish")

\* A member that is not fenced is in the group under its id; without an id or a generation it
\* owns nothing, and has no round under way.
MemberInv ==
  /\ task.id # NoId => \/ broker.id = task.id
                       \/ broker.id = NoId /\ broker.fenced = task.id
  /\ task.id = NoId \/ task.gen = NoGen => shared.assigned = {}
  /\ task.id = NoId => task.pc \in {"Idle", "Fenced", "Prepare", "SendJoin"} \/ InCall("join")
  /\ InCall("kept") => task.gen # NoGen
  /\ task.hb = "unknown" => task.id = NoId
  /\ task.pc \in {"Sync", "Prime", "Gate", "Publish"} \/ InCall("add") => task.ngen # NoGen

\* No new round can place partitions between the sync of the member and its next join.
RoundInv ==
  /\ broker.mine \cap broker.other = {}
  /\ task.pc = "Sync" /\ Member => broker.join # "waiting"
  /\ Synced => ~task.prepared
  /\ Synced /\ Member => ~Reassigning /\ task.new \cap broker.other = {}
  /\ task.pc \in {"Prune", "Announce"} \/ InCall("round2") \/ InCall("finish") =>
       shared.assigned \subseteq task.new

\* The group gave these partitions to nobody else, and will not in the round under way.
Honoured(parts) ==
  parts \cap broker.other = {} /\ (Reassigning => parts \subseteq broker.claims)

\* A cooperative member claims all that it owns, or will own once its revocation is told.
CooperativeFetch ==
  ~Eager /\ Member => Honoured(shared.assigned) /\ (InCall("kept") => Honoured(task.new))

\* What a poll of an eager member can fetch is settled.
Settled ==
  \/ shared.assigned \subseteq shared.gate
  \/ ~Reassigning /\ shared.assigned \cap broker.other = {}

\* An eager member that owns something fetches nothing from its join to its sync, and polls
\* find a settled assignment or wait.
EagerFetch ==
  Eager =>
    /\ ~(InCall("kept") \/ InCall("add") \/ InCall("round2"))
    /\ task.prepared /\ shared.assigned # {} => shared.pending
    /\ app.pc = "fetch" /\ shared.assigned # {} =>
         /\ task.pc \notin Joining
         /\ task.prepared \/ InCall("join") => InCall("join") /\ task.wait = "queued"
    /\ Member /\ (~shared.pending \/ app.pc = "fetch") => Settled

ExclusiveInv == RequestInv /\ MemberInv /\ RoundInv /\ CooperativeFetch /\ EagerFetch

\* The steps of the group itself.
GroupAction == BrokerStep \/ BStartRebalance \/ BEvict \/ BFence \/ BCreateTopic

\* The steps in which the member speaks to the group.
MemberAction ==
  \/ Close \/ PollTimeout \/ CallTimeout \/ HandleSubscriptionChange \/ SendJoin \/ JoinAnswer

\* The other steps leave the group alone.
LEMMA BrokerUnchanged ==
  ASSUME Shape, Next, ~GroupAction, ~MemberAction
  PROVE  broker' = broker
<1>1. CASE \/ PollStart \/ RunCall \/ PollEnter \/ PollJoined \/ PollDeadline \/ PollReturn
           \/ DropCall \/ Subscribe \/ Unsubscribe \/ EnforceRebalance \/ TaskPoll
           \/ MetadataCheck \/ TakeEnforced \/ FencedWake \/ StartRejoin \/ HeartbeatInCall
           \/ RejoinFails
  BY <1>1 DEF PollStart, RunCall, PollEnter, PollJoined, PollDeadline, PollReturn, DropCall,
              Subscribe, Unsubscribe, EnforceRebalance, TaskPoll, MetadataCheck, TakeEnforced,
              FencedWake, StartRejoin, HeartbeatInCall, RejoinFails, TaskRest
<1>2. CASE Heartbeat \/ CallReturns
  BY <1>2 DEF Heartbeat, CallReturns, Resend, CallListener, FenceMember, TaskRest
<1>3. CASE JoinPrepare
  BY <1>3, JoinPrepareEffect DEF JoinPrepared, FenceMember
<1>4. CASE SyncAnswer \/ Installing \/ AnnounceAssignment
  BY <1>4, SyncAnswerEffect, InstallEffect, AnnounceEffect DEF FenceMember, Failed, Installed
<1> QED
  BY <1>1, <1>2, <1>3, <1>4 DEF Next, AppStep, TaskStep, Installing, GroupAction, MemberAction

\* A poll starts to fetch in a step of its own, and an eager one finds no rebalance pending.
LEMMA FetchStarts ==
  ASSUME Shape, Next, app'.pc = "fetch", app.pc # "fetch"
  PROVE  UNCHANGED <<conf, task, shared, broker>> /\ (Eager => ~shared.pending)
<1>1. CASE PollStart \/ PollEnter \/ PollJoined
  BY <1>1 DEF PollStart, PollEnter, PollJoined, MayFetch, PolledApp, Shape, AppFields
<1>2. CASE RunCall \/ PollDeadline \/ PollReturn \/ DropCall
  BY <1>2 DEF RunCall, PollDeadline, PollReturn, DropCall, Shape, AppFields
<1>3. CASE Subscribe \/ Unsubscribe \/ EnforceRebalance \/ Close \/ TakeEnforced
  BY <1>3 DEF Subscribe, Unsubscribe, EnforceRebalance, Close, TakeEnforced, AppCall, Shape,
              AppFields
<1>4. CASE HandleSubscriptionChange
  BY <1>4, SubscriptionEffect
<1>5. CASE \/ TaskPoll \/ MetadataCheck \/ Heartbeat \/ PollTimeout \/ FencedWake \/ StartRejoin
           \/ HeartbeatInCall \/ CallTimeout \/ RejoinFails \/ CallReturns
  BY <1>5 DEF TaskPoll, MetadataCheck, Heartbeat, PollTimeout, FencedWake, StartRejoin,
              HeartbeatInCall, CallTimeout, RejoinFails, CallReturns, Resend, CallListener,
              TaskRest, FenceMember
<1>6. CASE JoinPrepare \/ SendJoin \/ JoinAnswer \/ SyncAnswer \/ Installing
           \/ AnnounceAssignment
  BY <1>6, JoinPrepareEffect, SendJoinEffect, JoinAnswerEffect, SyncAnswerEffect, InstallEffect,
     AnnounceEffect DEF JoinPrepared, FenceMember, Failed, Proceeds, Installed
<1>7. CASE GroupAction
  BY <1>7 DEF GroupAction, BrokerStep, BComplete, BAssign, BStartRebalance, BEvict, BFence,
              BCreateTopic, BrokerOnly
<1> QED
  BY <1>1, <1>2, <1>3, <1>4, <1>5, <1>6, <1>7 DEF Next, AppStep, TaskStep, Installing, GroupAction

LEMMA LeaveGroupEffect ==
  ASSUME Shape, NEW id, broker' = LeaveGroup(id)
  PROVE  broker'.other = broker.other /\ (broker'.mine = broker.mine \/ broker'.mine = {})
BY DEF LeaveGroup, Without, Shape, BrokerFields

\* A member that leaves, for whichever reason, has no id afterwards.
LEMMA LeaveBroker ==
  ASSUME Shape, PollTimeout \/ CallTimeout \/ HandleSubscriptionChange
  PROVE  /\ broker'.other = broker.other /\ (broker'.mine = broker.mine \/ broker'.mine = {})
         /\ task'.id # NoId => broker' = broker
<1>1. CASE PollTimeout \/ CallTimeout
  <2>1. \E id : broker' = LeaveGroup(id)
    BY <1>1 DEF PollTimeout, CallTimeout, LeaveOnPollTimeout
  <2>2. task'.id = NoId
    BY <1>1, PollTimeoutEffect, CallTimeoutEffect DEF Forgets
  <2> QED
    BY <2>1, <2>2, LeaveGroupEffect
<1>2. CASE HandleSubscriptionChange
  <2>1. broker' = broker \/ (app.unsubscribed /\ broker' = LeaveGroup(task.id))
    BY <1>2 DEF HandleSubscriptionChange
  <2>2. app.unsubscribed => task'.id = NoId
    BY <1>2, SubscriptionEffect
  <2> QED
    BY <2>1, <2>2, LeaveGroupEffect
<1> QED
  BY <1>1, <1>2

\* JoinGroup: the broker takes the member up, and what a cooperative one claims.
JoinSent ==
  /\ task'.id = broker'.id /\ broker'.join = "waiting" /\ broker'.phase = "Preparing"
  /\ task.id # NoId => task'.id = task.id /\ broker.id = task.id
  /\ broker'.other = broker.other /\ (broker'.mine = broker.mine \/ broker'.mine = {})
  /\ ~Eager => broker'.claims = shared.assigned \ broker.other

LEMMA SendJoinBroker ==
  ASSUME Shape, SendJoin
  PROVE  FenceMember \/ Failed \/ (task'.pc = "Join" /\ JoinSent)
<1> DEFINE id == IF task.id = NoId THEN Next1(broker.minted) ELSE task.id
           t == [task EXCEPT !.joined = app.sub, !.watched = app.sub, !.id = id,
                             !.owned = shared.assigned]
<1>1. \/ FenceMember
      \/ task.id # NoId /\ Fail(t) /\ UNCHANGED <<conf, app, calls, held, broker>>
      \/ /\ task' = [t EXCEPT !.pc = "Join"]
         /\ task.id = NoId \/ task.id = broker.id
         /\ broker' = [broker EXCEPT
                !.id = id, !.minted = IF task.id = NoId THEN id ELSE @, !.phase = "Preparing",
                !.mine = IF task.id = NoId THEN {} ELSE @, !.join = "waiting", !.topics = app.sub,
                !.claims = IF Eager THEN {} ELSE shared.assigned \ broker.other]
  BY DEF SendJoin, TaskRest
<1>2. DOMAIN t = TaskFields /\ t.id = id /\ t.prepared = task.prepared
  BY DEF Shape, TaskFields
<1>3. task.id # NoId => SameMember(t, task)
  BY DEF Shape, TaskFields, SameMember
<1> HIDE DEF t
<1>4. CASE task.id # NoId /\ Fail(t) /\ UNCHANGED <<conf, app, calls, held, broker>>
  BY <1>2, <1>3, <1>4, FailEffect
<1>5. CASE /\ task' = [t EXCEPT !.pc = "Join"]
           /\ task.id = NoId \/ task.id = broker.id
           /\ broker' = [broker EXCEPT
                !.id = id, !.minted = IF task.id = NoId THEN id ELSE @, !.phase = "Preparing",
                !.mine = IF task.id = NoId THEN {} ELSE @, !.join = "waiting", !.topics = app.sub,
                !.claims = IF Eager THEN {} ELSE shared.assigned \ broker.other]
  <2>1. task'.pc = "Join" /\ task'.id = id
    BY <1>2, <1>5 DEF TaskFields
  <2>2. /\ broker'.id = id /\ broker'.join = "waiting" /\ broker'.phase = "Preparing"
        /\ broker'.other = broker.other /\ (broker'.mine = broker.mine \/ broker'.mine = {})
        /\ ~Eager => broker'.claims = shared.assigned \ broker.other
    BY <1>5 DEF Shape, BrokerFields
  <2> QED
    BY <1>5, <2>1, <2>2 DEF JoinSent
<1> QED
  BY <1>1, <1>4, <1>5

\* The answer of JoinGroup ends the wait of the broker for the member.
LEMMA JoinAnswerBroker ==
  ASSUME Shape, JoinAnswer
  PROVE  \/ FenceMember \/ Failed
         \/ /\ task'.pc = "Sync" /\ broker'.join = "none" /\ broker.join = "ready"
            /\ broker'.id = broker.id /\ broker'.fenced = broker.fenced
            /\ broker'.phase = broker.phase /\ broker'.claims = broker.claims
            /\ broker'.mine = broker.mine /\ broker'.other = broker.other
<1>1. \/ FenceMember
      \/ Fail(task) /\ UNCHANGED <<conf, app, calls, held, broker>>
      \/ broker.join = "ready" /\ broker' = [broker EXCEPT !.join = "none"]
  BY DEF JoinAnswer, TaskRest
<1>2. CASE Fail(task) /\ UNCHANGED <<conf, app, calls, held, broker>>
  BY <1>2, FailEffect DEF Shape, SameMember
<1>3. CASE broker.join = "ready" /\ broker' = [broker EXCEPT !.join = "none"]
  <2>1. FenceMember \/ Failed \/ task'.pc = "Sync"
    BY JoinAnswerEffect
  <2> QED
    BY <1>3, <2>1 DEF Shape, BrokerFields
<1> QED
  BY <1>1, <1>2, <1>3

\* The group completes a round only with the member, and places nothing the member claims.
LEMMA GroupExclusive ==
  ASSUME Shape, ExclusiveInv, GroupAction, "evict" \notin Faults
  PROVE  ExclusiveInv'
<1>1. UNCHANGED <<conf, task, shared, app>> /\ DOMAIN broker = BrokerFields
  BY DEF GroupAction, BrokerStep, BComplete, BAssign, BStartRebalance, BEvict, BFence,
         BCreateTopic, BrokerOnly, Shape
<1> USE DEF ExclusiveInv
<1>2. RequestInv'
  BY <1>1 DEF RequestInv
<1>3. ASSUME /\ broker'.id = broker.id /\ broker'.fenced = broker.fenced
             /\ broker'.mine \cap broker'.other = {}
             /\ Reassigning' /\ Member => Reassigning /\ broker'.claims = broker.claims
             /\ broker'.join = "waiting" => broker.join = "waiting"
             /\ broker'.other = broker.other
      PROVE  ExclusiveInv'
  <2>1. Member' <=> Member
    BY <1>1, <1>3 DEF Member
  <2>2. MemberInv'
    BY <1>1, <1>3 DEF MemberInv, InCall
  <2>3. RoundInv'
    BY <1>1, <1>3, <2>1 DEF RoundInv, Synced, InCall
  <2>4. CooperativeFetch'
    BY <1>1, <1>3, <2>1 DEF CooperativeFetch, Honoured, InCall, Eager
  <2>5. EagerFetch'
    BY <1>1, <1>3, <2>1 DEF EagerFetch, Settled, InCall, Eager
  <2> QED
    BY <1>2, <2>2, <2>3, <2>4, <2>5
<1>4. CASE BCreateTopic \/ BStartRebalance
  <2>1. \E x, e : broker' = [broker EXCEPT !.exists = e] \/ broker' = [broker EXCEPT !.phase = "Preparing"]
    BY <1>4 DEF BCreateTopic, BStartRebalance
  <2> QED
    BY <1>1, <1>3, <2>1 DEF BrokerFields, Reassigning, RoundInv
<1>5. CASE BComplete
  <2>1. /\ broker.id = NoId \/ broker.join = "waiting"
        /\ \E g, l : broker' = [broker EXCEPT !.phase = "Completing", !.gen = g,
                                    !.join = IF broker.id = NoId THEN "none" ELSE "ready",
                                    !.leader = l]
    BY <1>5 DEF BComplete
  <2>2. /\ broker'.id = broker.id /\ broker'.fenced = broker.fenced /\ broker'.mine = broker.mine
        /\ broker'.other = broker.other /\ broker'.claims = broker.claims
        /\ broker'.join # "waiting"
    BY <1>1, <2>1 DEF BrokerFields
  <2>3. Member => Reassigning
    BY <2>1 DEF Member, Reassigning
  <2> QED
    BY <1>3, <2>2, <2>3 DEF RoundInv
<1>6. CASE BFence
  <2>1. broker' = [[broker EXCEPT !.id = NoId, !.mine = {}, !.join = "none", !.phase = "Preparing"]
                     EXCEPT !.fenced = broker.id]
        /\ broker.id # NoId
    BY <1>6 DEF BFence, Without
  <2>2. /\ broker'.id = NoId /\ broker'.mine = {} /\ broker'.fenced = broker.id
    BY <1>1, <2>1 DEF BrokerFields
  <2>3. ~Member' /\ broker.id # NoId
    BY <2>1, <2>2 DEF Member
  <2>4. MemberInv'
    BY <1>1, <2>2, <2>3 DEF MemberInv, InCall
  <2>5. RoundInv' /\ CooperativeFetch' /\ EagerFetch'
    BY <1>1, <2>2, <2>3 DEF RoundInv, CooperativeFetch, EagerFetch, Settled, InCall, Eager, Synced
  <2> QED
    BY <1>2, <2>4, <2>5
<1>7. CASE BAssign
  <2>1. /\ broker.phase = "Completing"
        /\ \E mine, other : /\ mine \cap other = {}
                            /\ ~Eager => other \cap broker.claims = {}
                            /\ broker' = [broker EXCEPT !.phase = "Stable", !.mine = mine,
                                                        !.other = other]
    <3> DEFINE topics == IF broker.leader THEN task.snapshot ELSE broker.exists
               free == IF Eager THEN topics ELSE broker.claims \cup (topics \ broker.other)
    <3>1. /\ broker.phase = "Completing"
          /\ \E mine \in SUBSET (IF broker.id = NoId THEN {} ELSE free \cap broker.topics),
                other \in SUBSET (broker.exists \ (IF Eager THEN {} ELSE broker.claims)) :
               /\ mine \cap other = {}
               /\ broker' = [broker EXCEPT !.phase = "Stable", !.mine = mine, !.other = other]
      BY <1>7 DEF BAssign
    <3>2. PICK mine, other :
               /\ other \in SUBSET (broker.exists \ (IF Eager THEN {} ELSE broker.claims))
               /\ mine \cap other = {}
               /\ broker' = [broker EXCEPT !.phase = "Stable", !.mine = mine, !.other = other]
      BY <3>1
    <3>3. ~Eager => other \cap broker.claims = {}
      BY <3>2
    <3> QED
      BY <3>1, <3>2, <3>3
  <2>2. /\ broker'.id = broker.id /\ broker'.fenced = broker.fenced
        /\ broker'.mine \cap broker'.other = {} /\ broker'.join = broker.join
        /\ broker'.phase = "Stable" /\ broker'.claims = broker.claims
        /\ ~Eager => broker'.other \cap broker.claims = {}
    <3>1. PICK mine, other : /\ mine \cap other = {}
                             /\ ~Eager => other \cap broker.claims = {}
                             /\ broker' = [broker EXCEPT !.phase = "Stable", !.mine = mine,
                                                         !.other = other]
      BY <2>1
    <3> QED
      BY <1>1, <3>1 DEF BrokerFields
  <2>3. Reassigning /\ (Member' <=> Member)
    BY <1>1, <2>1, <2>2 DEF Reassigning, Member
  <2>4. MemberInv'
    BY <1>1, <2>2 DEF MemberInv, InCall
  <2>5. RoundInv'
    BY <1>1, <2>2, <2>3 DEF RoundInv, Synced, InCall
  <2>6. CooperativeFetch'
    BY <1>1, <2>2, <2>3 DEF CooperativeFetch, Honoured, Reassigning, InCall, Eager
  <2>7. EagerFetch'
    BY <1>1, <2>2, <2>3 DEF EagerFetch, Settled, InCall, Eager
  <2> QED
    BY <1>2, <2>4, <2>5, <2>6, <2>7
<1>8. ~BEvict
  BY DEF BEvict, Spend
<1> QED
  BY <1>4, <1>5, <1>6, <1>7, <1>8 DEF GroupAction, BrokerStep

LEMMA MemberStep ==
  ASSUME Inv, ExclusiveInv, Next, ~GroupAction, app'.pc # "closed"
  PROVE  MemberInv'
<1>1. Shape /\ LiveCall /\ RequestInv /\ MemberInv
  BY DEF Inv, ListenerInv, ExclusiveInv
<1>2. task.id # NoId => ~Unknown(task)
  BY <1>1 DEF MemberInv, Unknown, IsFenced
<1>3. task'.hb = "unknown" => task'.id = NoId
  BY <1>1, <1>2, RequestStep DEF MemberInv
<1> USE DEF MemberInv, InCall
<1>4. ASSUME FenceMember PROVE MemberInv'
  BY <1>1, <1>3, <1>4, FenceEffect
<1>5. ASSUME Failed PROVE MemberInv'
  BY <1>1, <1>3, <1>5 DEF Failed, Keeps, SameMember
<1>6. CASE PollTimeout \/ CallTimeout
  BY <1>1, <1>3, <1>6, PollTimeoutEffect, CallTimeoutEffect DEF Forgets
<1>7. CASE HandleSubscriptionChange
  BY <1>1, <1>3, <1>7, SubscriptionEffect, LeaveBroker DEF Keeps, SameMember
<1>8. CASE SendJoin
  <2>1. CASE /\ Proceeds /\ task'.pc = "Join" /\ task'.id # NoId /\ task'.gen = task.gen
             /\ JoinSent
    BY <1>1, <1>3, <2>1 DEF Proceeds, JoinSent
  <2> QED
    BY <1>1, <1>4, <1>5, <1>8, <2>1, SendJoinEffect, SendJoinBroker
<1>9. CASE JoinAnswer
  <2>1. CASE /\ Proceeds /\ task'.pc = "Sync" /\ SameMember(task', task) /\ task'.ngen # NoGen
             /\ broker'.id = broker.id /\ broker'.fenced = broker.fenced
    <3>1. task.pc = "Join"
      BY <1>1, <1>9, JoinAnswerEffect
    <3> QED
      BY <1>1, <1>3, <2>1, <3>1 DEF Proceeds, SameMember
  <2> QED
    BY <1>1, <1>4, <1>5, <1>9, <2>1, JoinAnswerEffect, JoinAnswerBroker
<1>10. ASSUME broker' = broker, ~MemberAction PROVE MemberInv'
  <2>1. CASE QuietAction
    BY <1>1, <1>3, <1>10, <2>1, QuietEffect DEF Quiet, SameRejoin, SameMember
  <2>2. CASE RunCall \/ DropCall
    BY <1>1, <1>3, <1>10, <2>2, TakenEffect DEF Taken, Keeps, SameMember
  <2>3. CASE Unsubscribe
    BY <1>1, <1>3, <1>10, <2>3, UnsubscribeEffect DEF SameMember
  <2>4. CASE Heartbeat /\ ~QuietAction
    BY <1>1, <1>3, <1>4, <1>10, <2>4, HeartbeatEffect DEF QuietAction, Forgets
  <2>5. CASE StartRejoin \/ FencedWake
    BY <1>1, <1>3, <1>10, <2>5, StartEffect DEF SameRejoin, Keeps, SameMember
  <2>6. CASE JoinPrepare
    <3>1. CASE JoinPrepared
      <4>1. \/ task'.id = task.id /\ task'.gen = task.gen /\ shared'.assigned = shared.assigned
            \/ task'.id = NoId /\ shared'.assigned = {}
        BY <3>1 DEF JoinPrepared, Prepared
      <4>2. \/ task'.pc = "Call" /\ task'.next = "join"
            \/ task'.pc = "Call" /\ task'.next = "kept" /\ task'.id # NoId /\ task'.gen # NoGen
            \/ task'.pc = "SendJoin"
        BY <3>1 DEF JoinPrepared, CallMade
      <4> QED
        BY <1>1, <1>3, <1>10, <4>1, <4>2
    <3> QED
      BY <1>1, <1>4, <2>6, <3>1, JoinPrepareEffect
  <2>7. CASE CallReturns
    <3>1. task.pc = "Call" /\ task.next \in Nexts
      BY <1>1, <2>7 DEF CallReturns, LiveCall
    <3>2. \/ FenceMember
          \/ Resumed({}) /\ task'.id = NoId /\ task.hb = "unknown"
          \/ Resumed(shared.assigned) /\ SameMember(task', task)
          \/ /\ CallMade(task.call.kind, task.call.parts, task.next) /\ shared' = shared
             /\ SameMember(task', task) /\ task'.ngen = task.ngen
      BY <1>1, <2>7, <3>1, CallReturnsEffect
    <3>3. CASE Resumed({}) /\ task'.id = NoId /\ task.hb = "unknown"
      BY <1>1, <1>3, <1>10, <3>1, <3>3 DEF Resumed
    <3>4. CASE Resumed(shared.assigned) /\ SameMember(task', task)
      BY <1>1, <1>3, <1>10, <3>1, <3>4 DEF Resumed, SameMember
    <3>5. CASE /\ CallMade(task.call.kind, task.call.parts, task.next) /\ shared' = shared
               /\ SameMember(task', task) /\ task'.ngen = task.ngen
      BY <1>1, <1>3, <1>10, <3>1, <3>5 DEF CallMade, SameMember
    <3> QED
      BY <1>4, <3>2, <3>3, <3>4, <3>5
  <2>8. CASE SyncAnswer
    BY <1>1, <1>3, <1>4, <1>5, <1>10, <2>8, SyncAnswerEffect DEF Proceeds, CallMade
  <2>9. CASE Installing
    BY <1>1, <1>3, <1>10, <2>9, InstallEffect DEF Installed, SameRejoin
  <2>11. CASE AnnounceAssignment
    BY <1>1, <1>3, <1>10, <2>11, AnnounceEffect DEF CallMade, SameMember
  <2>10. CASE RejoinFails
    BY <1>1, <1>5, <2>10, RejoinFailsEffect
  <2> QED
    BY <1>10, <2>1, <2>2, <2>3, <2>4, <2>5, <2>6, <2>7, <2>8, <2>9, <2>10, <2>11
       DEF Next, AppStep, TaskStep, Installing, QuietAction, MemberAction
<1>11. ~Close
  BY <1>1, CloseEffect
<1> QED
  BY <1>1, <1>6, <1>7, <1>8, <1>9, <1>10, <1>11, BrokerUnchanged DEF MemberAction

LEMMA RoundStep ==
  ASSUME Inv, ExclusiveInv, Next, ~GroupAction, app'.pc # "closed"
  PROVE  RoundInv'
<1>1. Shape /\ LiveCall /\ MemberInv /\ RoundInv
  BY DEF Inv, ListenerInv, ExclusiveInv
<1> USE DEF RoundInv, Synced, InCall
<1>2. ASSUME broker'.mine \cap broker'.other = {}, ~Synced', task'.pc # "Sync"
      PROVE  RoundInv'
  BY <1>2
<1>3. ASSUME FenceMember PROVE RoundInv'
  BY <1>1, <1>3, FenceEffect
<1>4. ASSUME Failed PROVE RoundInv'
  BY <1>1, <1>4 DEF Failed
<1>5. CASE PollTimeout \/ CallTimeout \/ HandleSubscriptionChange
  <2>1. task'.pc = "Idle"
    BY <1>1, <1>5, PollTimeoutEffect, CallTimeoutEffect, SubscriptionEffect
  <2> QED
    BY <1>1, <1>2, <1>5, <2>1, LeaveBroker
<1>6. CASE SendJoin
  BY <1>1, <1>2, <1>3, <1>4, <1>6, SendJoinBroker DEF JoinSent
<1>7. CASE JoinAnswer
  BY <1>1, <1>3, <1>4, <1>7, JoinAnswerBroker DEF Member
<1>8. ASSUME broker' = broker, ~MemberAction PROVE RoundInv'
  <2> USE DEF Member, Reassigning
  <2>1. CASE QuietAction
    BY <1>1, <1>8, <2>1, QuietEffect DEF Quiet, SameRejoin, SameMember
  <2>2. CASE RunCall \/ DropCall
    BY <1>1, <1>8, <2>2, TakenEffect DEF Taken, Keeps, SameMember
  <2>3. CASE Unsubscribe
    BY <1>1, <1>8, <2>3, UnsubscribeEffect DEF SameMember
  <2>4. CASE Heartbeat /\ ~QuietAction
    BY <1>1, <1>3, <1>8, <2>4, HeartbeatEffect DEF QuietAction
  <2>5. CASE StartRejoin \/ FencedWake
    BY <1>1, <1>8, <2>5, StartEffect
  <2>6. CASE JoinPrepare
    BY <1>1, <1>3, <1>8, <2>6, JoinPrepareEffect DEF JoinPrepared, CallMade
  <2>7. CASE CallReturns
    <3>1. task.pc = "Call" /\ task.next \in Nexts
      BY <1>1, <2>7 DEF CallReturns, LiveCall
    <3>2. \/ FenceMember
          \/ Resumed({}) /\ task'.id = NoId
          \/ Resumed(shared.assigned) /\ SameMember(task', task)
          \/ /\ CallMade(task.call.kind, task.call.parts, task.next) /\ shared' = shared
             /\ SameMember(task', task) /\ task'.prepared = task.prepared
             /\ task'.new = task.new
      BY <1>1, <2>7, <3>1, CallReturnsEffect
    <3>3. CASE \/ Resumed({}) /\ task'.id = NoId
               \/ Resumed(shared.assigned) /\ SameMember(task', task)
      BY <1>1, <1>8, <3>1, <3>3 DEF Resumed, SameMember
    <3>4. CASE /\ CallMade(task.call.kind, task.call.parts, task.next) /\ shared' = shared
               /\ SameMember(task', task) /\ task'.prepared = task.prepared
               /\ task'.new = task.new
      BY <1>1, <1>8, <3>1, <3>4 DEF CallMade, SameMember
    <3> QED
      BY <1>3, <3>2, <3>3, <3>4
  <2>8. CASE SyncAnswer
    BY <1>1, <1>3, <1>4, <1>8, <2>8, SyncAnswerEffect DEF Proceeds, CallMade
  <2>9. CASE Installing
    BY <1>1, <1>8, <2>9, InstallEffect DEF Installed, SameRejoin
  <2>11. CASE AnnounceAssignment
    BY <1>1, <1>8, <2>11, AnnounceEffect DEF CallMade, SameMember
  <2>10. CASE RejoinFails
    BY <1>1, <1>4, <2>10, RejoinFailsEffect
  <2> QED
    BY <1>8, <2>1, <2>2, <2>3, <2>4, <2>5, <2>6, <2>7, <2>8, <2>9, <2>10, <2>11
       DEF Next, AppStep, TaskStep, Installing, QuietAction, MemberAction
<1>9. ~Close
  BY <1>1, CloseEffect
<1> QED
  BY <1>1, <1>5, <1>6, <1>7, <1>8, <1>9, BrokerUnchanged DEF MemberAction

LEMMA CooperativeStep ==
  ASSUME Inv, ExclusiveInv, Next, ~GroupAction, app'.pc # "closed"
  PROVE  CooperativeFetch'
<1>1. Shape /\ LiveCall /\ MemberInv /\ RoundInv /\ CooperativeFetch
  BY DEF Inv, ListenerInv, ExclusiveInv
<1> USE DEF CooperativeFetch, InCall
<1>2. ASSUME task'.id = NoId PROVE CooperativeFetch'
  BY <1>2 DEF Member
<1>3. ASSUME FenceMember PROVE CooperativeFetch'
  BY <1>1, <1>2, <1>3, FenceEffect
<1>4. ASSUME broker' = broker, conf' = conf, task'.id = task.id,
             shared'.assigned \subseteq shared.assigned,
             (task'.pc = "Call" /\ task'.next = "kept") =>
                \/ InCall("kept") /\ task'.new = task.new
                \/ task'.new \subseteq shared.assigned
      PROVE  CooperativeFetch'
  BY <1>1, <1>4 DEF Honoured, Reassigning, Eager, Member
<1>5. ASSUME Failed PROVE CooperativeFetch'
  BY <1>4, <1>5 DEF Failed, Keeps, SameMember
<1>6. CASE PollTimeout \/ CallTimeout
  BY <1>1, <1>2, <1>6, PollTimeoutEffect, CallTimeoutEffect DEF Forgets
<1>7. CASE HandleSubscriptionChange
  BY <1>1, <1>2, <1>4, <1>7, SubscriptionEffect, LeaveBroker DEF Keeps, SameMember
<1>8. CASE SendJoin
  <2>1. CASE Proceeds /\ task'.pc = "Join" /\ JoinSent
    <3>1. task.id = NoId => shared.assigned = {}
      BY <1>1 DEF MemberInv
    <3>2. ~Eager => shared.assigned \cap broker.other = {}
      BY <1>1, <2>1, <3>1 DEF JoinSent, Honoured, Member
    <3> QED
      BY <2>1, <3>2 DEF Proceeds, JoinSent, Honoured, Eager
  <2> QED
    BY <1>1, <1>3, <1>5, <1>8, <2>1, SendJoinEffect, SendJoinBroker
<1>9. CASE JoinAnswer
  <2>1. CASE /\ Proceeds /\ task'.pc = "Sync" /\ SameMember(task', task)
             /\ broker'.join = "none" /\ broker'.id = broker.id
             /\ broker'.phase = broker.phase /\ broker'.claims = broker.claims
             /\ broker'.other = broker.other
    BY <1>1, <2>1 DEF Proceeds, SameMember, Honoured, Reassigning, Eager, Member
  <2> QED
    BY <1>1, <1>3, <1>5, <1>9, <2>1, JoinAnswerEffect, JoinAnswerBroker
<1>10. ASSUME broker' = broker, ~MemberAction PROVE CooperativeFetch'
  <2>1. CASE QuietAction
    BY <1>1, <1>4, <1>10, <2>1, QuietEffect DEF Quiet, SameRejoin, SameMember
  <2>2. CASE RunCall \/ DropCall
    BY <1>1, <1>4, <1>10, <2>2, TakenEffect DEF Taken, Keeps, SameMember
  <2>3. CASE Unsubscribe
    BY <1>1, <1>4, <1>10, <2>3, UnsubscribeEffect DEF SameMember
  <2>4. CASE Heartbeat /\ ~QuietAction
    BY <1>1, <1>2, <1>3, <2>4, HeartbeatEffect DEF QuietAction, Forgets
  <2>5. CASE StartRejoin \/ FencedWake
    BY <1>1, <1>4, <1>10, <2>5, StartEffect DEF Keeps, SameMember
  <2>6. CASE JoinPrepare
    <3>1. CASE JoinPrepared
      <4>1. /\ \/ task'.id = task.id /\ shared'.assigned = shared.assigned
               \/ task'.id = NoId
            /\ conf' = conf
        BY <3>1 DEF JoinPrepared, Prepared
      <4>2. \/ task'.pc = "Call" /\ task'.next = "join"
            \/ /\ task'.pc = "Call" /\ task'.next = "kept"
               /\ task'.new = shared'.assigned \ (shared'.assigned \ app.sub)
            \/ task'.pc = "SendJoin"
        BY <3>1 DEF JoinPrepared, CallMade
      <4> QED
        BY <1>2, <1>4, <1>10, <4>1, <4>2
    <3> QED
      BY <1>1, <1>3, <2>6, <3>1, JoinPrepareEffect
  <2>7. CASE CallReturns
    <3>1. task.pc = "Call" /\ task.next \in Nexts
      BY <1>1, <2>7 DEF CallReturns, LiveCall
    <3>2. \/ FenceMember
          \/ Resumed({}) /\ task'.id = NoId
          \/ Resumed(shared.assigned) /\ SameMember(task', task) /\ conf' = conf
          \/ /\ CallMade(task.call.kind, task.call.parts, task.next) /\ shared' = shared
             /\ SameMember(task', task) /\ task'.new = task.new /\ conf' = conf
      BY <1>1, <2>7, <3>1, CallReturnsEffect
    <3>3. CASE Resumed(shared.assigned) /\ SameMember(task', task) /\ conf' = conf
      <4>1. task'.pc # "Call" /\ task'.id = task.id
        BY <3>3 DEF Resumed, SameMember
      <4>2. CASE task.next = "kept"
        <5>1. shared'.assigned = task.new
          BY <3>3, <4>2 DEF Resumed
        <5> QED
          BY <1>1, <1>10, <3>1, <3>3, <4>1, <4>2, <5>1 DEF Honoured, Reassigning, Eager, Member
      <4>3. CASE task.next # "kept"
        BY <1>4, <1>10, <3>3, <4>1, <4>3 DEF Resumed
      <4> QED
        BY <4>2, <4>3
    <3>4. CASE /\ CallMade(task.call.kind, task.call.parts, task.next) /\ shared' = shared
               /\ SameMember(task', task) /\ task'.new = task.new /\ conf' = conf
      BY <1>4, <1>10, <3>1, <3>4 DEF CallMade, SameMember
    <3> QED
      BY <1>2, <1>3, <3>2, <3>3, <3>4
  <2>8. CASE SyncAnswer
    BY <1>1, <1>3, <1>4, <1>5, <1>10, <2>8, SyncAnswerEffect DEF Proceeds, CallMade
  <2>9. CASE Installing
    <3>1. /\ task'.id = task.id /\ conf' = conf /\ task'.pc # "Call"
          /\ \/ shared'.assigned = shared.assigned
             \/ task.pc = "Publish" /\ shared'.assigned = task.new
      BY <1>1, <2>9, InstallEffect DEF Installed
    <3>2. CASE shared'.assigned = shared.assigned
      BY <1>4, <1>10, <3>1, <3>2
    <3>3. CASE task.pc = "Publish" /\ shared'.assigned = task.new
      BY <1>1, <1>10, <3>1, <3>3 DEF RoundInv, Synced, Honoured, Reassigning, Eager, Member
    <3> QED
      BY <3>1, <3>2, <3>3
  <2>11. CASE AnnounceAssignment
    BY <1>1, <1>4, <1>10, <2>11, AnnounceEffect DEF CallMade, SameMember
  <2>10. CASE RejoinFails
    BY <1>1, <1>5, <2>10, RejoinFailsEffect
  <2> QED
    BY <1>10, <2>1, <2>2, <2>3, <2>4, <2>5, <2>6, <2>7, <2>8, <2>9, <2>10, <2>11
       DEF Next, AppStep, TaskStep, Installing, QuietAction, MemberAction
<1>11. ~Close
  BY <1>1, CloseEffect
<1> QED
  BY <1>1, <1>6, <1>7, <1>8, <1>9, <1>10, <1>11, BrokerUnchanged DEF MemberAction

LEMMA EagerStep ==
  ASSUME Inv, ExclusiveInv, Next, ~GroupAction, app'.pc # "closed"
  PROVE  EagerFetch'
<1>1. Shape /\ LiveCall /\ RequestInv /\ MemberInv /\ RoundInv /\ EagerFetch
  BY DEF Inv, ListenerInv, ExclusiveInv
<1>2. /\ RequestInv' /\ MemberInv' /\ RoundInv'
      /\ shared.pending => shared'.pending \/ task'.id = NoId \/ InCall("finish")
  BY <1>1, RequestStep, MemberStep, RoundStep
<1> SUFFICES ASSUME Eager' PROVE EagerFetch'
  BY DEF EagerFetch
<1> USE DEF EagerFetch, Settled, InCall
\* A member without an id owns nothing.
<1>3. ASSUME task'.id = NoId PROVE EagerFetch'
  <2>1. task'.pc = "Call" => task'.next = "join"
    BY <1>2, <1>3 DEF MemberInv
  <2> QED
    BY <1>2, <1>3, <2>1 DEF MemberInv, Member
\* The poll starts to fetch.
<1>4. ASSUME app'.pc = "fetch", app.pc # "fetch" PROVE EagerFetch'
  <2>1. UNCHANGED <<conf, task, shared, broker>> /\ ~shared.pending /\ Eager
    BY <1>1, <1>4, FetchStarts DEF Eager
  <2>2. task.pc \notin Rejoining
    BY <1>1, <2>1 DEF RequestInv
  <2> QED
    BY <1>1, <2>1, <2>2 DEF Member, Reassigning, Rejoining
<1>5. SUFFICES ASSUME task'.id # NoId, app'.pc = "fetch" => app.pc = "fetch"
               PROVE  EagerFetch'
  BY <1>3, <1>4
\* A step that neither changes what the member owns nor moves the rejoin.
<1>6. ASSUME conf' = conf, shared'.assigned \subseteq shared.assigned,
             task'.prepared = task.prepared,
             task'.pc = "Call" <=> task.pc = "Call",
             task'.pc = "Call" => /\ task'.next = task.next
                                  /\ app'.pc = "fetch" => task'.wait = task.wait,
             task'.pc \in Joining => task.pc \in Joining \/ task.prepared,
             Member' /\ (~shared'.pending \/ app'.pc = "fetch") =>
               Member /\ (Settled => Settled')
      PROVE  EagerFetch'
  <2>1. shared.pending => shared'.pending
    BY <1>2, <1>5, <1>6 DEF RequestInv, Rejoining
  <2>2. Eager /\ (shared'.assigned # {} => shared.assigned # {})
    BY <1>6 DEF Eager
  <2>3. task'.prepared /\ shared'.assigned # {} => shared'.pending
    BY <1>1, <1>6, <2>1, <2>2
  <2>4. ASSUME app'.pc = "fetch", shared'.assigned # {}
        PROVE  /\ task'.pc \notin Joining
               /\ task'.prepared \/ (task'.pc = "Call" /\ task'.next = "join") =>
                    task'.pc = "Call" /\ task'.next = "join" /\ task'.wait = "queued"
    BY <1>1, <1>5, <1>6, <2>2, <2>4 DEF Joining
  <2>5. Member' /\ (~shared'.pending \/ app'.pc = "fetch") => Settled'
    BY <1>1, <1>5, <1>6, <2>1, <2>2 DEF Settled
  <2> QED
    BY <1>1, <1>6, <2>2, <2>3, <2>4, <2>5 DEF Settled
\* A join, a failed one too: an eager member that owns something does not fetch meanwhile.
<1>7. ASSUME conf' = conf, shared'.assigned = shared.assigned, task.pc \in Joining,
             task'.prepared => task.prepared, task'.pc # "Call"
      PROVE  EagerFetch'
  <2>1. shared'.pending /\ (app'.pc = "fetch" => shared'.assigned = {})
    BY <1>1, <1>2, <1>5, <1>7 DEF RequestInv, Rejoining, Joining, Eager
  <2> QED
    BY <1>7, <2>1
<1>8. ASSUME FenceMember PROVE EagerFetch'
  BY <1>1, <1>5, <1>8, FenceEffect
<1>9. ASSUME Failed, task.pc \in Joining PROVE EagerFetch'
  BY <1>7, <1>9 DEF Failed, Ends, Keeps
<1>10. CASE PollTimeout \/ CallTimeout
  BY <1>1, <1>5, <1>10, PollTimeoutEffect, CallTimeoutEffect DEF Forgets
<1>11. CASE HandleSubscriptionChange
  <2>1. /\ conf' = conf /\ task.pc = "Idle" /\ task'.pc = "Idle" /\ task'.prepared = task.prepared
        /\ shared'.assigned = shared.assigned /\ shared'.gate = shared.gate
        /\ task'.id = task.id /\ broker' = broker
    BY <1>1, <1>5, <1>11, SubscriptionEffect, LeaveBroker DEF SameRejoin, Keeps, SameMember
  <2> QED
    BY <1>6, <2>1 DEF Joining, Settled, Reassigning, Member
<1>12. CASE SendJoin \/ JoinAnswer
  <2>1. task.pc \in Joining
    BY <1>12 DEF SendJoin, JoinAnswer, Joining
  <2>2. \/ FenceMember \/ Failed
        \/ Proceeds /\ task'.pc \in {"Join", "Sync"} /\ task'.prepared = task.prepared
    BY <1>1, <1>12, SendJoinEffect, JoinAnswerEffect
  <2> QED
    BY <1>7, <1>8, <1>9, <2>1, <2>2 DEF Proceeds
<1>13. ASSUME broker' = broker, ~MemberAction PROVE EagerFetch'
  \* A step that leaves the member, what it owns and the gate as they are.
  <2>1. ASSUME conf' = conf, task'.id = task.id, shared'.assigned \subseteq shared.assigned,
               shared'.gate = shared.gate
        PROVE  Member' => Member /\ (Settled => Settled')
    BY <1>13, <2>1 DEF Member, Settled, Reassigning
  <2>2. CASE QuietAction
    BY <1>1, <1>6, <2>1, <2>2, QuietEffect DEF Quiet, SameRejoin, SameMember
  <2>3. CASE RunCall \/ DropCall
    <3>1. /\ conf' = conf /\ task'.id = task.id /\ shared'.assigned = shared.assigned
          /\ shared'.gate = shared.gate /\ task'.prepared = task.prepared
          /\ task'.pc = task.pc /\ task'.next = task.next /\ app.pc # "fetch"
      BY <1>1, <2>3, TakenEffect DEF Taken, Keeps, SameMember
    <3> QED
      BY <1>5, <1>6, <2>1, <3>1
  <2>4. CASE Unsubscribe
    BY <1>1, <1>5, <1>6, <2>1, <2>4, UnsubscribeEffect DEF SameMember
  <2>5. CASE Heartbeat /\ ~QuietAction
    BY <1>1, <1>5, <1>8, <2>5, HeartbeatEffect DEF QuietAction, Forgets
  <2>6. CASE StartRejoin \/ FencedWake
    BY <1>1, <1>6, <2>1, <2>6, StartEffect DEF SameRejoin, Keeps, SameMember, Joining
  <2>7. CASE JoinPrepare
    <3>1. CASE JoinPrepared
      <4>1. /\ task'.id = task.id /\ task'.gen = task.gen /\ shared'.assigned = shared.assigned
            /\ shared'.gate = shared.gate /\ conf' = conf
        BY <1>5, <3>1 DEF JoinPrepared, Prepared
      <4>2. Eager /\ task.pc = "Prepare"
        BY <1>1, <2>7, <4>1, JoinPrepareEffect DEF Eager
      <4>3. shared.pending /\ shared'.pending
        BY <1>1, <1>2, <1>5, <4>2 DEF RequestInv, Rejoining
      <4>4. \/ task'.pc = "Call" /\ task'.next = "join" /\ task'.wait = "queued"
            \/ task'.pc = "SendJoin" /\ shared'.assigned = {}
        <5>1. \/ task'.pc = "Call" /\ task'.next = "join" /\ task'.wait = "queued"
              \/ task'.pc = "SendJoin" /\ (task'.id = NoId \/ task'.gen = NoGen)
          BY <3>1, <4>2 DEF JoinPrepared, CallMade
        <5> QED
          BY <1>2, <5>1 DEF MemberInv
      <4>5. task.pc # "Call" /\ (Member' => Member /\ (Settled => Settled'))
        BY <2>1, <4>1, <4>2
      <4> QED
        BY <1>1, <1>5, <4>1, <4>2, <4>3, <4>4, <4>5 DEF Settled, Joining
    <3> QED
      BY <1>1, <1>8, <2>7, <3>1, JoinPrepareEffect
  <2>8. CASE CallReturns
    <3>1. /\ task.pc = "Call" /\ task.next \in Nexts /\ task.wait \in {"ran", "dropped"}
          /\ shared.pending
      BY <1>1, <2>8 DEF CallReturns, LiveCall, RequestInv, Rejoining
    <3>2. \/ FenceMember
          \/ Resumed(shared.assigned) /\ SameMember(task', task) /\ conf' = conf
          \/ /\ CallMade(task.call.kind, task.call.parts, task.next) /\ shared' = shared
             /\ SameMember(task', task) /\ task'.prepared = task.prepared /\ conf' = conf
      BY <1>1, <1>5, <2>8, <3>1, CallReturnsEffect
    <3>3. CASE Resumed(shared.assigned) /\ SameMember(task', task) /\ conf' = conf
      <4>1. /\ task.next \in {"join", "finish"} /\ task'.prepared = task.prepared
            /\ shared'.assigned = shared.assigned /\ task'.id = task.id /\ Eager
        BY <1>1, <3>1, <3>3 DEF Resumed, SameMember, Eager, Nexts
      <4>2. CASE task.next = "join"
        <5>1. task'.pc = "SendJoin" /\ shared'.pending
          BY <1>2, <1>5, <3>1, <3>3, <4>2 DEF Resumed
        <5>2. app'.pc = "fetch" => shared'.assigned = {}
          BY <1>1, <1>5, <3>1, <4>1, <4>2
        <5> QED
          BY <4>1, <5>1, <5>2 DEF Joining
      <4>3. CASE task.next = "finish"
        <5>1. task'.pc = "Idle"
          BY <3>3, <4>3 DEF Resumed
        <5>2. /\ ~task.prepared /\ shared.assigned \subseteq task.new
              /\ Member => ~Reassigning /\ task.new \cap broker.other = {}
          BY <1>1, <3>1, <4>3 DEF RoundInv, Synced
        <5>3. Member' => Member /\ (~Reassigning => ~Reassigning')
          BY <1>13, <4>1 DEF Member, Reassigning
        <5> QED
          BY <1>13, <4>1, <5>1, <5>2, <5>3 DEF Joining
      <4> QED
        BY <4>1, <4>2, <4>3
    <3>4. CASE /\ CallMade(task.call.kind, task.call.parts, task.next) /\ shared' = shared
               /\ SameMember(task', task) /\ task'.prepared = task.prepared /\ conf' = conf
      <4>1. /\ task'.pc = "Call" /\ task'.next = task.next /\ task'.wait = "queued"
            /\ task'.id = task.id
        BY <3>4 DEF CallMade, SameMember
      <4>2. Member' => Member /\ (Settled => Settled')
        BY <2>1, <3>4, <4>1
      <4> QED
        BY <1>1, <1>5, <3>1, <3>4, <4>1, <4>2 DEF Settled, Joining, Eager
    <3> QED
      BY <1>8, <3>2, <3>3, <3>4
  <2>9. CASE SyncAnswer
    <3>1. /\ task.pc \in Joining
          /\ \/ FenceMember \/ Failed
             \/ /\ shared' = shared /\ conf' = conf /\ ~task'.prepared
                /\ ~Eager \/ task'.pc = "Prime"
      BY <1>1, <2>9, SyncAnswerEffect DEF Joining
    <3> QED
      BY <1>7, <1>8, <1>9, <3>1 DEF Eager
  <2>10. CASE Installing
    <3>1. /\ conf' = conf /\ task'.prepared = task.prepared /\ task'.id = task.id
          /\ task'.pc # "Call" /\ task.pc # "Call"
          /\ \/ /\ task.pc \in {"Prime", "Gate"} /\ shared'.assigned = shared.assigned
             \/ /\ task.pc = "Publish" /\ task'.pc \in {"Prune", "Announce"}
                /\ shared'.assigned = task.new /\ shared'.gate = shared.gate
             \/ /\ task.pc = "Prune" /\ task'.pc = "Announce"
                /\ shared'.assigned = shared.assigned /\ shared'.gate = shared.gate
      BY <1>1, <2>10, InstallEffect DEF Installed, SameRejoin
    <3>2. CASE task.pc \in {"Prime", "Gate"} /\ shared'.assigned = shared.assigned
      BY <1>7, <3>1, <3>2 DEF Joining
    <3>3. CASE /\ task.pc = "Publish" /\ task'.pc \in {"Prune", "Announce"}
               /\ shared'.assigned = task.new /\ shared'.gate = shared.gate
      <4>1. ~task'.prepared /\ shared'.assigned \subseteq shared'.gate
        BY <1>1, <3>1, <3>3 DEF RoundInv, Synced, Inv, InstallInv, Announced, Eager
      <4> QED
        BY <3>1, <3>3, <4>1 DEF Joining, Eager
    <3>4. CASE /\ task.pc = "Prune" /\ task'.pc = "Announce"
               /\ shared'.assigned = shared.assigned /\ shared'.gate = shared.gate
      BY <1>6, <2>1, <3>1, <3>4 DEF Joining
    <3> QED
      BY <3>1, <3>2, <3>3, <3>4
  <2>12. CASE AnnounceAssignment
    <3>1. /\ task.pc = "Announce" /\ shared' = shared /\ conf' = conf /\ task'.id = task.id
          /\ task'.pc = "Call" /\ (task'.next = "finish" \/ ~Eager)
          /\ task'.prepared = task.prepared
      BY <1>1, <2>12, AnnounceEffect DEF CallMade, SameMember
    <3>2. ~task'.prepared
      BY <1>1, <3>1 DEF RoundInv, Synced
    <3>3. Member' => Member /\ (Settled => Settled')
      BY <2>1, <3>1
    <3> QED
      BY <1>1, <1>5, <3>1, <3>2, <3>3 DEF Joining, Eager, Settled
  <2>11. CASE RejoinFails
    BY <1>1, <1>9, <2>11, RejoinFailsEffect DEF Joining
  <2> QED
    BY <1>13, <2>2, <2>3, <2>4, <2>5, <2>6, <2>7, <2>8, <2>9, <2>10, <2>11, <2>12
       DEF Next, AppStep, TaskStep, Installing, QuietAction, MemberAction
<1>14. ~Close
  BY <1>1, CloseEffect
<1> QED
  BY <1>1, <1>10, <1>11, <1>12, <1>13, <1>14, BrokerUnchanged DEF MemberAction

LEMMA InitExclusive ==
  ASSUME Init
  PROVE  ExclusiveInv
<1>1. /\ task.pc = "Idle" /\ task.rejoin = "none" /\ task.hb = "none" /\ task.id = 0
      /\ task.gen = 0 /\ ~task.prepared /\ app.pc = "idle" /\ broker.id = 0
      /\ broker.join = "none" /\ broker.phase = "Stable"
      /\ broker.mine \cap broker.other = {} /\ shared.assigned = broker.mine
  BY DEF Init
<1>2. task.id # NoId /\ task.gen # NoGen
  BY <1>1 DEF NoId, NoGen
<1> QED
  BY <1>1, <1>2 DEF ExclusiveInv, RequestInv, MemberInv, RoundInv, CooperativeFetch, EagerFetch,
                    Settled, Honoured, Reassigning, Synced, InCall, Joining, Rejoining

\* Whatever fails, is cancelled or fenced, however often the group rebalances: no poll fetches a
\* partition that the group gave to another member, as long as the coordinator does not evict
\* the member (an evicted one learns of it only by its next request).
THEOREM FetchAlwaysExclusive ==
  ASSUME "evict" \notin Faults
  PROVE  Spec => []FetchIsExclusive
<1> DEFINE Open == app.pc # "closed" => ExclusiveInv
<1>1. Inv /\ Open /\ [Next]_vars => Open'
  <2>1. ASSUME Inv, Open, Next, app'.pc # "closed" PROVE ExclusiveInv'
    <3>1. Shape /\ LiveCall /\ ExclusiveInv
      BY <2>1, BrokerShape DEF Inv, ListenerInv
    <3>2. CASE GroupAction
      BY <3>1, <3>2, GroupExclusive
    <3>3. CASE ~GroupAction
      <4>1. RequestInv'
        BY <2>1, <3>1, RequestStep DEF ExclusiveInv
      <4> QED
        BY <2>1, <3>1, <3>3, <4>1, MemberStep, RoundStep, CooperativeStep, EagerStep
           DEF ExclusiveInv
    <3> QED
      BY <3>2, <3>3
  <2>2. ASSUME Open, UNCHANGED vars PROVE Open'
    BY <2>2 DEF vars, ExclusiveInv, RequestInv, MemberInv, RoundInv, CooperativeFetch, EagerFetch,
                Settled, Honoured, Reassigning, Synced, Member, InCall, Eager
  <2> QED
    BY <2>1, <2>2
<1>2. Open => FetchIsExclusive
  BY DEF ExclusiveInv, CooperativeFetch, EagerFetch, Settled, Honoured, Member, FetchIsExclusive, FetchSet
<1>3. Init => Open
  BY InitExclusive
<1> HIDE DEF Open
<1> QED
  BY <1>1, <1>2, <1>3, Invariance, PTL DEF Spec

=============================================================================
