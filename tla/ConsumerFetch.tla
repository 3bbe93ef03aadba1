--------------------------- MODULE ConsumerFetch ---------------------------
(***************************************************************************)
(* How a consumer fetches: poll of client-consumer/src/poll.rs with the     *)
(* Fetch requests that outlive it, the fetch session of each broker          *)
(* (fetch_session.rs), the buffer of fetched records (fetch_buffer.rs),      *)
(* seek, pause and resume, and the eager rebalance that the coordinator      *)
(* task runs beside a poll, with auto commit.                                *)
(*                                                                          *)
(* The log of a partition is external: offsets 0..end-1 in batches of two,   *)
(* of which Hidden are control records or belong to aborted transactions.    *)
(* A broker answers with one whole batch, so an answer may start below the   *)
(* offset that was asked for.  Leader epochs (KIP-320) are left out.         *)
(***************************************************************************)
EXTENDS Integers, FiniteSets, Sequences, SequencesExt

CONSTANTS Confs,      \* the configurations to choose from: see ConfAssumption
          Budgets,    \* how often faults, cancelled polls, calls and rebalances may happen
          SeekTargets,\* the offsets and sentinels that the application seeks to
          Hidden,     \* the offsets that read_committed does not return
          MaxEpoch    \* the session epoch after which the epochs start again at 1

Bootstrap == "bootstrap"   \* the connection to use while a leader is not known
None == "none"
NoPos == -1                \* no entry in next_offsets
Latest == -2               \* LATEST_SENTINEL
Beginning == -3            \* BEGINNING_SENTINEL
End == -4                  \* END_SENTINEL
Sentinels == {Latest, Beginning, End}
Batch == 2

\* boot: the broker of the bootstrap connection; max: max_poll_records.
\* waits: a poll may wait, for the lock of next_offsets or for a new bootstrap connection,
\* between collecting its answers and using them.
ASSUME ConfAssumption ==
  \A c \in Confs : /\ c.boot \in c.brokers
                   /\ c.end % Batch = 0
                   /\ c.max \in Nat \ {0}
                   /\ c.reset \in {"latest", "earliest"}
                   /\ c.waits \in BOOLEAN
ASSUME BudgetAssumption ==
  Budgets \subseteq [faults : Nat, cancels : Nat, calls : Nat, rebalances : Nat]
ASSUME EpochAssumption == MaxEpoch \in Nat \ {0}
ASSUME SeekAssumption == SeekTargets \subseteq Nat \cup {Beginning, End}

VARIABLES
  conf,       \* the partitions, brokers, log end and settings
  assigned,   \* Consumer::assigned
  pos,        \* next_offsets
  paused,     \* the pauses that are in effect
  view,       \* the leader of each partition in the consumer's positions
  pref,       \* KIP-392: preferred_read_replicas
  update,     \* whether a metadata update is requested
  session,    \* FetchSession of each node: id and epoch of the next request, partitions
  flight,     \* Fetches::in_flight, with the request or its result
  ready,      \* Fetches::ready
  buffer,     \* FetchBuffer
  poll,       \* where the running poll is, with its locals
  rebalance,  \* the step of the rejoin that the coordinator task runs
  committed,  \* the committed offset of each partition
  cache,      \* broker: the fetch sessions that this consumer made on each connection
  leader,     \* broker: the leader of each partition
  start,      \* broker: the log start of each partition
  due,        \* ghost: the offset (or the reset) that the application is owed next
  wrong,      \* ghost: a record was returned that was not the one due
  left        \* what is left of the budget

world == <<conf, leader, start>>
vars == <<conf, assigned, pos, paused, view, pref, update, session, flight, ready, buffer, poll,
          rebalance, committed, cache, leader, start, due, wrong, left>>

Nodes == conf.brokers \cup {Bootstrap}
Host(k) == IF k = Bootstrap THEN conf.boot ELSE k
Idle == [pc |-> "idle"]
NoFlight == [st |-> "none"]
InFlight(k) == flight[k] # NoFlight
Spend(what) == left[what] > 0 /\ left' = [left EXCEPT ![what] = @ - 1]
-----------------------------------------------------------------------------
(* Fetch sessions *)

NextEpoch(e) == IF e = MaxEpoch THEN 1 ELSE e + 1

\* Mutant: a failed request leaves the session as it is.
KeepExisting(s) == s

\* close_existing_attempt_new
CloseExisting(s) == [s EXCEPT !.epoch = 0]

NewSession == [id |-> 0, epoch |-> 0, parts |-> <<>>]

\* FetchSession::build: the request for the wanted partitions (a function to offsets).
BuildFull(s, wanted) ==
  [id |-> s.id, epoch |-> s.epoch, parts |-> wanted, forgotten |-> {}]
BuildIncremental(s, wanted) ==
  LET changed == {p \in DOMAIN wanted : p \notin DOMAIN s.parts \/ s.parts[p] # wanted[p]}
  IN [id |-> s.id, epoch |-> s.epoch, parts |-> [p \in changed |-> wanted[p]],
      forgotten |-> DOMAIN s.parts \ DOMAIN wanted]
Build(s, wanted) == IF s.epoch = 0 THEN BuildFull(s, wanted) ELSE BuildIncremental(s, wanted)

\* FetchSession::handle_response: the session after an answer, and whether its data counts.
Rejected(s, answer) ==
  answer.error # None \/ (s.epoch = 0 /\ answer.throttled /\ answer.rows = <<>>)
HandleResponse(s, answer) ==
  IF answer.error = "id_not_found" THEN [s EXCEPT !.id = 0, !.epoch = 0]
  ELSE IF answer.error # None THEN CloseExisting(s)
  ELSE IF Rejected(s, answer) \/ answer.id = 0 THEN [s EXCEPT !.id = 0, !.epoch = 0]
  ELSE IF s.epoch = 0 THEN [s EXCEPT !.id = answer.id, !.epoch = NextEpoch(0)]
  ELSE [s EXCEPT !.epoch = NextEpoch(@)]
-----------------------------------------------------------------------------
(* Positions *)

\* starting_offset, reset_starting_offset
StartingOffset(offset) ==
  IF offset # NoPos THEN offset ELSE IF conf.reset = "latest" THEN Latest ELSE Beginning

\* offsets.get(key).unwrap_or(0)
Position(p) == IF pos[p] = NoPos THEN 0 ELSE pos[p]

\* What ListOffsets answers for a sentinel; it answers only at the leader.
Listed(s, p) == IF s = Beginning THEN start[p] ELSE conf.end
Reaches(p) == Host(IF view[p] = None THEN Bootstrap ELSE view[p]) = leader[p]

Init ==
  /\ conf \in Confs
  /\ left \in Budgets
  /\ assigned = conf.parts
  /\ committed = [p \in conf.parts |-> IF conf.reset = "latest" THEN 1 ELSE NoPos]
  /\ pos = [p \in conf.parts |-> StartingOffset(committed[p])]
  /\ due = pos
  /\ paused = {}
  /\ view = [p \in conf.parts |-> None]
  /\ pref = [p \in conf.parts |-> None]
  /\ update = FALSE
  /\ session = [k \in Nodes |-> NewSession]
  /\ flight = [k \in Nodes |-> NoFlight]
  /\ ready = <<>>
  /\ buffer = <<>>
  /\ poll = Idle
  /\ rebalance = [pc |-> "stable"]
  /\ cache = [k \in Nodes |-> <<>>]
  /\ leader = [p \in conf.parts |-> conf.boot]
  /\ start = [p \in conf.parts |-> 0]
  /\ wrong = FALSE
-----------------------------------------------------------------------------
(* FetchBuffer::drain *)

\* One round of the loop of drain for the entry e; acc.stop is its break.
DrainEntry(acc, e) ==
  IF acc.stop THEN [acc EXCEPT !.kept = Append(@, e)]
  ELSE IF e.p \notin assigned \/ acc.pos[e.p] # e.position THEN acc
  ELSE IF e.p \in paused THEN [acc EXCEPT !.set_aside = Append(@, e)]
  ELSE LET room == conf.max - Len(acc.out)
           n == IF Len(e.records) < room THEN Len(e.records) ELSE room
           taken == SubSeq(e.records, 1, n)
           complete == n = Len(e.records)
           position == IF complete THEN e.next
                       ELSE IF n > 0 THEN taken[n] + 1 ELSE e.position
       IN [pos |-> [acc.pos EXCEPT ![e.p] = position],
           out |-> acc.out \o [i \in 1..n |-> [p |-> e.p, offset |-> taken[i]]],
           kept |-> IF complete THEN acc.kept
                    ELSE Append(acc.kept,
                                [e EXCEPT !.position = position,
                                          !.records = SubSeq(@, n + 1, Len(@))]),
           set_aside |-> acc.set_aside,
           stop |-> ~complete \/ Len(acc.out) + n >= conf.max]

Drained ==
  FoldLeft(DrainEntry,
           [pos |-> pos, out |-> <<>>, kept |-> <<>>, set_aside |-> <<>>, stop |-> FALSE],
           buffer)

\* Ghost: the application gets the records of out.
Expected(d, r) == d[r.p] <= r.offset /\ \A o \in d[r.p]..(r.offset - 1) : o \in Hidden
Deliver(out) ==
  LET given == FoldLeft(LAMBDA acc, r : [due |-> [acc.due EXCEPT ![r.p] = r.offset + 1],
                                         bad |-> acc.bad \/ ~Expected(acc.due, r)],
                        [due |-> due, bad |-> wrong], out)
  IN due' = given.due /\ wrong' = given.bad

DrainBuffer ==
  /\ buffer' = Drained.kept \o Drained.set_aside
  /\ pos' = Drained.pos
  /\ Deliver(Drained.out)
-----------------------------------------------------------------------------
(* poll *)

\* Mutant: a requested update is not looked at.
MetadataUnknown == \E p \in assigned : view[p] = None

\* metadata_due: an update is requested, or an assigned partition has no known leader.
MetadataDue == update \/ \E p \in assigned : view[p] = None

\* prepare_poll: refresh_leader_epochs when it is due, then the sentinels are read.
PollStart ==
  /\ poll.pc = "idle"
  /\ view' = IF MetadataDue THEN leader ELSE view
  /\ update' = FALSE
  /\ LET resets == {p \in DOMAIN pos : pos[p] \in Sentinels}
     IN poll' = IF resets = {} THEN [pc |-> "drain"]
                ELSE [pc |-> "resolve", resets |-> [p \in resets |-> pos[p]]]
  /\ UNCHANGED <<world, assigned, pos, paused, pref, session, flight, ready, buffer, rebalance,
                 committed, cache, due, wrong, left>>

\* The positions after the ListOffsets answer: only a sentinel that is still there is replaced.
Resolved(resets, answered) ==
  [p \in DOMAIN pos |->
     IF p \in answered /\ pos[p] = resets[p] THEN Listed(resets[p], p) ELSE pos[p]]

\* resolve_reset_sentinels: a row with a retriable error keeps its sentinel and asks for
\* metadata.
PollResolve ==
  /\ poll.pc = "resolve"
  /\ LET answered == {p \in DOMAIN poll.resets : Reaches(p)}
     IN /\ pos' = Resolved(poll.resets, answered)
        /\ due' = [p \in DOMAIN due |->
                     IF p \in answered /\ due[p] = poll.resets[p]
                     THEN Listed(due[p], p) ELSE due[p]]
        /\ update' = (update \/ answered # DOMAIN poll.resets)
  /\ poll' = [pc |-> "drain"]
  /\ UNCHANGED <<world, assigned, paused, view, pref, session, flight, ready, buffer, rebalance,
                 committed, cache, wrong, left>>

\* wait_for_rebalance, then buffered records come first; without them the assignment is read.
PollDrain ==
  /\ poll.pc = "drain"
  /\ rebalance.pc = "stable"
  /\ DrainBuffer
  /\ poll' = IF Drained.out # <<>> \/ assigned = {} THEN Idle
             ELSE [pc |-> "send", parts |-> assigned]
  /\ UNCHANGED <<world, assigned, paused, view, pref, update, session, flight, ready, rebalance,
                 committed, cache, left>>

\* group_fetches: the partitions to fetch, and where from.
Fetchable(p) ==
  /\ pos[p] \notin Sentinels
  /\ p \notin paused
  /\ \A i \in DOMAIN buffer : buffer[i].p # p
Route(p) == IF pref[p] # None THEN pref[p] ELSE IF view[p] = None THEN Bootstrap ELSE view[p]
Wanted(k) == [p \in {q \in poll.parts : Fetchable(q) /\ Route(q) = k} |-> Position(p)]

\* send_fetches: one Fetch to each node that has none in flight.
PollSend ==
  /\ poll.pc = "send"
  /\ LET to == {k \in Nodes : ~InFlight(k) /\ Wanted(k) # <<>>}
     IN /\ session' = [k \in Nodes |->
                         IF k \in to THEN [session[k] EXCEPT !.parts = Wanted(k)] ELSE session[k]]
        /\ flight' = [k \in Nodes |->
                        IF k \in to
                        THEN [st |-> "sent", asked |-> Wanted(k),
                              replica |-> {p \in DOMAIN Wanted(k) : pref[p] = k},
                              request |-> Build(session[k], Wanted(k))]
                        ELSE flight[k]]
        /\ poll' = IF ready = <<>> /\ \A k \in Nodes : flight'[k] = NoFlight
                   THEN Idle ELSE [pc |-> "wait"]
  /\ UNCHANGED <<world, assigned, pos, paused, view, pref, update, ready, buffer, rebalance,
                 committed, cache, due, wrong, left>>

Done == {k \in Nodes : flight[k].st \in {"answered", "failed"}}

\* wait_for_fetches and collect_ready: until a Fetch completed, or the deadline passed.
PollCollect ==
  /\ poll.pc = "wait"
  /\ \E order \in SetToSeqs(Done) :
       ready' = ready \o [i \in DOMAIN order |-> [node |-> order[i], fetch |-> flight[order[i]]]]
  /\ flight' = [k \in Nodes |-> IF k \in Done THEN NoFlight ELSE flight[k]]
  /\ poll' = [pc |-> "take"]
  /\ UNCHANGED <<world, assigned, pos, paused, view, pref, update, session, buffer, rebalance,
                 committed, cache, due, wrong, left>>

\* Mutant: the data counts although the position changed.
KeepsStaleRow(f, row) ==
  ~(row.kind = "out_of_range" /\ row.p \in f.replica) /\ row.p \in DOMAIN f.asked

\* The partitions for which a preferred replica answered out of range.
ReplicaOutOfRange(f) == {p \in f.replica : \E i \in DOMAIN f.answer.rows :
                           f.answer.rows[i].p = p /\ f.answer.rows[i].kind = "out_of_range"}

\* The rows of an answer that take_completed_fetches keeps: those whose position is still the
\* one that was asked for, but no out of range of a preferred replica.
KeepsRow(f, row) ==
  /\ ~(row.kind = "out_of_range" /\ row.p \in f.replica)
  /\ row.p \in DOMAIN f.asked
  /\ Position(row.p) = f.asked[row.p]

\* One completed Fetch: the session, the rows and the preferred replicas after it.
TakeFetch(acc, c) ==
  LET s == acc.session[c.node]
  IN IF c.fetch.st = "failed"
     THEN [acc EXCEPT !.session[c.node] = CloseExisting(s),
                      !.unpref = @ \cup DOMAIN c.fetch.asked]
     ELSE [acc EXCEPT
             !.session[c.node] = HandleResponse(s, c.fetch.answer),
             !.rows = IF Rejected(s, c.fetch.answer) THEN @
                      ELSE @ \o SelectSeq(c.fetch.answer.rows, LAMBDA r : KeepsRow(c.fetch, r)),
             !.unpref = IF Rejected(s, c.fetch.answer) THEN @
                        ELSE @ \cup ReplicaOutOfRange(c.fetch)]

\* take_completed_fetches.  A failure that is not transient (fatal) fails the poll, and the
\* data of the other answers is lost.
PollTake ==
  /\ poll.pc = "take"
  /\ LET taken == FoldLeft(TakeFetch, [session |-> session, rows |-> <<>>, unpref |-> {}], ready)
         failed == \E i \in DOMAIN ready : ready[i].fetch.st = "failed"
     IN /\ session' = taken.session
        /\ pref' = [p \in DOMAIN pref |-> IF p \in taken.unpref THEN None ELSE pref[p]]
        /\ \/ poll' = [pc |-> "process", rows |-> taken.rows]
           \/ failed /\ poll' = Idle
  /\ ready' = <<>>
  /\ UNCHANGED <<world, assigned, pos, paused, view, update, flight, buffer, rebalance,
                 committed, cache, due, wrong, left>>

\* process_partition_records: the records from the position at on, and the end of the batch.
\* A sentinel is above every offset.
Buffered(row, at) ==
  [p |-> row.p, position |-> at, next |-> row.base + Batch,
   records |-> SelectSeq([i \in 1..Batch |-> row.base + i - 1],
                         LAMBDA o : o \notin Hidden /\ at \notin Sentinels /\ o >= at)]

\* A reset is due to the application when the log no longer holds the record that is due.
ResetIsDue(p) == due[p] >= 0 /\ due[p] < start[p]

\* process_fetch_responses, one row: acc.failed is its early return.
ProcessRow(acc, row) ==
  LET p == row.p
      at == IF acc.pos[p] = NoPos THEN 0 ELSE acc.pos[p]
  IN IF acc.failed \/ p \notin assigned THEN acc
     ELSE CASE row.kind = "records" -> [acc EXCEPT !.fetched = Append(@, Buffered(row, at))]
            [] row.kind = "empty" -> acc
            [] row.kind = "prefer" -> [acc EXCEPT !.pref[p] = row.replica]
            [] row.kind = "out_of_range" ->
                 IF conf.reset = "latest" THEN [acc EXCEPT !.pos[p] = Latest]
                 ELSE [acc EXCEPT !.recover = @ \cup {p}]
            [] row.kind = "not_leader" ->
                 [acc EXCEPT !.view[p] = row.hint, !.pref[p] = None,
                             !.update = @ \/ row.hint = None]
            [] row.kind = "unknown_topic" -> [acc EXCEPT !.update = TRUE, !.pref[p] = None]
            [] row.kind = "fail" -> [acc EXCEPT !.failed = TRUE]

\* process_fetch_responses up to recover_out_of_range.  A row that fails the poll drops what
\* was fetched, and the changes of the replicas and of the metadata.
PollProcess ==
  /\ poll.pc = "process"
  /\ LET done == FoldLeft(ProcessRow, [pos |-> pos, view |-> view, pref |-> pref,
                                       update |-> update, recover |-> {}, fetched |-> <<>>,
                                       failed |-> FALSE], poll.rows)
     IN /\ pos' = done.pos
        /\ due' = [p \in DOMAIN due |->
                     IF done.pos[p] = Latest /\ ResetIsDue(p) THEN Latest ELSE due[p]]
        /\ view' = done.view
        /\ IF done.failed
           THEN poll' = Idle /\ UNCHANGED <<update, pref, buffer>>
           ELSE /\ update' = done.update
                /\ pref' = done.pref
                /\ buffer' = buffer \o done.fetched
                /\ poll' = IF done.recover # {} THEN [pc |-> "recover", parts |-> done.recover]
                           ELSE [pc |-> "return"]
  /\ UNCHANGED <<world, assigned, paused, session, flight, ready, rebalance, committed, cache,
                 wrong, left>>

\* recover_out_of_range: the log start that ListOffsets answered becomes the position.
PollRecover ==
  /\ poll.pc = "recover"
  /\ LET answered == {p \in poll.parts : Reaches(p)}
     IN /\ pos' = [p \in DOMAIN pos |-> IF p \in answered THEN start[p] ELSE pos[p]]
        /\ due' = [p \in DOMAIN due |->
                     IF p \in answered /\ ResetIsDue(p) THEN start[p] ELSE due[p]]
        /\ update' = (update \/ answered # poll.parts)
  /\ poll' = [pc |-> "return"]
  /\ UNCHANGED <<world, assigned, paused, view, pref, session, flight, ready, buffer, rebalance,
                 committed, cache, wrong, left>>

\* The records that the poll returns.
PollReturn ==
  /\ poll.pc = "return"
  /\ DrainBuffer
  /\ poll' = Idle
  /\ UNCHANGED <<world, assigned, paused, view, pref, update, session, flight, ready, rebalance,
                 committed, cache, left>>

\* The application drops the poll at an await, a wakeup ends it, or its time runs out before a
\* rebalance ends.  The Fetch requests stay in flight, and those that completed stay ready when
\* the poll waits for the lock of next_offsets in take_completed_fetches.
CancelPoll ==
  /\ poll.pc \notin {"idle", "return"} \cup (IF conf.waits THEN {} ELSE {"take"})
  /\ Spend("cancels")
  /\ poll' = Idle
  /\ UNCHANGED <<world, assigned, pos, paused, view, pref, update, session, flight, ready, buffer,
                 rebalance, committed, cache, due, wrong>>
-----------------------------------------------------------------------------
(* The other calls of the application, between two polls *)

Calls(p) == poll.pc = "idle" /\ p \in assigned /\ Spend("calls")
CallKeeps == <<world, assigned, view, pref, update, session, flight, ready, buffer, poll,
               rebalance, committed, cache, wrong>>

\* seek, seek_to_beginning, seek_to_end
Seek(p, target) ==
  /\ Calls(p)
  /\ pos' = [pos EXCEPT ![p] = target]
  /\ due' = [due EXCEPT ![p] = target]
  /\ UNCHANGED <<CallKeeps, paused>>

Pause(p) == Calls(p) /\ paused' = paused \cup {p} /\ UNCHANGED <<CallKeeps, pos, due>>

Resume(p) ==
  /\ poll.pc = "idle" /\ p \in paused
  /\ paused' = paused \ {p}
  /\ UNCHANGED <<CallKeeps, pos, due, left>>
-----------------------------------------------------------------------------
(* The coordinator task, with the eager protocol *)

RebalanceKeeps == <<world, update, session, flight, ready, buffer, poll, pref, cache, wrong>>

\* join_prepare: the commit before the join, which may fail.  The code commits the positions of
\* the latest poll, AutoCommit::polled (see OffsetCommit), which may differ from these; what an
\* application is due after the join starts from the committed offset, whichever it is.
JoinPrepare ==
  /\ rebalance.pc = "stable"
  /\ Spend("rebalances")
  /\ committed' \in {committed, [p \in DOMAIN committed |->
                                  IF p \in assigned /\ pos[p] >= 0 THEN pos[p] ELSE committed[p]]}
  /\ rebalance' = [pc |-> "joining"]
  /\ UNCHANGED <<RebalanceKeeps, assigned, pos, paused, view, due>>

\* forget_member, fence_member: the member lost its partitions, and joins again.
ForgetMember ==
  /\ rebalance.pc = "stable"
  /\ Spend("rebalances")
  /\ assigned' = {} /\ paused' = {}
  /\ rebalance' = [pc |-> "joining"]
  /\ UNCHANGED <<RebalanceKeeps, pos, view, committed, due>>

\* The join and the sync, then prime_offsets: the committed offsets of the added partitions.
\* They take several requests: a poll that does not wait has used its answers by then.
Prime(parts) ==
  /\ rebalance.pc = "joining"
  /\ conf.waits \/ poll.pc # "process"
  /\ LET Primed(f) == [p \in DOMAIN f |-> IF p \in parts \ assigned
                                          THEN StartingOffset(committed[p]) ELSE f[p]]
     IN pos' = Primed(pos) /\ due' = Primed(due)
  /\ rebalance' = [pc |-> "primed", parts |-> parts]
  /\ UNCHANGED <<RebalanceKeeps, assigned, paused, view, committed, left>>

\* publish_assignment: every partition gets a new ownership, which ends its pause, and the
\* positions of the other partitions are dropped.
Publish ==
  /\ rebalance.pc = "primed"
  /\ assigned' = rebalance.parts /\ paused' = {}
  /\ pos' = [p \in DOMAIN pos |-> IF p \in rebalance.parts THEN pos[p] ELSE NoPos]
  /\ view' = [p \in DOMAIN view |-> IF p \in rebalance.parts THEN view[p] ELSE None]
  /\ rebalance' = [pc |-> "stable"]
  /\ UNCHANGED <<RebalanceKeeps, committed, due, left>>
-----------------------------------------------------------------------------
(* Brokers (external) *)

\* The rows that the broker of node k may answer for partition p at an offset.  A follower
\* serves only a consumer that was sent to it.
LeaderRows(p, offset) ==
  IF offset < start[p] THEN {[p |-> p, kind |-> "out_of_range"]}
  ELSE IF offset >= conf.end THEN {[p |-> p, kind |-> "empty"]}
  ELSE {[p |-> p, kind |-> "records", base |-> offset - (offset % Batch)]}
FaultyRows(k, p) ==
  IF Host(k) = leader[p]
  THEN {[p |-> p, kind |-> "unknown_topic"], [p |-> p, kind |-> "fail"]}
       \cup [p : {p}, kind : {"prefer"}, replica : conf.brokers \ {leader[p]}]
  ELSE IF p \in flight[k].replica THEN {[p |-> p, kind |-> "out_of_range"]} ELSE {}
Rows(k, p, offset) ==
  IF Host(k) = leader[p] \/ p \in flight[k].replica THEN LeaderRows(p, offset)
  ELSE [p : {p}, kind : {"not_leader"}, hint : {None, leader[p]}]

Ids == 1..4
\* The ids that the consumer holds or will learn; other sessions of this node are out of reach.
Held(k) == {session[k].id} \cup {ready[i].fetch.answer.id :
             i \in {j \in DOMAIN ready : ready[j].node = k /\ ready[j].fetch.st = "answered"}}
FreshId(k) == CHOOSE id \in Ids \ Held(k) : \A other \in Ids \ Held(k) : id <= other

Full(k) == flight[k].request.epoch = 0
NotFound(k) == ~Full(k) /\ flight[k].request.id \notin DOMAIN cache[k]
BadEpoch(k) ==
  ~Full(k) /\ ~NotFound(k) /\ cache[k][flight[k].request.id].epoch # flight[k].request.epoch

\* The partitions of the session after the request, and the session itself.
SessionParts(k) ==
  LET r == flight[k].request
      old == cache[k][r.id].parts
  IN IF Full(k) THEN r.parts
     ELSE [p \in (DOMAIN old \ r.forgotten) \cup DOMAIN r.parts |->
             IF p \in DOMAIN r.parts THEN r.parts[p] ELSE old[p]]
Reachable(k, sessions) ==
  [id \in DOMAIN sessions \cap (Held(k) \cup {flight[k].request.id}) |-> sessions[id]]
Cached(k, id) ==
  LET others == Reachable(k, [i \in DOMAIN cache[k] \ {flight[k].request.id} |-> cache[k][i]])
  IN [i \in DOMAIN others \cup {id} |->
        IF i = id
        THEN [epoch |-> NextEpoch(flight[k].request.epoch), parts |-> SessionParts(k)]
        ELSE others[i]]

Reply(k, error, id, rows, throttled) ==
  flight' = [flight EXCEPT ![k] = [@ EXCEPT !.st = "answered"] @@
               [answer |-> [error |-> error, id |-> id, rows |-> rows, throttled |-> throttled]]]

BrokerKeeps == <<conf, assigned, pos, paused, view, pref, update, session, ready, buffer, poll,
                 rebalance, committed, due, wrong>>
Sent(k) == flight[k].st = "sent"

\* The rows of an answer, one for each partition; an incremental answer leaves out the empty
\* ones.
Answers(k, may) ==
  LET parts == SetToSeq(DOMAIN may)
      all == {f \in [DOMAIN parts -> UNION {may[p] : p \in DOMAIN may}] :
                \A i \in DOMAIN parts : f[i] \in may[parts[i]]}
  IN {SelectSeq(f, LAMBDA r : Full(k) \/ r.kind # "empty") : f \in all}
UsualRows(k) == [p \in DOMAIN SessionParts(k) |-> Rows(k, p, SessionParts(k)[p])]
NormalRows(k) == Answers(k, UsualRows(k))
OddRows(k) ==
  UNION {Answers(k, [UsualRows(k) EXCEPT ![q] = FaultyRows(k, q)]) : q \in DOMAIN SessionParts(k)}

\* A full request closes the session that it names and makes a new one; an incremental one
\* changes its session.
BrokerServes(k) ==
  /\ Sent(k) /\ ~NotFound(k) /\ ~BadEpoch(k)
  /\ LET id == IF Full(k) THEN FreshId(k) ELSE flight[k].request.id
     IN /\ cache' = [cache EXCEPT ![k] = Cached(k, id)]
        /\ \/ \E rows \in NormalRows(k) : Reply(k, None, id, rows, FALSE) /\ UNCHANGED left
           \/ \E rows \in OddRows(k) : Reply(k, None, id, rows, FALSE) /\ Spend("faults")
  /\ UNCHANGED <<BrokerKeeps, leader, start>>

\* The session is gone, or the epoch is not the next one.
BrokerRejects(k) ==
  /\ Sent(k)
  /\ \/ NotFound(k) /\ Reply(k, "id_not_found", 0, <<>>, FALSE)
     \/ BadEpoch(k) /\ Reply(k, "invalid_epoch", 0, <<>>, FALSE)
  /\ UNCHANGED <<BrokerKeeps, cache, leader, start, left>>

\* No room in the session cache, or an empty answer that throttles a full request.
BrokerMakesNoSession(k) ==
  /\ Sent(k) /\ Full(k)
  /\ Spend("faults")
  /\ cache' = [cache EXCEPT ![k] =
                 Reachable(k, [i \in DOMAIN @ \ {flight[k].request.id} |-> @[i]])]
  /\ \/ \E rows \in NormalRows(k) : Reply(k, None, 0, rows, FALSE)
     \/ Reply(k, None, 0, <<>>, TRUE)
  /\ UNCHANGED <<BrokerKeeps, leader, start>>

\* The connection closes before the answer arrives, before or after the broker worked.
Disconnect(k) ==
  /\ flight[k].st \in {"sent", "answered"}
  /\ Spend("faults")
  /\ flight' = [flight EXCEPT ![k].st = "failed"]
  /\ UNCHANGED <<BrokerKeeps, cache, leader, start>>

EvictSession(k, id) ==
  /\ id \in DOMAIN cache[k]
  /\ Spend("faults")
  /\ cache' = [cache EXCEPT ![k] = [i \in DOMAIN @ \ {id} |-> @[i]]]
  /\ UNCHANGED <<BrokerKeeps, flight, leader, start>>

MoveLeader(p, b) ==
  /\ leader[p] # b
  /\ Spend("faults")
  /\ leader' = [leader EXCEPT ![p] = b]
  /\ UNCHANGED <<BrokerKeeps, flight, cache, start>>

\* Retention deletes the first batch.
DeleteBatch(p) ==
  /\ start[p] < conf.end
  /\ Spend("faults")
  /\ start' = [start EXCEPT ![p] = @ + Batch]
  /\ UNCHANGED <<BrokerKeeps, flight, cache, leader>>

\* A preferred replica expires after metadata.max.age.ms.
ReplicaExpires(p) ==
  /\ pref[p] # None
  /\ Spend("faults")
  /\ pref' = [pref EXCEPT ![p] = None]
  /\ UNCHANGED <<world, assigned, pos, paused, view, update, session, flight, ready, buffer,
                 poll, rebalance, committed, cache, due, wrong>>
-----------------------------------------------------------------------------
Poll == \/ PollStart \/ PollResolve \/ PollDrain \/ PollSend \/ PollCollect \/ PollTake
        \/ PollProcess \/ PollRecover \/ PollReturn
Application == \E p \in conf.parts : \/ \E o \in SeekTargets : o <= conf.end /\ Seek(p, o)
                                     \/ Pause(p) \/ Resume(p)
Rejoin == JoinPrepare \/ ForgetMember \/ (\E parts \in SUBSET conf.parts : Prime(parts)) \/ Publish
Broker(k) == BrokerServes(k) \/ BrokerRejects(k)
Fault == \/ \E k \in Nodes : \/ BrokerMakesNoSession(k) \/ Disconnect(k)
                             \/ \E id \in Ids : EvictSession(k, id)
         \/ \E p \in conf.parts : \/ \E b \in conf.brokers : MoveLeader(p, b)
                                  \/ DeleteBatch(p) \/ ReplicaExpires(p)

Next == Poll \/ CancelPoll \/ Application \/ Rejoin \/ (\E k \in Nodes : Broker(k)) \/ Fault

Spec == Init /\ [][Next]_vars
-----------------------------------------------------------------------------
AllNodes == {Bootstrap} \cup UNION {c.brokers : c \in Confs}

\* The application keeps polling, the brokers answer, and a rejoin that started goes on.
Fairness ==
  /\ WF_vars(Poll)
  /\ WF_vars(Publish \/ \E parts \in SUBSET conf.parts : Prime(parts))
  /\ \A k \in AllNodes : WF_vars(k \in Nodes /\ Broker(k))
FairSpec == Spec /\ Fairness

TypeOK ==
  /\ assigned \subseteq conf.parts /\ paused \subseteq conf.parts
  /\ pos \in [conf.parts -> (0..conf.end) \cup Sentinels \cup {NoPos}]
  /\ view \in [conf.parts -> conf.brokers \cup {None}]
  /\ pref \in [conf.parts -> conf.brokers \cup {None}]
  /\ \A k \in Nodes : session[k].id \in {0} \cup Ids /\ session[k].epoch \in 0..MaxEpoch

\* The incremental requests of a session (build, handle_response, handle_error), whichever
\* answers were lost, rejected or taken late, never leave the broker with other partitions or
\* offsets than the ones the consumer wanted when it sent the request that the broker accepted.
SessionServesAsked ==
  \A k \in Nodes :
    (flight[k].st = "answered" /\ flight[k].answer.id \in DOMAIN cache[k])
      => cache[k][flight[k].answer.id].parts = flight[k].asked

\* The records that polls return for a partition are the ones of its log, in order, from the
\* offset that the last seek, reset or assignment gave it: none is skipped, repeated or
\* returned after a seek (take_completed_fetches, process_partition_records, drain).
DeliveredIsDue == ~wrong

\* Once seeks, faults and rebalances end, the consumer returns every record up to the end of
\* each partition that it has and did not pause: no session, replica, leader or reset keeps it
\* from fetching.
FetchCatchesUp ==
  <>[](\A p \in assigned \ paused :
         pos[p] = conf.end /\ \A o \in due[p]..(conf.end - 1) : o \in Hidden)
=============================================================================
