----------------------------- MODULE Connection -----------------------------
(***************************************************************************)
(* One connection to a broker (client-core, connection.rs and reauth.rs):   *)
(* the calls that multiplex their requests over it by correlation id, the   *)
(* reader and the writer task, the dispatch queue between them, the request  *)
(* timeout, the idle close, and the SASL re-authentication that the first    *)
(* call after the due time runs in place.                                   *)
(*                                                                          *)
(* A frame is known by its tag <<c, x, k>>: the call c that made it, and for *)
(* a frame of an exchange the number x of the exchange and its round k. The  *)
(* broker answers the frames it gets in their order, each as late as it      *)
(* likes; a call may be dropped at each of its awaits.                       *)
(***************************************************************************)
EXTENDS Naturals, Sequences

CONSTANTS
  Calls,        \* the requests that the client makes on the connection: positive numbers
  Capacity,     \* dispatch_queue_capacity
  MinReserved,  \* MIN_RESERVED_CORRELATION_ID, the first id of an exchange
  Rounds,       \* the round trips of an exchange: SaslHandshake and SaslAuthenticate
  Confs         \* how the connection is used and what may go wrong, chosen in Init

ASSUME ConnectionAssumption ==
  /\ Calls \subseteq Nat \ {0}
  /\ Capacity \in Nat \ {0} /\ MinReserved \in Nat \ {0, 1} /\ Rounds \in Nat \ {0}
  /\ \A cf \in Confs : /\ cf.calls \subseteq Calls /\ cf.noResponse \subseteq Calls
                       /\ cf.reauth \in BOOLEAN /\ cf.budget \in Nat /\ cf.dues \in Nat

VARIABLES
  conf,     \* [calls, reauth, noResponse, faults, budget, dues]: a member of Confs
  call,     \* the calls, and the ApiVersions exchange of the setup as call 0
  next,     \* next_corr_id
  pending,  \* the registered ids, each with the tag of the waiting frame
  net,      \* [queue, writing, sent]: the frames that wait, are written, await their answer
  io,       \* [shutdown, reader, writer, stalled, handle]
  auth,     \* [due, dues, exchanges]: reauth.next, and counts of due times and exchanges
  left      \* the faults that may still happen

vars == <<conf, call, next, pending, net, io, auth, left>>

Setup == 0
Everyone == {Setup} \cup Calls

NoAnswer == [kind |-> "none", tag |-> <<>>]
Disconnected == [kind |-> "disconnected", tag |-> <<>>]
Answer(tag) == [kind |-> "frame", tag |-> tag]

Idle == [pc |-> "idle", id |-> 0, x |-> 0, k |-> 0, ans |-> NoAnswer]
Done == [Idle EXCEPT !.pc = "done"]

Init ==
  /\ conf \in Confs
  /\ call = [c \in Everyone |-> IF c = Setup THEN [Idle EXCEPT !.pc = "register"] ELSE Idle]
  /\ next = 1
  /\ pending = {}
  /\ net = [queue |-> <<>>, writing |-> <<>>, sent |-> <<>>]
  /\ io = [shutdown |-> FALSE, reader |-> "run", writer |-> "run", stalled |-> FALSE,
           handle |-> TRUE]
  /\ auth = [due |-> FALSE, dues |-> 0, exchanges |-> 0]
  /\ left = conf.budget

Spend(f) == f \in conf.faults /\ left > 0 /\ left' = left - 1

(***************************************************************************)
(* Correlation ids and the map of waiting requests.                         *)
(***************************************************************************)
\* ConnectionInner::next_correlation_id: the normal ids wrap before the reserved ones.
NextCorrelationId == IF next >= MinReserved - 1 THEN 0 ELSE next + 1

\* sasl::next_correlation_id: every exchange starts at the first reserved id.
ReservedIdFromZero(k) == k - 1  \* mutant
ReservedId(k) == MinReserved + k - 1

Tag(c) == <<c, call[c].x, call[c].k>>
FrameId(c) == IF call[c].k = 0 THEN call[c].id ELSE ReservedId(call[c].k)
Expects(c) == call[c].k > 0 \/ c \notin conf.noResponse

Registered(id) == {e \in pending : e.id = id}

\* PendingRegistration::drop, at the end of a dispatch and when its caller drops it. The
\* setup and a request without a response have no registration.
UnregisterNever(id) == pending  \* mutant
Unregister(id) == pending \ Registered(id)

HasRegistration(c) == c # Setup /\ Expects(c) /\ call[c].pc \in {"queue", "wait"}
Released(c) == IF HasRegistration(c) THEN Unregister(FrameId(c)) ELSE pending

\* The oneshot of each entry of S gets the answer, if its call still waits for it.
Resolve(S, answer) ==
  [c \in Everyone |->
     IF \E e \in S : e.tag = Tag(c) /\ call[c].pc \in {"queue", "wait"}
       THEN [call[c] EXCEPT !.ans = answer] ELSE call[c]]

(***************************************************************************)
(* reauth.next, a reader-writer lock: a call holds a read guard until its    *)
(* frame is queued, an exchange holds the write guard until it ends.        *)
(***************************************************************************)
HoldsReadUntilQueued(c) == conf.reauth /\ c # Setup /\ call[c].k = 0 /\ call[c].pc = "register"  \* mutant
HoldsRead(c) == conf.reauth /\ c # Setup /\ call[c].k = 0 /\ call[c].pc \in {"register", "queue"}
HoldsWrite(c) == call[c].k > 0

\* send, up to its first await: the id is taken. Calls are numbered as they start.
Start(c) ==
  /\ c \in conf.calls /\ call[c].pc = "idle" /\ call[Setup].pc = "done" /\ io.handle
  /\ \A o \in conf.calls : o < c => call[o].pc # "idle"
  /\ call' = [call EXCEPT ![c] = [Idle EXCEPT !.pc = "check", !.id = next]]
  /\ next' = NextCorrelationId
  /\ UNCHANGED <<conf, pending, net, io, auth, left>>

\* The read guard of reauthenticate_if_due: go on, or drop it and ask for the write guard.
\* A request without a response is not registered.
Check(c) ==
  /\ call[c].pc = "check" /\ (\A o \in Calls : ~HoldsWrite(o))
  /\ call' = [call EXCEPT ![c].pc = IF auth.due THEN "turn"
                                     ELSE IF Expects(c) THEN "register"
                                     ELSE "queue"]
  /\ UNCHANGED <<conf, next, pending, net, io, auth, left>>

\* The call c before it sends the frame of round k of exchange x.
InRound(c, x, k) == [pc |-> "register", id |-> call[c].id, x |-> x, k |-> k, ans |-> NoAnswer]

\* Under the write guard the due time is looked at again: another call may have run the
\* exchange meanwhile.
TakeTurn(c) ==
  /\ call[c].pc = "turn" /\ (\A o \in Calls : ~HoldsRead(o) /\ ~HoldsWrite(o))
  /\ IF auth.due
       THEN /\ auth' = [auth EXCEPT !.exchanges = @ + 1]
            /\ call' = [call EXCEPT ![c] = InRound(c, auth.exchanges + 1, 1)]
       ELSE /\ call' = [call EXCEPT ![c].pc = "check"]
            /\ UNCHANGED auth
  /\ UNCHANGED <<conf, next, pending, net, io, left>>

\* enqueue, the insert. An entry of the same id is replaced, and its request fails.
Register(c) ==
  /\ call[c].pc = "register"
  /\ pending' = (pending \ Registered(FrameId(c))) \cup {[id |-> FrameId(c), tag |-> Tag(c)]}
  /\ call' = [Resolve(Registered(FrameId(c)), Disconnected) EXCEPT ![c].pc = "queue"]
  /\ UNCHANGED <<conf, next, net, io, auth, left>>

\* enqueue, the send into the dispatch queue, which waits for a place.
Enqueue(c) ==
  /\ call[c].pc = "queue" /\ io.writer # "dropped" /\ Len(net.queue) < Capacity
  /\ net' = [net EXCEPT !.queue = Append(@, [id |-> FrameId(c), tag |-> Tag(c)])]
  /\ call' = IF Expects(c) THEN [call EXCEPT ![c].pc = "wait"] ELSE [call EXCEPT ![c] = Done]
  /\ UNCHANGED <<conf, next, pending, io, auth, left>>

\* A failed setup drops the connection; a failed exchange shuts it down.
AfterFailure(c) ==
  IF c = Setup THEN [io EXCEPT !.handle = FALSE]
               ELSE [io EXCEPT !.shutdown = @ \/ HoldsWrite(c)]

Fail(c) ==
  /\ call' = [call EXCEPT ![c] = Done]
  /\ pending' = Released(c)
  /\ io' = AfterFailure(c)
  /\ UNCHANGED <<conf, next, net, auth>>

\* The writer is gone, or the reader failed the request.
Disconnects(c) ==
  /\ \/ call[c].pc = "queue" /\ io.writer = "dropped"
     \/ call[c].pc = "wait" /\ call[c].ans.kind = "disconnected"
  /\ Fail(c) /\ UNCHANGED left

\* At the request timeout the connection shuts down, so that a late answer finds nobody.
AfterTimeoutOpen(c) == AfterFailure(c)  \* mutant
AfterTimeout(c) == IF c = Setup THEN AfterFailure(c) ELSE [io EXCEPT !.shutdown = TRUE]

Timeout(c) ==
  /\ call[c].pc = "wait" /\ call[c].ans.kind = "none"
  /\ call' = [call EXCEPT ![c] = Done]
  /\ pending' = Released(c)
  /\ io' = AfterTimeout(c)
  /\ UNCHANGED <<conf, next, net, auth, left>>

Answered(c) == call[c].pc = "wait" /\ call[c].ans.kind = "frame"

Returns(c) ==
  /\ Answered(c) /\ c # Setup /\ call[c].k = 0
  /\ call' = [call EXCEPT ![c] = Done]
  /\ pending' = Released(c)
  /\ UNCHANGED <<conf, next, net, io, auth, left>>

\* sasl::authenticate: the next round, or the end of the exchange with a new due time.
Authenticate(c) ==
  /\ Answered(c) /\ call[c].k > 0
  /\ pending' = Released(c)
  /\ IF call[c].k < Rounds
       THEN /\ call' = [call EXCEPT ![c] = InRound(c, call[c].x, call[c].k + 1)]
            /\ UNCHANGED auth
       ELSE /\ call' = [call EXCEPT ![c] = [Idle EXCEPT !.pc = "check", !.id = call[c].id]]
            /\ auth' = [auth EXCEPT !.due = FALSE]
  /\ UNCHANGED <<conf, next, net, io, left>>

\* The broker refuses the credentials.
Reject(c) ==
  /\ Answered(c) /\ call[c].k > 0 /\ Spend("reject")
  /\ Fail(c)

\* fetch_api_versions: the version table, another version, or an error code.
SetupAnswered ==
  /\ Answered(Setup)
  /\ \/ /\ call' = [call EXCEPT ![Setup] = Done]
        /\ UNCHANGED <<conf, next, pending, net, io, auth, left>>
     \/ /\ Spend("version")
        /\ call' = [call EXCEPT ![Setup] = [Idle EXCEPT !.pc = "register", !.id = next]]
        /\ next' = NextCorrelationId
        /\ UNCHANGED <<conf, pending, net, io, auth>>
     \/ /\ Spend("refuse")
        /\ Fail(Setup)

\* The caller drops the future of its call at an await. The exchange it may run ends with it,
\* and stays due.
Cancel(c) ==
  /\ c \in Calls /\ call[c].pc \in {"check", "turn", "queue", "wait"}
  /\ Spend(IF HoldsWrite(c) THEN "cancel_exchange" ELSE "cancel")
  /\ call' = [call EXCEPT ![c] = Done]
  /\ pending' = Released(c)
  /\ UNCHANGED <<conf, next, net, io, auth>>

(***************************************************************************)
(* The writer task. Its select may take a frame although the connection is   *)
(* shut down.                                                              *)
(***************************************************************************)
WriterTake ==
  /\ io.writer = "run" /\ net.writing = <<>> /\ net.queue # <<>>
  /\ net' = [net EXCEPT !.writing = <<Head(net.queue)>>, !.queue = Tail(@)]
  /\ UNCHANGED <<conf, call, next, pending, io, auth, left>>

\* The broker answers in order, and leaves out the requests without a response.
IsAnswered(frame) == frame.tag[2] > 0 \/ frame.tag[1] \notin conf.noResponse

WriterWrite ==
  /\ io.writer = "run" /\ net.writing # <<>> /\ ~io.stalled
  /\ net' = [net EXCEPT !.sent = IF IsAnswered(Head(net.writing)) THEN @ \o net.writing ELSE @,
                        !.writing = <<>>]
  /\ UNCHANGED <<conf, call, next, pending, io, auth, left>>

\* The loop ends and cancels the token; the queue closes with the task, one step later.
WriterBreaks ==
  /\ io.writer = "run"
  /\ io' = [io EXCEPT !.writer = "stopped", !.shutdown = TRUE]
  /\ net' = [net EXCEPT !.writing = <<>>]
  /\ UNCHANGED <<conf, call, next, pending, auth>>

\* No frame for connections.max.idle, and nobody waits for an answer.
IsIdle == net.writing = <<>> /\ net.queue = <<>> /\ pending = {}

AllDropped ==
  /\ ~io.handle /\ net.writing = <<>> /\ net.queue = <<>>
  /\ \A c \in Everyone : call[c].pc \in {"idle", "done"}

WriterStops ==
  /\ io.shutdown \/ AllDropped
  /\ WriterBreaks /\ UNCHANGED left

WriterIdle == ~io.shutdown /\ IsIdle /\ WriterBreaks /\ UNCHANGED left

WriterFails == net.writing # <<>> /\ Spend("write_error") /\ WriterBreaks

WriterDrops ==
  /\ io.writer = "stopped"
  /\ io' = [io EXCEPT !.writer = "dropped"]
  /\ net' = [net EXCEPT !.queue = <<>>]
  /\ UNCHANGED <<conf, call, next, pending, auth, left>>

(***************************************************************************)
(* The reader task.                                                        *)
(***************************************************************************)
ReaderReads ==
  /\ io.reader = "run" /\ net.sent # <<>>
  /\ net' = [net EXCEPT !.sent = Tail(@)]
  /\ call' = Resolve(Registered(Head(net.sent).id), Answer(Head(net.sent).tag))
  /\ pending' = pending \ Registered(Head(net.sent).id)
  /\ UNCHANGED <<conf, next, io, auth, left>>

ReaderBreaks ==
  /\ io.reader = "run"
  /\ io' = [io EXCEPT !.reader = "stopped", !.shutdown = TRUE]
  /\ UNCHANGED <<conf, call, next, pending, net, auth>>

ReaderStops == io.shutdown /\ ReaderBreaks /\ UNCHANGED left

\* The peer closed the connection, or a read failed.
ReaderEof == Spend("eof") /\ ReaderBreaks

\* Every request that waits is failed, once.
ReaderDrains ==
  /\ io.reader = "stopped"
  /\ io' = [io EXCEPT !.reader = "drained"]
  /\ call' = Resolve(pending, Disconnected)
  /\ pending' = {}
  /\ UNCHANGED <<conf, next, net, auth, left>>

(***************************************************************************)
(* Time, the peer and the owner of the connection.                          *)
(***************************************************************************)
DueTime ==
  /\ conf.reauth /\ ~auth.due /\ auth.dues < conf.dues /\ call[Setup].pc = "done"
  /\ auth' = [auth EXCEPT !.due = TRUE, !.dues = @ + 1]
  /\ UNCHANGED <<conf, call, next, pending, net, io, left>>

\* The peer stops reading: a write that started never ends.
PeerStalls ==
  /\ Spend("stall") /\ ~io.stalled /\ net.writing # <<>>
  /\ io' = [io EXCEPT !.stalled = TRUE]
  /\ UNCHANGED <<conf, call, next, pending, net, auth>>

\* close, or the drop of the last handle.
Close ==
  /\ Spend("close") /\ call[Setup].pc = "done" /\ io.handle
  /\ \/ io' = [io EXCEPT !.shutdown = TRUE]
     \/ /\ \A c \in Calls : call[c].pc \in {"idle", "done"}
        /\ io' = [io EXCEPT !.handle = FALSE]
  /\ UNCHANGED <<conf, call, next, pending, net, auth>>

(***************************************************************************)
Waits(c) ==
  \/ Check(c) \/ TakeTurn(c) \/ Register(c) \/ Enqueue(c)
  \/ Disconnects(c) \/ Timeout(c) \/ Returns(c) \/ Authenticate(c)

Writer == WriterTake \/ WriterWrite \/ WriterStops \/ WriterIdle \/ WriterDrops

Reader == ReaderStops \/ ReaderDrains

Next ==
  \/ \E c \in Everyone : Start(c) \/ Waits(c) \/ Cancel(c) \/ Reject(c)
  \/ SetupAnswered \/ Writer \/ Reader \/ ReaderReads
  \/ WriterFails \/ ReaderEof \/ DueTime \/ PeerStalls \/ Close

Spec == Init /\ [][Next]_vars

\* A task that can run runs, a timer fires, a future that is ready is polled. The broker owes
\* no answer, and the client no call.
Fairness ==
  /\ \A c \in Everyone : WF_vars(Waits(c))
  /\ WF_vars(SetupAnswered) /\ WF_vars(Writer) /\ WF_vars(Reader)

FairSpec == Spec /\ Fairness

(***************************************************************************)
(* Properties.                                                             *)
(***************************************************************************)
\* An answer goes to the request it answers, also after requests that timed out or were
\* dropped, across the wrap of the ids, and while an exchange runs between requests in flight
\* ("a late response must not match a later request", await_response). All exchanges use the
\* same ids, so for them it holds until the connection is shut down.
AnswerIsOwn ==
  \A c \in Everyone :
    (call[c].ans.kind = "frame" /\ (call[c].k = 0 \/ ~io.shutdown)) => call[c].ans.tag = Tag(c)

Pipeline == net.sent \o net.writing \o net.queue

\* "no request goes out between the frames of an exchange" (Reauth.next): a request that waits
\* in front of an exchange has its answer before the second round starts. Once the connection
\* is shut down, a round may end with the answer of an exchange that failed before.
ExchangeUninterrupted ==
  \A c \in Calls : HoldsWrite(c) =>
    \A i \in DOMAIN Pipeline : Pipeline[i].tag[2] = 0 =>
      /\ call[c].k = 1 \/ io.shutdown
      /\ \A j \in 1..i : Pipeline[j].tag[2] # call[c].x

\* Every call ends, whatever the broker does and wherever the connection breaks: no call
\* waits on a queue, a lock or an answer that nobody serves. Each of the finitely many calls
\* runs once, so each of them ends if again and again none of them runs.
EveryCallEnds ==
  []<>(\A c \in Everyone : call[c].pc \in {"idle", "done"})

Quiet == call[Setup].pc = "done" /\ \A c \in Calls : call[c].pc \in {"idle", "done"}

\* A connection that nobody uses closes, unless its peer holds a write: it does not stay open
\* and unused for ever, so no call leaves its id behind (write_loop, connections.max.idle.ms).
IdleCloses == []<>(io.shutdown \/ ~Quiet \/ io.stalled)

=============================================================================
