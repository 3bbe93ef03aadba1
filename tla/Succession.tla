----------------------------- MODULE Succession -----------------------------
(***************************************************************************)
(* The members of one coordination role (client-coordination): the record  *)
(* log of the role, the fold that turns it into a roster and a lease, the  *)
(* succession rules, and the calls of the broker transport that a member   *)
(* makes: register, read_role_records, acquire_epoch and write_lease.      *)
(*                                                                         *)
(* The order of the calls is the application's; it challenges only when    *)
(* evaluate says Challenge and writes a lease only after an acquire or     *)
(* when evaluate says Hold.  The transaction coordinator and the partition *)
(* of the coordination topic are external.                                 *)
(***************************************************************************)
EXTENDS Integers, FiniteSets

CONSTANTS
  Members,        \* member ids that compete for the role
  Duration,       \* extent of a lease
  Stagger,        \* challenge stagger
  Skew,           \* Skew[m]: what the clock of m is ahead of real time
  TransactionV2,  \* EndTxn raises the producer epoch
  EpochLimit,     \* last producer epoch of a producer id
  MaxProducerId,  \* bound: producer ids the coordinator hands out
  MaxTime,        \* bound: last instant
  MaxOffset,      \* bound: offsets of the partition
  MaxFaults,      \* bound: faults, lost answers, failed sends and tombstones
  NoMember,       \* the member of no lease
  NoRecord        \* no lease is being written

ASSUME SuccessionAssumption ==
  /\ Members # {} /\ IsFiniteSet(Members) /\ NoMember \notin Members
  /\ Duration \in Nat \ {0} /\ Stagger \in Nat \ {0}
  /\ Skew \in [Members -> Int]
  /\ TransactionV2 \in BOOLEAN
  /\ EpochLimit \in Nat /\ MaxProducerId \in Nat
  /\ MaxTime \in Nat /\ MaxOffset \in Nat /\ MaxFaults \in Nat

VARIABLES
  now,       \* real time
  log,       \* the retained records of the role, each with its offset
  end,       \* the next offset of the partition
  coord,     \* the newest token of the role at the transaction coordinator
  pc,        \* what each member is doing
  scan,      \* the last stable offset that a running read started with
  view,      \* the role state that each member folded last
  decision,  \* what evaluate last told each member
  draft,     \* the lease record that a running write_lease sends
  fresh,     \* the identity that a running acquire_epoch was given
  held,      \* the token in the holders map of each member
  identity,  \* the producer id and epoch of the bound producer
  faults     \* faults so far

vars == <<now, log, end, coord, pc, scan, view, decision, draft, fresh, held,
          identity, faults>>

(***************************************************************************)
(* Tokens.  FencingToken orders by producer id, then by epoch; a negative  *)
(* pair is no token.                                                       *)
(***************************************************************************)
NoToken == <<-1, -1>>

Tokens == Nat \X (0..EpochLimit)

Older(s, t) == s[1] < t[1] \/ (s[1] = t[1] /\ s[2] < t[2])

\* The coordinator raises the epoch, and takes a new id when it is used up.
Raise(t) == IF t = NoToken \/ t[2] = EpochLimit
            THEN <<t[1] + 1, 0>> ELSE <<t[1], t[2] + 1>>

Clock(m) == now + Skew[m]

-----------------------------------------------------------------------------
(***************************************************************************)
(* The fold of the records: RoleStateBuilder.                              *)
(***************************************************************************)
NoSlot == [offset |-> -1, value |-> NoRecord]

EmptyFold == [members |-> [m \in Members |-> NoSlot], lease |-> NoSlot]

PutLastRead(slot, r) == [offset |-> r.offset, value |-> r.value]

\* put_member and put_lease: the record of the highest offset wins; the slot
\* of a tombstone stays.
Put(slot, r) == IF slot.offset >= r.offset THEN slot
                ELSE [offset |-> r.offset, value |-> r.value]

ApplySkipsTombstone(fold, r) ==
  IF r.value = NoRecord THEN fold
  ELSE IF r.kind = "registration"
  THEN [fold EXCEPT !.members[r.member] = Put(@, r)]
  ELSE [fold EXCEPT !.lease = Put(@, r)]

Apply(fold, r) ==
  IF r.kind = "registration"
  THEN [fold EXCEPT !.members[r.member] = Put(@, r)]
  ELSE [fold EXCEPT !.lease = Put(@, r)]

\* build: the registered members; their order is the order of the offsets.
Build(fold) ==
  [roster |-> {[member |-> m, offset |-> fold.members[m].offset,
                at |-> fold.members[m].value.at] :
                 m \in {n \in Members : fold.members[n].value # NoRecord}},
   lease |-> fold.lease.value]

\* The records in the order of their offsets, one after the other.
FoldRecords(records) ==
  LET upTo[o \in 0..MaxOffset] ==
        IF o = 0 THEN EmptyFold
        ELSE IF \E r \in records : r.offset = o - 1
        THEN Apply(upTo[o - 1], CHOOSE r \in records : r.offset = o - 1)
        ELSE upTo[o - 1]
  IN  upTo[MaxOffset]

FromRecords(records) == Build(FoldRecords(records))

EmptyRole == Build(EmptyFold)

-----------------------------------------------------------------------------
(***************************************************************************)
(* The succession rules.                                                   *)
(***************************************************************************)
Holder(role) == IF role.lease = NoRecord THEN NoMember ELSE role.lease.member

Entry(role, m) == CHOOSE e \in role.roster : e.member = m

\* rank_of: the place among the members other than the holder, which keeps 0.
RankOf(role, m) ==
  IF m = Holder(role) THEN 0
  ELSE Cardinality({e \in role.roster : e.member # Holder(role)
                                          /\ e.offset < Entry(role, m).offset})

ChallengeAt(role, m) ==
  (IF role.lease = NoRecord THEN Entry(role, m).at ELSE role.lease.at)
    + RankOf(role, m) * Stagger

Evaluate(role, m, clock) ==
  IF ~ \E e \in role.roster : e.member = m
  THEN [kind |-> "NotRegistered", until |-> 0]
  ELSE IF Holder(role) = m /\ clock < role.lease.at
  THEN [kind |-> "Hold", until |-> 0]
  ELSE IF clock >= ChallengeAt(role, m)
  THEN [kind |-> "Challenge", until |-> 0]
  ELSE [kind |-> "Wait", until |-> ChallengeAt(role, m)]

Undecided == [kind |-> "None", until |-> 0]

\* LeaseConfig::grant
Grant(m, token, clock) ==
  [member |-> m, token |-> token, at |-> clock + Duration]

-----------------------------------------------------------------------------
(***************************************************************************)
(* The partition (external): plain records are committed at once, a lease  *)
(* record is open until its transaction ends.                              *)
(***************************************************************************)
OpenRecords == {r \in log : r.state = "open"}

LastStableOffset ==
  IF OpenRecords = {} THEN end
  ELSE CHOOSE o \in {r.offset : r \in OpenRecords} :
         \A r \in OpenRecords : o <= r.offset

EndOpen(state) ==
  {IF r.state = "open" THEN [r EXCEPT !.state = state] ELSE r : r \in log}

Committed == {r \in log : r.state = "committed"}

SameKey(r, s) == r.kind = s.kind /\ (r.kind = "lease" \/ r.member = s.member)

-----------------------------------------------------------------------------
Init ==
  /\ now = 0 /\ log = {} /\ end = 0 /\ coord = NoToken /\ faults = 0
  /\ pc = [m \in Members |-> "new"]
  /\ scan = [m \in Members |-> 0]
  /\ view = [m \in Members |-> EmptyRole]
  /\ decision = [m \in Members |-> Undecided]
  /\ draft = [m \in Members |-> NoRecord]
  /\ fresh = [m \in Members |-> NoToken]
  /\ held = [m \in Members |-> NoToken]
  /\ identity = [m \in Members |-> NoToken]

\* The caller drops what it has read when it acts on it or reads again.
Forget(m) ==
  /\ view' = [view EXCEPT ![m] = EmptyRole]
  /\ decision' = [decision EXCEPT ![m] = Undecided]

\* The registration value; "at" is the instant it names, as the deadline is
\* for a lease.
Registration(m) == [member |-> m, token |-> NoToken, at |-> Clock(m)]

\* register: a plain append, outside of any transaction.
Register(m) ==
  /\ end < MaxOffset
  /\ \/ pc[m] = "new"
     \/ pc[m] = "idle" /\ decision[m].kind = "NotRegistered"
  /\ log' = log \cup {[kind |-> "registration", member |-> m, offset |-> end,
                       value |-> Registration(m), state |-> "committed"]}
  /\ end' = end + 1
  /\ pc' = [pc EXCEPT ![m] = "idle"]
  /\ Forget(m)
  /\ UNCHANGED <<now, coord, scan, draft, fresh, held, identity, faults>>

\* read_role_records asks for the end of the committed log first ...
ReadStart(m) ==
  /\ pc[m] \in {"new", "idle"}
  /\ pc' = [pc EXCEPT ![m] = "scan"]
  /\ scan' = [scan EXCEPT ![m] = LastStableOffset]
  /\ Forget(m)
  /\ UNCHANGED <<now, log, end, coord, draft, fresh, held, identity, faults>>

\* ... and then fetches up to it; the caller folds and evaluates.
ReadScan(m) ==
  /\ pc[m] = "scan"
  /\ LET role == FromRecords({r \in Committed : r.offset < scan[m]})
     IN  /\ view' = [view EXCEPT ![m] = role]
         /\ decision' = [decision EXCEPT ![m] = Evaluate(role, m, Clock(m))]
  /\ pc' = [pc EXCEPT ![m] = "idle"]
  /\ scan' = [scan EXCEPT ![m] = 0]
  /\ UNCHANGED <<now, log, end, coord, draft, fresh, held, identity, faults>>

\* The member evaluates what it has read again, at the latest at "until".
Reevaluate(m) ==
  /\ pc[m] = "idle" /\ decision[m].kind \in {"Wait", "Hold"}
  /\ decision' = [decision EXCEPT ![m] = Evaluate(view[m], m, Clock(m))]
  /\ UNCHANGED <<now, log, end, coord, pc, scan, view, draft, fresh, held,
                 identity, faults>>

\* acquire_epoch: InitProducerId at the coordinator, which aborts what the
\* holder before has open.
Acquire(m) ==
  /\ pc[m] = "idle" /\ decision[m].kind = "Challenge"
  /\ Raise(coord)[1] <= MaxProducerId
  /\ coord' = Raise(coord)
  /\ log' = EndOpen("aborted")
  /\ fresh' = [fresh EXCEPT ![m] = coord']
  /\ pc' = [pc EXCEPT ![m] = "acquired"]
  /\ Forget(m)
  /\ UNCHANGED <<now, end, scan, draft, held, identity, faults>>

TokenDescribed(m) == coord

TokenKept(m) == IF held[m] = NoToken THEN fresh[m] ELSE held[m]

\* The token is the identity that the producer itself was given.
TokenOf(m) == fresh[m]

\* hold_role reads the token and install_holder replaces the holder before;
\* the caller then grants itself the lease.
Install(m) ==
  /\ pc[m] = "acquired"
  /\ held' = [held EXCEPT ![m] = TokenOf(m)]
  /\ identity' = [identity EXCEPT ![m] = fresh[m]]
  /\ fresh' = [fresh EXCEPT ![m] = NoToken]
  /\ draft' = [draft EXCEPT ![m] = Grant(m, TokenOf(m), Clock(m))]
  /\ pc' = [pc EXCEPT ![m] = "send"]
  /\ UNCHANGED <<now, log, end, coord, scan, view, decision, faults>>

\* The answer of InitProducerId is lost: the epoch is minted, the call fails
\* and the producer is dropped.
AcquireFails(m) ==
  /\ pc[m] = "acquired" /\ faults < MaxFaults
  /\ faults' = faults + 1
  /\ pc' = [pc EXCEPT ![m] = "idle"]
  /\ fresh' = [fresh EXCEPT ![m] = NoToken]
  /\ UNCHANGED <<now, log, end, coord, scan, view, decision, draft, held,
                 identity>>

\* A renewal; write_lease returns NotHeld in a process that holds no token.
Renew(m) ==
  /\ pc[m] = "idle" /\ decision[m].kind = "Hold"
  /\ Forget(m)
  /\ IF held[m] = NoToken
     THEN UNCHANGED <<draft, pc>>
     ELSE /\ draft' = [draft EXCEPT ![m] = Grant(m, held[m], Clock(m))]
          /\ pc' = [pc EXCEPT ![m] = "send"]
  /\ UNCHANGED <<now, log, end, coord, scan, fresh, held, identity, faults>>

\* The send of write_lease: the broker checks the epoch of the producer.
Fenced(m) == identity[m] # coord

WriteSend(m) ==
  /\ pc[m] = "send"
  /\ IF Fenced(m)
     THEN /\ pc' = [pc EXCEPT ![m] = "idle"]
          /\ UNCHANGED <<log, end>>
     ELSE /\ end < MaxOffset
          /\ log' = log \cup {[kind |-> "lease", member |-> m, offset |-> end,
                               value |-> draft[m], state |-> "open"]}
          /\ end' = end + 1
          /\ pc' = [pc EXCEPT ![m] = "commit"]
  /\ draft' = [draft EXCEPT ![m] = NoRecord]
  /\ UNCHANGED <<now, coord, scan, view, decision, fresh, held, identity,
                 faults>>

\* The send fails before it reaches the broker; the transaction is aborted.
SendFails(m) ==
  /\ pc[m] = "send"
  /\ pc' = [pc EXCEPT ![m] = "idle"]
  /\ draft' = [draft EXCEPT ![m] = NoRecord]
  /\ UNCHANGED <<now, log, end, coord, scan, view, decision, fresh, held,
                 identity, faults>>

\* The end of the transaction: commit, or abort after a send that failed.
WriteEnd(m, state) ==
  /\ pc[m] = "commit"
  /\ faults' = IF state = "aborted" THEN faults + 1 ELSE faults
  /\ faults' <= MaxFaults
  /\ IF Fenced(m)
     THEN UNCHANGED <<log, coord, identity>>
     ELSE /\ log' = EndOpen(state)
          /\ coord' = IF TransactionV2 THEN Raise(coord) ELSE coord
          /\ identity' = [identity EXCEPT ![m] = coord']
  /\ pc' = [pc EXCEPT ![m] = "idle"]
  /\ UNCHANGED <<now, end, scan, view, decision, draft, fresh, held>>

Crash(m) ==
  /\ pc[m] # "down" /\ faults < MaxFaults
  /\ faults' = faults + 1
  /\ pc' = [pc EXCEPT ![m] = "down"]
  /\ scan' = [scan EXCEPT ![m] = 0]
  /\ Forget(m)
  /\ draft' = [draft EXCEPT ![m] = NoRecord]
  /\ fresh' = [fresh EXCEPT ![m] = NoToken]
  /\ held' = [held EXCEPT ![m] = NoToken]
  /\ identity' = [identity EXCEPT ![m] = NoToken]
  /\ UNCHANGED <<now, log, end, coord>>

\* A member that starts registers or reads first.
Restart(m) ==
  /\ pc[m] = "down"
  /\ pc' = [pc EXCEPT ![m] = "new"]
  /\ UNCHANGED <<now, log, end, coord, scan, view, decision, draft, fresh,
                 held, identity, faults>>

-----------------------------------------------------------------------------
\* The coordinator aborts a transaction that is open longer than its timeout
\* and fences its producer.  Its timer may end at any step.
TransactionTimeout ==
  /\ OpenRecords # {}
  /\ log' = EndOpen("aborted")
  /\ coord' = Raise(coord)
  /\ UNCHANGED <<now, end, pc, scan, view, decision, draft, fresh, held,
                 identity, faults>>

\* An operator removes the registration of a member, or the lease.
Tombstone(kind, m) ==
  /\ end < MaxOffset /\ faults < MaxFaults
  /\ faults' = faults + 1
  /\ \E r \in Committed : /\ r.kind = kind /\ r.member = m
                          /\ r.value # NoRecord
  /\ log' = log \cup {[kind |-> kind, member |-> m, offset |-> end,
                       value |-> NoRecord, state |-> "committed"]}
  /\ end' = end + 1
  /\ UNCHANGED <<now, coord, pc, scan, view, decision, draft, fresh, held,
                 identity>>

\* Compaction drops a record when a later one has its key; aborted records go
\* too.
Superseded(r) ==
  \/ r.state = "aborted"
  \/ /\ r.state = "committed"
     /\ \E s \in Committed : /\ SameKey(r, s) /\ r.offset < s.offset
                             /\ s.offset < LastStableOffset

Compact ==
  /\ \E r \in log : Superseded(r)
  /\ log' = {r \in log : ~Superseded(r)}
  /\ UNCHANGED <<now, end, coord, pc, scan, view, decision, draft, fresh, held,
                 identity, faults>>

Tick ==
  /\ now < MaxTime
  /\ now' = now + 1
  /\ UNCHANGED <<log, end, coord, pc, scan, view, decision, draft, fresh, held,
                 identity, faults>>

Next ==
  \/ \E m \in Members :
       \/ Register(m) \/ ReadStart(m) \/ ReadScan(m) \/ Reevaluate(m)
       \/ Acquire(m) \/ Install(m) \/ AcquireFails(m)
       \/ Renew(m) \/ WriteSend(m) \/ SendFails(m)
       \/ WriteEnd(m, "committed") \/ WriteEnd(m, "aborted")
       \/ Crash(m) \/ Restart(m)
       \/ \E kind \in {"registration", "lease"} : Tombstone(kind, m)
  \/ TransactionTimeout \/ Compact \/ Tick

Spec == Init /\ [][Next]_vars

-----------------------------------------------------------------------------
(***************************************************************************)
(* Properties.                                                             *)
(***************************************************************************)
Values == [member : Members, token : Tokens \cup {NoToken}, at : Int]

ASSUME NoRecordAssumption == NoRecord \notin Values

Records == [kind : {"registration", "lease"}, member : Members, offset : Nat,
            value : Values \cup {NoRecord}, state : {"open", "committed", "aborted"}]

\* The variables have their types; what a read computes (scan, view, decision)
\* is left out.
TypeOK ==
  /\ now \in 0..MaxTime /\ end \in 0..MaxOffset /\ faults \in 0..MaxFaults
  /\ coord \in Tokens \cup {NoToken}
  /\ log \subseteq Records
  /\ pc \in [Members -> {"new", "idle", "scan", "acquired", "send", "commit", "down"}]
  /\ fresh \in [Members -> Tokens \cup {NoToken}]
  /\ held \in [Members -> Tokens \cup {NoToken}]
  /\ identity \in [Members -> Tokens \cup {NoToken}]
  /\ draft \in [Members -> Values \cup {NoRecord}]

\* A lease that a deposed holder writes late never follows the lease of its
\* successor: the tokens of the committed leases grow with the offset
\* (broker.rs write_lease, the fence of the producer epoch).
LeaseTokensGrow ==
  \A r, s \in {x \in Committed : x.kind = "lease" /\ x.value # NoRecord} :
    r.offset < s.offset => ~Older(s.value.token, r.value.token)

\* No two members hold the same token, and a lease with the token of a member
\* names that member, even when a competitor mints between InitProducerId and
\* the read of the token (broker.rs hold_role).
TokenHasOneOwner ==
  \A m \in Members : held[m] # NoToken =>
    /\ \A n \in Members \ {m} : held[n] # held[m]
    /\ \A r \in log : r.kind = "lease" /\ r.value # NoRecord
                      /\ r.value.token = held[m] => r.value.member = m

\* The fold of the records does not depend on the order in which they are
\* applied (succession.rs from_records).
FoldIsOrderFree ==
  \A r, s \in Committed : SameKey(r, s) =>
    \A fold \in {EmptyFold} \cup {Apply(EmptyFold, t) : t \in Committed} :
      Apply(Apply(fold, r), s) = Apply(Apply(fold, s), r)

\* Compaction at any moment leaves the role state of the log unchanged
\* (succession.rs RoleStateBuilder keeps what compaction keeps).
CompactionKeepsRole ==
  FromRecords(Committed) = FromRecords({r \in Committed : ~Superseded(r)})

=============================================================================
