------------------------- MODULE Succession_proofs -------------------------
(***************************************************************************)
(* Proofs about Succession, for every set of members, every clock skew and *)
(* every number of faults, offsets and producer ids: the tokens of the     *)
(* leases grow with the offset, a token has one owner, and the order of    *)
(* the records does not matter to the fold.                                *)
(*                                                                         *)
(* The argument is about the newest token of the coordinator.  Every token *)
(* that exists is at most coord, so a token that is minted is newer than   *)
(* all of them and belongs to one member.  A member whose producer is not  *)
(* fenced is the last one that was given a token, so that its lease may    *)
(* follow all leases in the log.                                           *)
(***************************************************************************)
EXTENDS Succession, TLAPS

\* The records have different offsets, all below the end of the partition.
OffsetsDiffer ==
  /\ \A r \in log : r.offset < end
  /\ \A r, s \in log : r.offset = s.offset => r = s

Leases == {r \in log : r.kind = "lease" /\ r.value # NoRecord}

\* What a member does fits the tokens it has.
StepsMatch ==
  \A m \in Members :
    /\ pc[m] = "acquired" => fresh[m] # NoToken
    /\ pc[m] = "send" => /\ draft[m] # NoRecord
                         /\ draft[m].token = held[m] /\ draft[m].member = m
    /\ pc[m] \in {"send", "commit"} => held[m] # NoToken
    /\ held[m] = NoToken <=> identity[m] = NoToken

\* No token is newer than the one of the coordinator.
CoordIsNewest ==
  /\ \A m \in Members : /\ ~Older(coord, fresh[m])
                        /\ ~Older(coord, held[m])
                        /\ ~Older(coord, identity[m])
  /\ \A r \in Leases : r.value.token \in Tokens /\ ~Older(coord, r.value.token)

\* No two members have a token, or the identity of a producer, in common, and
\* no member is given the token that it holds.
OwnTokens ==
  /\ \A m \in Members : held[m] # NoToken => held[m] # fresh[m]
  /\ \A m, n \in Members : m # n =>
       /\ held[m] # NoToken => held[m] # held[n] /\ held[m] # fresh[n]
       /\ fresh[m] # NoToken => fresh[m] # fresh[n]
       /\ identity[m] # NoToken => identity[m] # identity[n] /\ identity[m] # fresh[n]

\* A lease carries a token of the member it names.
LeasesAreOwn ==
  \A r \in Leases, m \in Members :
    /\ r.value.token # fresh[m]
    /\ r.value.token = held[m] => r.value.member = m

\* A producer that is not fenced has the newest lease.
UnfencedIsLast ==
  \A m \in Members : identity[m] # NoToken /\ identity[m] = coord =>
    \A r \in Leases : ~Older(held[m], r.value.token)

AllLeasesGrow ==
  \A r, s \in Leases : r.offset < s.offset => ~Older(s.value.token, r.value.token)

TokenInv == /\ StepsMatch /\ CoordIsNewest /\ OwnTokens /\ LeasesAreOwn
            /\ UnfencedIsLast /\ AllLeasesGrow

Inv == TypeOK /\ OffsetsDiffer /\ TokenInv

-----------------------------------------------------------------------------
(* Tokens.                                                                 *)

OrNone == Tokens \cup {NoToken}

LEMMA OlderIsOrder ==
  ASSUME NEW s \in OrNone, NEW t \in OrNone, NEW u \in OrNone
  PROVE  /\ Older(s, t) => s # t /\ ~Older(t, s)
         /\ ~Older(s, t) /\ ~Older(t, u) => ~Older(s, u)
         /\ ~Older(s, NoToken)
BY SuccessionAssumption DEF OrNone, Tokens, NoToken, Older

\* A token that the coordinator mints is newer than every token so far.
LEMMA RaiseIsNew ==
  ASSUME NEW t \in OrNone
  PROVE  /\ Raise(t) \in Tokens /\ Raise(t) # NoToken
         /\ \A u \in OrNone : ~Older(t, u) => u # Raise(t) /\ ~Older(Raise(t), u)
<1>1. Raise(t) \in Tokens /\ Raise(t) # NoToken
  BY SuccessionAssumption DEF OrNone, Tokens, NoToken, Raise
<1>2. ASSUME NEW u \in OrNone, ~Older(t, u)
      PROVE  u # Raise(t) /\ ~Older(Raise(t), u)
  BY <1>2, SuccessionAssumption DEF OrNone, Tokens, NoToken, Raise, Older
<1> QED
  BY <1>1, <1>2

-----------------------------------------------------------------------------
(* Changes of the log that keep what is known of its leases.               *)

\* The records keep their kind, offset and value.
Projects(old, new) ==
  \A r \in new : \E q \in old : /\ r.kind = q.kind /\ r.offset = q.offset
                                /\ r.value = q.value

LEMMA EndOpenLog ==
  ASSUME TypeOK, OffsetsDiffer, NEW st \in {"committed", "aborted"}
  PROVE  /\ EndOpen(st) \subseteq Records
         /\ Projects(log, EndOpen(st))
         /\ \A r \in EndOpen(st) : r.offset < end
         /\ \A r, s \in EndOpen(st) : r.offset = s.offset => r = s
<1> DEFINE Ended(q) == IF q.state = "open" THEN [q EXCEPT !.state = st] ELSE q
<1>1. EndOpen(st) = {Ended(q) : q \in log}
  BY DEF EndOpen
<1>2. ASSUME NEW q \in log
      PROVE  /\ Ended(q) \in Records
             /\ Ended(q).kind = q.kind /\ Ended(q).offset = q.offset
             /\ Ended(q).value = q.value
  BY DEF TypeOK, Records
<1> HIDE DEF Ended
<1> QED
  BY <1>1, <1>2 DEF OffsetsDiffer, Projects

LEMMA ProjectedLeases ==
  ASSUME Projects(log, log')
  PROVE  \A r \in Leases' : \E q \in Leases : r.offset = q.offset /\ r.value = q.value
BY DEF Projects, Leases

-----------------------------------------------------------------------------
(* The invariant.                                                          *)

LEMMA InitInv == Init => Inv
<1> SUFFICES ASSUME Init PROVE Inv
  OBVIOUS
<1>1. TypeOK
  BY SuccessionAssumption DEF Init, TypeOK
<1>2. Leases = {}
  BY DEF Init, Leases
<1>3. NoToken \in OrNone
  BY DEF OrNone
<1>4. ~Older(NoToken, NoToken)
  BY <1>3, OlderIsOrder
<1>5. TokenInv
  BY <1>2, <1>4 DEF Init, TokenInv, StepsMatch, CoordIsNewest, OwnTokens, LeasesAreOwn,
                    UnfencedIsLast, AllLeasesGrow
<1> QED
  BY <1>1, <1>5 DEF Init, Inv, OffsetsDiffer

\* Steps that leave the leases and the tokens alone.
LEMMA TokensUnchanged ==
  ASSUME Inv, Projects(log, log'), UNCHANGED <<coord, fresh, held, identity, draft>>,
         \A m \in Members : pc'[m] \in {"acquired", "send", "commit"} => pc'[m] = pc[m]
  PROVE  TokenInv'
<1>1. StepsMatch'
  BY DEF Inv, TokenInv, StepsMatch
<1>2. CoordIsNewest' /\ OwnTokens' /\ LeasesAreOwn' /\ UnfencedIsLast' /\ AllLeasesGrow'
  BY ProjectedLeases DEF Inv, TokenInv, CoordIsNewest, OwnTokens, LeasesAreOwn,
                         UnfencedIsLast, AllLeasesGrow
<1> QED
  BY <1>1, <1>2 DEF TokenInv

LEMMA SameLogProjects ==
  ASSUME NEW old, NEW new, new \subseteq old
  PROVE  Projects(old, new)
BY DEF Projects

LEMMA RegisterStep ==
  ASSUME Inv, NEW m \in Members, Register(m)
  PROVE  Inv'
<1> DEFINE r == [kind |-> "registration", member |-> m, offset |-> end,
                 value |-> Registration(m), state |-> "committed"]
<1>1. log' = log \cup {r} /\ end' = end + 1 /\ end < MaxOffset
  BY DEF Register
<1>2. r \in Records
  BY SuccessionAssumption DEF Inv, TypeOK, Records, Registration, Values, Clock
<1>3. TypeOK'
  BY <1>1, <1>2, SuccessionAssumption DEF Inv, TypeOK, Register
<1>4. OffsetsDiffer'
  BY <1>1 DEF Inv, TypeOK, Records, OffsetsDiffer
<1>5. Leases' = Leases
  BY <1>1 DEF Leases
<1>6. TokenInv'
  BY <1>5 DEF Inv, TypeOK, Register, TokenInv, StepsMatch, CoordIsNewest, OwnTokens,
              LeasesAreOwn, UnfencedIsLast, AllLeasesGrow
<1> QED
  BY <1>3, <1>4, <1>6 DEF Inv

LEMMA ReadStep ==
  ASSUME Inv, NEW m \in Members,
         ReadStart(m) \/ ReadScan(m) \/ Reevaluate(m) \/ Restart(m)
  PROVE  Inv'
<1>1. UNCHANGED <<now, log, end, coord, draft, fresh, held, identity, faults>>
  BY DEF ReadStart, ReadScan, Reevaluate, Restart
<1>2. /\ pc' \in [Members -> {"new", "idle", "scan", "acquired", "send", "commit", "down"}]
      /\ \A n \in Members : pc'[n] \in {"acquired", "send", "commit"} => pc'[n] = pc[n]
  BY DEF Inv, TypeOK, ReadStart, ReadScan, Reevaluate, Restart
<1>3. TypeOK' /\ OffsetsDiffer'
  BY <1>1, <1>2 DEF Inv, TypeOK, OffsetsDiffer
<1>4. TokenInv'
  BY <1>1, <1>2, SameLogProjects, TokensUnchanged
<1> QED
  BY <1>3, <1>4 DEF Inv

\* The members and leases, seen as tokens.
LEMMA TokenTypes ==
  ASSUME Inv
  PROVE  /\ coord \in OrNone /\ NoToken \in OrNone
         /\ \A m \in Members : /\ fresh[m] \in OrNone /\ held[m] \in OrNone
                               /\ identity[m] \in OrNone
         /\ \A r \in Leases : r.value.token \in OrNone /\ r.value.token # NoToken
BY SuccessionAssumption
   DEF Inv, TypeOK, OrNone, TokenInv, CoordIsNewest, Tokens, NoToken

\* A new token at the coordinator, which fences every producer.
LEMMA RaiseFences ==
  ASSUME Inv, Projects(log, log'), coord' = Raise(coord), UNCHANGED <<held, identity>>
  PROVE  /\ coord' \in Tokens /\ coord' # NoToken
         /\ \A m \in Members : /\ coord' \notin {fresh[m], held[m], identity[m]}
                               /\ ~Older(coord', fresh[m]) /\ ~Older(coord', held[m])
                               /\ ~Older(coord', identity[m])
         /\ \A r \in Leases' : /\ r.value.token \in Tokens /\ r.value.token # coord'
                               /\ ~Older(coord', r.value.token)
         /\ UnfencedIsLast' /\ AllLeasesGrow'
<1>1. /\ coord' \in Tokens /\ coord' # NoToken
      /\ \A u \in OrNone : ~Older(coord, u) => u # coord' /\ ~Older(coord', u)
  BY TokenTypes, RaiseIsNew
<1>2. \A m \in Members : /\ coord' \notin {fresh[m], held[m], identity[m]}
                         /\ ~Older(coord', fresh[m]) /\ ~Older(coord', held[m])
                         /\ ~Older(coord', identity[m])
  BY <1>1, TokenTypes DEF Inv, TokenInv, CoordIsNewest
<1>3. \A r \in Leases' : /\ r.value.token \in Tokens /\ r.value.token # coord'
                         /\ ~Older(coord', r.value.token)
  BY <1>1, TokenTypes, ProjectedLeases DEF Inv, TokenInv, CoordIsNewest
<1>4. UnfencedIsLast'
  BY <1>2 DEF UnfencedIsLast
<1>5. AllLeasesGrow'
  BY ProjectedLeases DEF Inv, TokenInv, AllLeasesGrow
<1> QED
  BY <1>1, <1>2, <1>3, <1>4, <1>5

LEMMA AcquireStep ==
  ASSUME Inv, NEW m \in Members, Acquire(m)
  PROVE  Inv'
<1>1. /\ coord' = Raise(coord) /\ fresh' = [fresh EXCEPT ![m] = coord']
      /\ log' = EndOpen("aborted") /\ pc' = [pc EXCEPT ![m] = "acquired"]
      /\ UNCHANGED <<now, end, draft, held, identity, faults>>
  BY DEF Acquire
<1>2. /\ log' \subseteq Records /\ Projects(log, log') /\ OffsetsDiffer'
  BY <1>1, EndOpenLog DEF Inv, OffsetsDiffer
<1>3. /\ coord' \in Tokens /\ coord' # NoToken
      /\ \A n \in Members : /\ coord' \notin {fresh[n], held[n], identity[n]}
                            /\ ~Older(coord', fresh[n]) /\ ~Older(coord', held[n])
                            /\ ~Older(coord', identity[n])
      /\ \A r \in Leases' : /\ r.value.token \in Tokens /\ r.value.token # coord'
                            /\ ~Older(coord', r.value.token)
      /\ UnfencedIsLast' /\ AllLeasesGrow'
  BY <1>1, <1>2, RaiseFences
<1>4. TypeOK'
  BY <1>1, <1>2, <1>3 DEF Inv, TypeOK
<1>5. \A n \in Members : fresh'[n] = IF n = m THEN coord' ELSE fresh[n]
  BY <1>1 DEF Inv, TypeOK
<1>6. StepsMatch'
  BY <1>1, <1>3, <1>5 DEF Inv, TypeOK, TokenInv, StepsMatch
<1>7. CoordIsNewest'
  <2>1. ~Older(coord', coord')
    BY <1>3, OlderIsOrder DEF OrNone
  <2> QED
    BY <1>1, <1>3, <1>5, <2>1 DEF CoordIsNewest
<1>8. OwnTokens'
  BY <1>1, <1>3, <1>5 DEF Inv, TokenInv, OwnTokens
<1>9. LeasesAreOwn'
  BY <1>1, <1>2, <1>3, <1>5, ProjectedLeases DEF Inv, TokenInv, LeasesAreOwn
<1> QED
  BY <1>2, <1>3, <1>4, <1>6, <1>7, <1>8, <1>9 DEF Inv, TokenInv

LEMMA InstallStep ==
  ASSUME Inv, NEW m \in Members, Install(m)
  PROVE  Inv'
<1>1. /\ pc[m] = "acquired" /\ held' = [held EXCEPT ![m] = fresh[m]]
      /\ identity' = [identity EXCEPT ![m] = fresh[m]]
      /\ fresh' = [fresh EXCEPT ![m] = NoToken]
      /\ draft' = [draft EXCEPT ![m] = Grant(m, fresh[m], Clock(m))]
      /\ pc' = [pc EXCEPT ![m] = "send"]
      /\ UNCHANGED <<now, log, end, coord, faults>>
  BY DEF Install, TokenOf
<1>2. fresh[m] # NoToken /\ fresh[m] \in Tokens
  BY <1>1 DEF Inv, TypeOK, TokenInv, StepsMatch
<1>3. /\ Grant(m, fresh[m], Clock(m)) \in Values
      /\ Grant(m, fresh[m], Clock(m)).token = fresh[m]
      /\ Grant(m, fresh[m], Clock(m)).member = m
      /\ Grant(m, fresh[m], Clock(m)) # NoRecord
  BY <1>2, SuccessionAssumption, NoRecordAssumption DEF Grant, Values, Clock, Inv, TypeOK
<1>4. TypeOK' /\ OffsetsDiffer'
  BY <1>1, <1>2, <1>3 DEF Inv, TypeOK, OffsetsDiffer
<1>5. \A n \in Members : fresh'[n] = IF n = m THEN NoToken ELSE fresh[n]
  BY <1>1 DEF Inv, TypeOK
<1>6. \A n \in Members : held'[n] = IF n = m THEN fresh[m] ELSE held[n]
  BY <1>1 DEF Inv, TypeOK
<1>7. \A n \in Members : identity'[n] = IF n = m THEN fresh[m] ELSE identity[n]
  BY <1>1 DEF Inv, TypeOK
<1>8. Leases' = Leases
  BY <1>1 DEF Leases
<1>9. StepsMatch'
  BY <1>1, <1>2, <1>3, <1>5, <1>6, <1>7, <1>8 DEF Inv, TypeOK, TokenInv, StepsMatch
<1>10. CoordIsNewest'
  BY <1>1, <1>5, <1>6, <1>7, <1>8, TokenTypes, OlderIsOrder DEF Inv, TokenInv, CoordIsNewest
<1>11. OwnTokens'
  BY <1>2, <1>5, <1>6, <1>7, <1>8 DEF Inv, TokenInv, OwnTokens
<1>12. LeasesAreOwn'
  BY <1>2, <1>5, <1>6, <1>7, <1>8, TokenTypes DEF Inv, TokenInv, LeasesAreOwn
<1>13. UnfencedIsLast'
  <2>1. \A r \in Leases : ~Older(coord, r.value.token)
    BY DEF Inv, TokenInv, CoordIsNewest
  <2> QED
    BY <1>1, <1>5, <1>6, <1>7, <1>8, <2>1 DEF Inv, TokenInv, UnfencedIsLast
<1>14. AllLeasesGrow'
  BY <1>5, <1>6, <1>7, <1>8 DEF Inv, TokenInv, AllLeasesGrow
<1> QED
  BY <1>4, <1>9, <1>10, <1>11, <1>12, <1>13, <1>14 DEF Inv, TokenInv

\* A member that loses tokens and stops what it was doing.
LEMMA TokensDropped ==
  ASSUME Inv, UNCHANGED <<log, coord>>,
         \A n \in Members : fresh'[n] = fresh[n] \/ fresh'[n] = NoToken,
         \A n \in Members : \/ held'[n] = held[n] /\ identity'[n] = identity[n]
                            \/ held'[n] = NoToken /\ identity'[n] = NoToken,
         \A n \in Members : \/ /\ pc'[n] = pc[n] /\ draft'[n] = draft[n]
                               /\ fresh'[n] = fresh[n] /\ held'[n] = held[n]
                            \/ pc'[n] \notin {"acquired", "send", "commit"}
  PROVE  TokenInv'
<1>1. Leases' = Leases
  BY DEF Leases
<1>2. StepsMatch'
  BY DEF Inv, TokenInv, StepsMatch
<1>3. CoordIsNewest'
  BY <1>1, TokenTypes, OlderIsOrder DEF Inv, TokenInv, CoordIsNewest
<1>4. OwnTokens'
  BY DEF Inv, TokenInv, OwnTokens
<1>5. LeasesAreOwn'
  BY <1>1, TokenTypes DEF Inv, TokenInv, LeasesAreOwn
<1>6. UnfencedIsLast' /\ AllLeasesGrow'
  BY <1>1 DEF Inv, TokenInv, UnfencedIsLast, AllLeasesGrow
<1> QED
  BY <1>2, <1>3, <1>4, <1>5, <1>6 DEF TokenInv

LEMMA DropStep ==
  ASSUME Inv, NEW m \in Members, AcquireFails(m) \/ SendFails(m) \/ Crash(m)
  PROVE  Inv'
<1>1. UNCHANGED <<now, log, end, coord>>
  BY DEF AcquireFails, SendFails, Crash
<1>2. TypeOK' /\ OffsetsDiffer'
  BY SuccessionAssumption DEF Inv, TypeOK, OffsetsDiffer, AcquireFails, SendFails, Crash
<1>3. \A n \in Members : fresh'[n] = fresh[n] \/ fresh'[n] = NoToken
  BY DEF Inv, TypeOK, AcquireFails, SendFails, Crash
<1>4. \A n \in Members : \/ held'[n] = held[n] /\ identity'[n] = identity[n]
                         \/ held'[n] = NoToken /\ identity'[n] = NoToken
  BY DEF Inv, TypeOK, AcquireFails, SendFails, Crash
<1>5. ASSUME NEW n \in Members
      PROVE  \/ /\ pc'[n] = pc[n] /\ draft'[n] = draft[n]
                /\ fresh'[n] = fresh[n] /\ held'[n] = held[n]
             \/ pc'[n] \notin {"acquired", "send", "commit"}
  <2>1. CASE n = m
    BY <2>1 DEF Inv, TypeOK, AcquireFails, SendFails, Crash
  <2>2. CASE n # m
    BY <2>2 DEF Inv, TypeOK, AcquireFails, SendFails, Crash
  <2> QED
    BY <2>1, <2>2
<1>6. TokenInv'
  BY <1>1, <1>3, <1>4, <1>5, TokensDropped
<1> QED
  BY <1>2, <1>6 DEF Inv

LEMMA RenewStep ==
  ASSUME Inv, NEW m \in Members, Renew(m)
  PROVE  Inv'
<1>1. CASE held[m] = NoToken
  <2>1. UNCHANGED <<now, log, end, coord, fresh, held, identity, faults, draft, pc>>
    BY <1>1 DEF Renew
  <2>2. TypeOK' /\ OffsetsDiffer'
    BY <2>1 DEF Inv, TypeOK, OffsetsDiffer
  <2> QED
    BY <2>1, <2>2, SameLogProjects, TokensUnchanged DEF Inv
<1>2. CASE held[m] # NoToken
  <2> DEFINE lease == Grant(m, held[m], Clock(m))
  <2>1. /\ draft' = [draft EXCEPT ![m] = lease] /\ pc' = [pc EXCEPT ![m] = "send"]
        /\ UNCHANGED <<now, log, end, coord, fresh, held, identity, faults>>
    BY <1>2 DEF Renew
  <2>2. held[m] \in Tokens
    BY <1>2 DEF Inv, TypeOK
  <2>3. lease \in Values /\ lease # NoRecord /\ lease.token = held[m] /\ lease.member = m
    BY <2>2, SuccessionAssumption, NoRecordAssumption DEF Grant, Values, Clock, Inv, TypeOK
  <2> HIDE DEF lease
  <2>4. TypeOK' /\ OffsetsDiffer'
    BY <2>1, <2>3 DEF Inv, TypeOK, OffsetsDiffer
  <2>5. identity[m] # NoToken
    BY <1>2 DEF Inv, TokenInv, StepsMatch
  <2>6. StepsMatch'
    BY <1>2, <2>1, <2>3, <2>5 DEF Inv, TypeOK, TokenInv, StepsMatch
  <2>7. Leases' = Leases
    BY <2>1 DEF Leases
  <2>8. CoordIsNewest' /\ OwnTokens' /\ LeasesAreOwn' /\ UnfencedIsLast' /\ AllLeasesGrow'
    BY <2>1, <2>7 DEF Inv, TokenInv, CoordIsNewest, OwnTokens, LeasesAreOwn,
                      UnfencedIsLast, AllLeasesGrow
  <2> QED
    BY <2>4, <2>6, <2>8 DEF Inv, TokenInv
<1> QED
  BY <1>1, <1>2

\* The lease of an unfenced producer follows every lease in the log.
LEMMA WriteSendStep ==
  ASSUME Inv, NEW m \in Members, WriteSend(m)
  PROVE  Inv'
<1>1. /\ pc[m] = "send" /\ draft' = [draft EXCEPT ![m] = NoRecord]
      /\ UNCHANGED <<now, coord, fresh, held, identity, faults>>
  BY DEF WriteSend
<1>2. CASE Fenced(m)
  <2>1. UNCHANGED <<log, end>> /\ pc' = [pc EXCEPT ![m] = "idle"]
    BY <1>2 DEF WriteSend
  <2>2. TypeOK' /\ OffsetsDiffer'
    BY <1>1, <2>1 DEF Inv, TypeOK, OffsetsDiffer
  <2>3. TokenInv'
    BY <1>1, <2>1, TokensDropped DEF Inv, TypeOK
  <2> QED
    BY <2>2, <2>3 DEF Inv
<1>3. CASE ~Fenced(m)
  <2> DEFINE r == [kind |-> "lease", member |-> m, offset |-> end, value |-> draft[m],
                   state |-> "open"]
  <2>1. /\ end < MaxOffset /\ log' = log \cup {r} /\ end' = end + 1
        /\ pc' = [pc EXCEPT ![m] = "commit"]
    BY <1>3 DEF WriteSend
  <2>2. /\ draft[m] \in Values /\ draft[m] # NoRecord
        /\ draft[m].token = held[m] /\ draft[m].member = m
        /\ held[m] # NoToken /\ held[m] \in Tokens
        /\ identity[m] # NoToken /\ identity[m] = coord
    BY <1>1, <1>3 DEF Inv, TypeOK, TokenInv, StepsMatch, Fenced
  <2>3. r \in Records /\ r.kind = "lease" /\ r.offset = end /\ r.value = draft[m]
    BY <2>2 DEF Inv, TypeOK, Records
  <2> HIDE DEF r
  <2>4. TypeOK'
    BY <1>1, <2>1, <2>3, SuccessionAssumption DEF Inv, TypeOK
  <2>5. OffsetsDiffer'
    BY <2>1, <2>3 DEF Inv, TypeOK, Records, OffsetsDiffer
  <2>6. Leases' = Leases \cup {r}
    BY <2>1, <2>2, <2>3 DEF Leases
  <2>7. StepsMatch'
    BY <1>1, <2>1, <2>2 DEF Inv, TypeOK, TokenInv, StepsMatch
  <2>8. CoordIsNewest'
    BY <1>1, <2>2, <2>3, <2>6 DEF Inv, TokenInv, CoordIsNewest
  <2>9. OwnTokens'
    BY <1>1 DEF Inv, TokenInv, OwnTokens
  <2>10. LeasesAreOwn'
    BY <1>1, <2>2, <2>3, <2>6 DEF Inv, TokenInv, OwnTokens, LeasesAreOwn
  <2>11. \A s \in Leases : ~Older(held[m], s.value.token)
    BY <2>2 DEF Inv, TokenInv, UnfencedIsLast
  <2>12. ~Older(held[m], held[m])
    BY TokenTypes, OlderIsOrder
  <2>13. UnfencedIsLast'
    BY <1>1, <2>2, <2>3, <2>6, <2>12 DEF Inv, TokenInv, UnfencedIsLast, OwnTokens
  <2>14. AllLeasesGrow'
    <3>1. \A s \in Leases : s.offset < end /\ s.offset \in Nat
      BY DEF Inv, TypeOK, Records, OffsetsDiffer, Leases
    <3>2. end \in Nat
      BY DEF Inv, TypeOK
    <3> QED
      BY <2>2, <2>3, <2>6, <2>11, <3>1, <3>2 DEF Inv, TokenInv, AllLeasesGrow
  <2> QED
    BY <2>4, <2>5, <2>7, <2>8, <2>9, <2>10, <2>13, <2>14 DEF Inv, TokenInv
<1> QED
  BY <1>2, <1>3

LEMMA WriteEndStep ==
  ASSUME Inv, NEW m \in Members, NEW st \in {"committed", "aborted"}, WriteEnd(m, st)
  PROVE  Inv'
<1>1. /\ pc[m] = "commit" /\ faults' \in 0..MaxFaults
      /\ pc' = [pc EXCEPT ![m] = "idle"]
      /\ UNCHANGED <<now, end, draft, fresh, held>>
  BY SuccessionAssumption DEF Inv, TypeOK, WriteEnd
<1>2. \A n \in Members : pc'[n] \in {"acquired", "send", "commit"} => pc'[n] = pc[n]
  BY <1>1 DEF Inv, TypeOK
<1>3. CASE Fenced(m)
  <2>1. UNCHANGED <<log, coord, identity>>
    BY <1>3 DEF WriteEnd
  <2>2. TypeOK' /\ OffsetsDiffer'
    BY <1>1, <2>1 DEF Inv, TypeOK, OffsetsDiffer
  <2> QED
    BY <1>1, <1>2, <2>1, <2>2, SameLogProjects, TokensUnchanged DEF Inv
<1>4. CASE ~Fenced(m)
  <2>1. /\ log' = EndOpen(st) /\ identity' = [identity EXCEPT ![m] = coord']
        /\ coord' \in {coord, Raise(coord)}
    BY <1>4 DEF WriteEnd
  <2>2. log' \subseteq Records /\ Projects(log, log') /\ OffsetsDiffer'
    BY <1>1, <2>1, EndOpenLog DEF Inv, OffsetsDiffer
  <2>3. held[m] # NoToken /\ identity[m] # NoToken /\ identity[m] = coord
    BY <1>1, <1>4 DEF Inv, TokenInv, StepsMatch, Fenced
  <2>4. CASE coord' = coord
    <3>1. identity' = identity
      BY <2>1, <2>3, <2>4 DEF Inv, TypeOK
    <3>2. TypeOK'
      BY <1>1, <2>2, <2>4, <3>1 DEF Inv, TypeOK
    <3> QED
      BY <1>1, <1>2, <2>2, <2>4, <3>1, <3>2, TokensUnchanged DEF Inv
  <2>5. CASE coord' = Raise(coord)
    <3>1. \A n \in Members : identity'[n] = IF n = m THEN coord' ELSE identity[n]
      BY <2>1 DEF Inv, TypeOK
    <3>2. /\ coord' \in Tokens /\ coord' # NoToken
          /\ \A u \in OrNone : ~Older(coord, u) => u # coord' /\ ~Older(coord', u)
      BY <2>5, TokenTypes, RaiseIsNew
    <3>3. \A n \in Members : /\ coord' \notin {fresh[n], held[n], identity[n]}
                             /\ ~Older(coord', fresh[n]) /\ ~Older(coord', held[n])
                             /\ ~Older(coord', identity[n])
      BY <3>2, TokenTypes DEF Inv, TokenInv, CoordIsNewest
    <3>4. ~Older(coord', coord')
      BY <3>2, OlderIsOrder DEF OrNone
    <3>5. \A r \in Leases' : \E q \in Leases : r.offset = q.offset /\ r.value = q.value
      BY <2>2, ProjectedLeases
    <3>6. TypeOK'
      BY <1>1, <2>1, <2>2, <3>2 DEF Inv, TypeOK
    <3>7. StepsMatch'
      BY <1>1, <1>2, <2>3, <3>1, <3>2 DEF Inv, TokenInv, StepsMatch
    <3>8. CoordIsNewest'
      BY <1>1, <3>1, <3>2, <3>3, <3>4, <3>5, TokenTypes DEF Inv, TokenInv, CoordIsNewest
    <3>9. OwnTokens'
      BY <1>1, <3>1, <3>3 DEF Inv, TokenInv, OwnTokens
    <3>10. LeasesAreOwn'
      BY <1>1, <3>5 DEF Inv, TokenInv, LeasesAreOwn
    <3>11. \A r \in Leases : ~Older(held[m], r.value.token)
      BY <2>3 DEF Inv, TokenInv, UnfencedIsLast
    <3>12. UnfencedIsLast'
      BY <1>1, <3>1, <3>3, <3>5, <3>11 DEF UnfencedIsLast
    <3>13. AllLeasesGrow'
      BY <3>5 DEF Inv, TokenInv, AllLeasesGrow
    <3> QED
      BY <2>2, <3>6, <3>7, <3>8, <3>9, <3>10, <3>12, <3>13 DEF Inv, TokenInv
  <2> QED
    BY <2>1, <2>4, <2>5
<1> QED
  BY <1>3, <1>4

LEMMA TimeoutStep ==
  ASSUME Inv, TransactionTimeout
  PROVE  Inv'
<1>1. /\ coord' = Raise(coord) /\ log' = EndOpen("aborted")
      /\ UNCHANGED <<now, end, pc, draft, fresh, held, identity, faults>>
  BY DEF TransactionTimeout
<1>2. /\ log' \subseteq Records /\ Projects(log, log') /\ OffsetsDiffer'
  BY <1>1, EndOpenLog DEF Inv, OffsetsDiffer
<1>3. /\ coord' \in Tokens /\ coord' # NoToken
      /\ \A n \in Members : /\ ~Older(coord', fresh[n]) /\ ~Older(coord', held[n])
                            /\ ~Older(coord', identity[n])
      /\ \A r \in Leases' : r.value.token \in Tokens /\ ~Older(coord', r.value.token)
      /\ UnfencedIsLast' /\ AllLeasesGrow'
  BY <1>1, <1>2, RaiseFences
<1>4. TypeOK'
  BY <1>1, <1>2, <1>3 DEF Inv, TypeOK
<1>5. StepsMatch' /\ CoordIsNewest' /\ OwnTokens'
  BY <1>1, <1>3 DEF Inv, TokenInv, StepsMatch, CoordIsNewest, OwnTokens
<1>6. LeasesAreOwn'
  BY <1>1, <1>2, ProjectedLeases DEF Inv, TokenInv, LeasesAreOwn
<1> QED
  BY <1>2, <1>3, <1>4, <1>5, <1>6 DEF Inv, TokenInv

LEMMA TombstoneStep ==
  ASSUME Inv, NEW m \in Members, NEW kind \in {"registration", "lease"},
         Tombstone(kind, m)
  PROVE  Inv'
<1> DEFINE r == [kind |-> kind, member |-> m, offset |-> end, value |-> NoRecord,
                 state |-> "committed"]
<1>1. /\ log' = log \cup {r} /\ end' = end + 1 /\ end < MaxOffset
      /\ faults' = faults + 1 /\ faults < MaxFaults
      /\ UNCHANGED <<now, coord, pc, draft, fresh, held, identity>>
  BY DEF Tombstone
<1>2. r \in Records /\ r.offset = end /\ r.value = NoRecord
  BY DEF Inv, TypeOK, Records
<1> HIDE DEF r
<1>3. TypeOK'
  BY <1>1, <1>2, SuccessionAssumption DEF Inv, TypeOK
<1>4. OffsetsDiffer'
  BY <1>1, <1>2 DEF Inv, TypeOK, Records, OffsetsDiffer
<1>5. Leases' = Leases
  BY <1>1, <1>2 DEF Leases
<1>6. TokenInv'
  BY <1>1, <1>5 DEF Inv, TokenInv, StepsMatch, CoordIsNewest, OwnTokens, LeasesAreOwn,
                    UnfencedIsLast, AllLeasesGrow
<1> QED
  BY <1>3, <1>4, <1>6 DEF Inv

LEMMA CompactOrTickStep ==
  ASSUME Inv, Compact \/ Tick
  PROVE  Inv'
<1>1. /\ UNCHANGED <<end, coord, pc, draft, fresh, held, identity, faults>>
      /\ log' \subseteq log /\ now' \in 0..MaxTime
  BY SuccessionAssumption DEF Inv, TypeOK, Compact, Tick
<1>2. TypeOK' /\ OffsetsDiffer'
  BY <1>1 DEF Inv, TypeOK, OffsetsDiffer
<1>3. TokenInv'
  BY <1>1, SameLogProjects, TokensUnchanged
<1> QED
  BY <1>2, <1>3 DEF Inv

LEMMA InvStep == Inv /\ [Next]_vars => Inv'
<1> SUFFICES ASSUME Inv, [Next]_vars PROVE Inv'
  OBVIOUS
<1>1. CASE UNCHANGED vars
  <2>1. UNCHANGED <<now, log, end, coord, pc, draft, fresh, held, identity, faults>>
    BY <1>1 DEF vars
  <2>2. TypeOK' /\ OffsetsDiffer'
    BY <2>1 DEF Inv, TypeOK, OffsetsDiffer
  <2>3. TokenInv'
    BY <2>1, SameLogProjects, TokensUnchanged
  <2> QED
    BY <2>2, <2>3 DEF Inv
<1>2. ASSUME NEW m \in Members, Register(m) PROVE Inv'
  BY <1>2, RegisterStep
<1>3. ASSUME NEW m \in Members,
             ReadStart(m) \/ ReadScan(m) \/ Reevaluate(m) \/ Restart(m)
      PROVE  Inv'
  BY <1>3, ReadStep
<1>4. ASSUME NEW m \in Members, Acquire(m) PROVE Inv'
  BY <1>4, AcquireStep
<1>5. ASSUME NEW m \in Members, Install(m) PROVE Inv'
  BY <1>5, InstallStep
<1>6. ASSUME NEW m \in Members, AcquireFails(m) \/ SendFails(m) \/ Crash(m) PROVE Inv'
  BY <1>6, DropStep
<1>7. ASSUME NEW m \in Members, Renew(m) PROVE Inv'
  BY <1>7, RenewStep
<1>8. ASSUME NEW m \in Members, WriteSend(m) PROVE Inv'
  BY <1>8, WriteSendStep
<1>9. ASSUME NEW m \in Members, NEW st \in {"committed", "aborted"}, WriteEnd(m, st)
      PROVE  Inv'
  BY <1>9, WriteEndStep
<1>10. ASSUME NEW m \in Members, NEW kind \in {"registration", "lease"},
              Tombstone(kind, m)
       PROVE  Inv'
  BY <1>10, TombstoneStep
<1>11. CASE TransactionTimeout
  BY <1>11, TimeoutStep
<1>12. CASE Compact \/ Tick
  BY <1>12, CompactOrTickStep
<1> QED
  BY <1>1, <1>2, <1>3, <1>4, <1>5, <1>6, <1>7, <1>8, <1>9, <1>10, <1>11, <1>12 DEF Next

-----------------------------------------------------------------------------
(* The theorems.                                                           *)

\* The inductive invariant holds in every state: what a member may do fits its
\* tokens, coord is the newest token, no two members share one, and the last
\* unfenced producer has the newest lease.
THEOREM Invariance == Spec => []Inv
BY InitInv, InvStep, PTL DEF Spec

\* The variables have their types, for every set of members and every bound.
THEOREM TypeCorrect == Spec => []TypeOK
<1>1. Inv => TypeOK
  BY DEF Inv
<1> QED
  BY <1>1, Invariance, PTL

\* A deposed holder cannot write a lease after its successor's: the tokens of
\* the committed leases grow with the offset (broker.rs write_lease).
THEOREM LeaseTokensAlwaysGrow == Spec => []LeaseTokensGrow
<1>1. Inv => LeaseTokensGrow
  BY DEF Inv, TokenInv, AllLeasesGrow, LeaseTokensGrow, Leases, Committed
<1> QED
  BY <1>1, Invariance, PTL

\* A token belongs to one member, and a lease that carries it names that
\* member, whoever mints between InitProducerId and the read of the token
\* (broker.rs hold_role).
THEOREM TokenAlwaysHasOneOwner == Spec => []TokenHasOneOwner
<1>1. Inv => TokenHasOneOwner
  BY DEF Inv, TokenInv, OwnTokens, LeasesAreOwn, TokenHasOneOwner, Leases
<1> QED
  BY <1>1, Invariance, PTL

-----------------------------------------------------------------------------
(* The fold.                                                               *)

Slots == [offset : Int, value : Values \cup {NoRecord}]

Folds == [members : [Members -> Slots], lease : Slots]

\* Two records of one key may be put in either order: the later offset wins.
LEMMA PutCommutes ==
  ASSUME NEW slot \in Slots, NEW r \in Records, NEW s \in Records,
         r.offset = s.offset => r = s
  PROVE  Put(Put(slot, r), s) = Put(Put(slot, s), r)
BY DEF Put, Slots, Records

LEMMA PutType ==
  ASSUME NEW slot \in Slots, NEW r \in Records
  PROVE  Put(slot, r) \in Slots
BY DEF Put, Slots, Records

LEMMA ApplyFold ==
  ASSUME NEW fold \in Folds, NEW r \in Records
  PROVE  /\ Apply(fold, r) \in Folds
         /\ r.kind = "registration" =>
              /\ Apply(fold, r).lease = fold.lease
              /\ Apply(fold, r).members =
                   [fold.members EXCEPT ![r.member] = Put(fold.members[r.member], r)]
         /\ r.kind # "registration" =>
              /\ Apply(fold, r).members = fold.members
              /\ Apply(fold, r).lease = Put(fold.lease, r)
<1>1. /\ fold.lease \in Slots /\ fold.members \in [Members -> Slots]
      /\ r.member \in Members
  BY DEF Folds, Records
<1>2. Put(fold.members[r.member], r) \in Slots /\ Put(fold.lease, r) \in Slots
  BY <1>1, PutType
<1>3. CASE r.kind = "registration"
  BY <1>1, <1>2, <1>3 DEF Apply, Folds
<1>4. CASE r.kind # "registration"
  BY <1>1, <1>2, <1>4 DEF Apply, Folds
<1> QED
  BY <1>3, <1>4

LEMMA ApplyCommutes ==
  ASSUME NEW fold \in Folds, NEW r \in Records, NEW s \in Records, SameKey(r, s),
         r.offset = s.offset => r = s
  PROVE  Apply(Apply(fold, r), s) = Apply(Apply(fold, s), r)
<1> DEFINE Effect(g, f, q) ==
             /\ q.kind = "registration" =>
                  /\ g.lease = f.lease
                  /\ g.members = [f.members EXCEPT ![q.member] = Put(f.members[q.member], q)]
             /\ q.kind # "registration" =>
                  /\ g.members = f.members
                  /\ g.lease = Put(f.lease, q)
<1>1. \A f \in Folds, q \in Records : Apply(f, q) \in Folds /\ Effect(Apply(f, q), f, q)
  BY ApplyFold
<1>2. PICK fr \in Folds : fr = Apply(fold, r) /\ Effect(fr, fold, r)
  BY <1>1
<1>3. PICK fs \in Folds : fs = Apply(fold, s) /\ Effect(fs, fold, s)
  BY <1>1
<1>4. PICK rs \in Folds : rs = Apply(fr, s) /\ Effect(rs, fr, s)
  BY <1>1
<1>5. PICK sr \in Folds : sr = Apply(fs, r) /\ Effect(sr, fs, r)
  BY <1>1
<1>6. rs.lease = sr.lease /\ rs.members = sr.members
  <2>1. CASE r.kind = "registration"
    <3>1. s.kind = "registration" /\ s.member = r.member /\ r.member \in Members
      BY <2>1 DEF SameKey, Records
    <3>2. rs.lease = sr.lease
      BY <1>2, <1>3, <1>4, <1>5, <2>1, <3>1
    <3>3. PICK k \in Members : k = r.member
      BY <3>1
    <3>4. fold.members \in [Members -> Slots] /\ fold.members[k] \in Slots
      BY DEF Folds
    <3>5. fr.members = [fold.members EXCEPT ![k] = Put(fold.members[k], r)]
      BY <1>2, <2>1, <3>3
    <3>6. fs.members = [fold.members EXCEPT ![k] = Put(fold.members[k], s)]
      BY <1>3, <3>1, <3>3
    <3>7. rs.members = [fr.members EXCEPT ![k] = Put(fr.members[k], s)]
      BY <1>4, <3>1, <3>3
    <3>8. sr.members = [fs.members EXCEPT ![k] = Put(fs.members[k], r)]
      BY <1>5, <2>1, <3>3
    <3>9. Put(Put(fold.members[k], r), s) = Put(Put(fold.members[k], s), r)
      BY <3>4, PutCommutes
    <3> QED
      BY <3>2, <3>4, <3>5, <3>6, <3>7, <3>8, <3>9
  <2>2. CASE r.kind # "registration"
    <3>1. s.kind # "registration" /\ fold.lease \in Slots
      BY <2>2 DEF SameKey, Folds
    <3> QED
      BY <1>2, <1>3, <1>4, <1>5, <2>2, <3>1, PutCommutes
  <2> QED
    BY <2>1, <2>2
<1>7. rs = sr
  BY <1>6 DEF Folds
<1> QED
  BY <1>2, <1>3, <1>4, <1>5, <1>7

\* The order in which two records of a key are folded does not matter, since
\* no two records of the log have the same offset (succession.rs put_member,
\* put_lease and from_records).
THEOREM FoldIsAlwaysOrderFree == Spec => []FoldIsOrderFree
<1>1. ASSUME Inv PROVE FoldIsOrderFree
  <2>1. EmptyFold \in Folds
    BY DEF EmptyFold, Folds, NoSlot, Slots
  <2>2. Committed \subseteq Records
    BY <1>1 DEF Inv, TypeOK, Committed
  <2>3. \A t \in Committed : Apply(EmptyFold, t) \in Folds
    BY <2>1, <2>2, ApplyFold
  <2>4. \A r, s \in Committed : r.offset = s.offset => r = s
    BY <1>1 DEF Inv, OffsetsDiffer, Committed
  <2> QED
    BY <2>1, <2>2, <2>3, <2>4, ApplyCommutes DEF FoldIsOrderFree
<1> QED
  BY <1>1, Invariance, PTL

=============================================================================
