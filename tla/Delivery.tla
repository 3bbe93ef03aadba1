------------------------------ MODULE Delivery ------------------------------
(***************************************************************************)
(* What the idempotent producer promises to the application: each           *)
(* accepted record enters the log of its partition at most once, in the     *)
(* order of the sends, and its delivery handle resolves once, with success  *)
(* only for a record that is in the log.  A record that was reported failed *)
(* may be in the log, and may even enter it late and out of order.          *)
(***************************************************************************)
EXTENDS Integers, Sequences

CONSTANTS Partitions,
          Records       \* numbered in the order in which send accepts them

VARIABLES log,          \* the records of each partition, in log order
          outcome       \* what the delivery handle of each record shows

vars == <<log, outcome>>

Init ==
  /\ log = [p \in Partitions |-> <<>>]
  /\ outcome = [r \in Records |-> "none"]

Logged == UNION {{log[p][i] : i \in DOMAIN log[p]} : p \in Partitions}

\* send accepts the next record.
Accept(r) ==
  /\ outcome[r] = "none"
  /\ \A s \in Records : s < r => outcome[s] # "none"
  /\ outcome' = [outcome EXCEPT ![r] = "pending"]
  /\ UNCHANGED log

\* A run of records that were sent and are in no log enters the log of p, behind every earlier
\* record.
Write(p, rs) ==
  /\ rs # <<>>
  /\ \A i \in DOMAIN rs : rs[i] \in Records \ Logged /\ outcome[rs[i]] # "none"
  /\ \A i, j \in DOMAIN rs : i < j => rs[i] < rs[j]
  /\ \A i \in DOMAIN log[p], j \in DOMAIN rs :
       outcome[log[p][i]] # "failed" /\ outcome[rs[j]] # "failed" => log[p][i] < rs[j]
  /\ log' = [log EXCEPT ![p] = @ \o rs]
  /\ UNCHANGED outcome

\* The delivery handles of some records resolve.
Resolve(ok, bad) ==
  /\ ok \cap bad = {}
  /\ \A r \in ok \cup bad : outcome[r] = "pending"
  /\ ok \subseteq Logged
  /\ outcome' = [r \in Records |-> IF r \in ok THEN "acked"
                                   ELSE IF r \in bad THEN "failed" ELSE outcome[r]]
  /\ UNCHANGED log

\* The records that a step adds to the log of p.
Added(p) == SubSeq(log'[p], Len(log[p]) + 1, Len(log'[p]))

Next ==
  \/ \E r \in Records : Accept(r)
  \/ \E p \in Partitions : Write(p, Added(p))
  \/ \E ok, bad \in SUBSET Records : Resolve(ok, bad)

Spec == Init /\ [][Next]_vars
=============================================================================
