--------------------------- MODULE MCOffsetCommit ---------------------------
(* Instance of OffsetCommit for TLC. *)
EXTENDS OffsetCommit

\* Both protocols, with automatic commits and without.
MCConfs == [coop : BOOLEAN, auto : BOOLEAN]

\* Two commits that meet; a commit that loses two connections; a commit across a fault and a
\* rebalance; two commits around a rebalance.
MCBudgets == {[faults |-> 0, rebalances |-> 0, calls |-> 2],
              [faults |-> 2, rebalances |-> 0, calls |-> 1],
              [faults |-> 1, rebalances |-> 1, calls |-> 1],
              [faults |-> 0, rebalances |-> 1, calls |-> 2]}
=============================================================================
