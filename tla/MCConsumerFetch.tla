-------------------------- MODULE MCConsumerFetch --------------------------
(* Instances of ConsumerFetch for TLC. *)
EXTENDS ConsumerFetch

Conf(parts, brokers, end, reset, waits) ==
  [parts |-> parts, brokers |-> brokers, end |-> end, reset |-> reset, waits |-> waits,
   boot |-> "b1", max |-> 1]

\* One partition that two brokers can serve, and two partitions of one broker.
MCConfs == UNION {{Conf({"p1"}, {"b1", "b2"}, 4, r, FALSE),
                   Conf({"p1", "p2"}, {"b1"}, 2, r, FALSE)} : r \in {"latest", "earliest"}}
MCBudgets == {[faults |-> 2, cancels |-> 0, calls |-> 0, rebalances |-> 0],
              [faults |-> 1, cancels |-> 1, calls |-> 0, rebalances |-> 0],
              [faults |-> 1, cancels |-> 0, calls |-> 1, rebalances |-> 0],
              [faults |-> 0, cancels |-> 0, calls |-> 2, rebalances |-> 0],
              [faults |-> 0, cancels |-> 0, calls |-> 1, rebalances |-> 1]}

MCSeekTargets == {0, 3, Beginning, End}

=============================================================================
