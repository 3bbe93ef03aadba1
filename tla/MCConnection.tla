---------------------------- MODULE MCConnection ----------------------------
EXTENDS Connection

Conf(calls, noResponse, faults, budget, dues) ==
  [calls |-> calls, reauth |-> dues > 0, noResponse |-> noResponse, faults |-> faults,
   budget |-> budget, dues |-> dues]

\* Three requests that break, one of them without a response; exchanges among two requests;
\* and a peer that stops reading under four: one is written, one fills the queue, one waits
\* for a place with its read guard, and one waits behind that guard to authenticate again.
MCConfs ==
  {Conf(1..3, {n}, {"cancel", "eof", "write_error", "close", "version", "refuse"}, 1, 0) : n \in 1..3}
  \cup {Conf(1..2, {n}, {"cancel", "stall", "version"}, 1, 1) : n \in 1..2}
  \cup {Conf(1..2, {}, {"cancel", "stall"}, 2, 0),
        Conf(1..2, {}, {"cancel", "stall", "eof", "reject", "version"}, 1, 2),
        Conf(1..4, {1}, {"stall"}, 1, 1)}
=============================================================================
