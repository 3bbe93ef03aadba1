---------------------------- MODULE MCSuccession ----------------------------
(* Instances of Succession for TLC. *)
EXTENDS Succession, TLC

CONSTANTS m1, m2

\* The clock of the second member is one tick ahead.
SecondIsFast == (m1 :> 0) @@ (m2 :> 1)

=============================================================================
