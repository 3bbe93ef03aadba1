--------------------------- MODULE MCGroupMember ---------------------------
(* Instances of GroupMember for TLC. *)
EXTENDS GroupMember

CONSTANTS p, q

=============================================================================
