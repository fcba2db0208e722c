---------------------------- MODULE MCOwnership ----------------------------
(* Small instances of Ownership for TLC. *)
EXTENDS Ownership, TLC

CONSTANTS h1, h2, s1, s2

=============================================================================
