------------------------------ MODULE MCAgent -------------------------------
(* Instances of Agent for TLC. *)
EXTENDS Agent, TLC

CONSTANTS c1, c2, s1, s2

AuthOps == {"create", "delete", "rotate", "revoke", "disableBootstrap"}

\* One client edits credentials, one the heartbeat.
OneEach == (c1 :> AuthOps) @@ (c2 :> {"put", "off"})

=============================================================================
