------------------------------ MODULE LastGood ------------------------------
(***************************************************************************)
(* What the supervisor promises of a node (docs/adr/0003, 04-lifecycle),   *)
(* as a register with a rehearsal.  `good' is the configuration that       *)
(* survives a crash.  Whatever the requests, failures and restarts:        *)
(*   - a configuration is tried in the engine before it becomes good;      *)
(*   - it becomes good only while nothing serves, so that the node never   *)
(*     serves a configuration that a restart would not bring back;         *)
(*   - only the good configuration, once tried, is put to serve.           *)
(* Supervisor implements this (SupervisorRefinement).                      *)
(***************************************************************************)
CONSTANTS Configs, None

VARIABLES
  good,     \* the last-good configuration on disk
  trial,    \* the configuration of a box that was started and does not serve
  serving   \* the configuration that serves

vars == <<good, trial, serving>>

Init == good = None /\ trial = None /\ serving = None

Try == \E c \in Configs :
  /\ trial = None /\ trial' = c
  /\ UNCHANGED <<good, serving>>

\* The tried configuration failed its probe, or could not be written.
Abandon ==
  /\ trial' = None
  /\ UNCHANGED <<good, serving>>

Adopt ==
  /\ trial # None /\ serving = None
  /\ good' = trial
  /\ UNCHANGED <<trial, serving>>

Serve ==
  /\ trial = good /\ good # None
  /\ serving' = good /\ trial' = None
  /\ UNCHANGED good

Stop ==
  /\ serving' = None
  /\ UNCHANGED <<good, trial>>

\* The process dies; only the disk remains.
Crash ==
  /\ serving' = None /\ trial' = None
  /\ UNCHANGED good

Next == Try \/ Abandon \/ Adopt \/ Serve \/ Stop \/ Crash

Spec == Init /\ [][Next]_vars

=============================================================================
