---------------------------- MODULE MCSupervisor ----------------------------
(* Small instances of Supervisor for TLC. *)
EXTENDS SupervisorRefinement, TLC

CONSTANTS c1, c2, c3, i1, i2, t1, t2, l1, l2, p1, p2

\* c3 passes Validate but cannot start.
MCBinds    == c1 :> {p1} @@ c2 :> {p1, p2} @@ c3 :> {p2}

Put(c)      == [NoReq EXCEPT !.Raw = c]
Forced(c)   == [NoReq EXCEPT !.Raw = c, !.Force = TRUE]
AtRev(c, n) == [NoReq EXCEPT !.Raw = c, !.MatchMode = "rev", !.MatchRev = n]
AtSHA(c, d) == [NoReq EXCEPT !.Raw = c, !.MatchMode = "sha", !.MatchSHA = Hash(d)]

\* Plain, forced and conditional bodies, an empty one, one that cannot start.
AllRequests == {Put(c1), Put(c3), Put(NoFile), Forced(c1), AtSHA(c2, c1)}
               \cup {AtRev(c2, n) : n \in 0..1}

PutRequests == {Put(c1), Put(c2), Put(c3)}
TwoPuts     == {Put(c1), Put(c2), Put(NoFile)}
LiveRequests == {Put(c1), Put(NoFile)}

=============================================================================
