------------------------ MODULE SupervisorRefinement ------------------------
(***************************************************************************)
(* Supervisor implements LastGood.  The configuration that serves is that  *)
(* of s.inst; the one on trial is that of the box the operation in the     *)
(* pipeline has started and neither installed nor closed yet.              *)
(***************************************************************************)
EXTENDS SupervisorInv

Trying == {t \in Threads : job[t].new # NoInst}

Trial == IF Trying = {} THEN NoFile ELSE cfgOf[job[CHOOSE t \in Trying : TRUE].new]

ServingConfig == IF inst = NoInst THEN NoFile ELSE cfgOf[inst]

LG == INSTANCE LastGood
        WITH None <- NoFile, good <- lastGood, trial <- Trial, serving <- ServingConfig

\* Every step of the pipeline (stage, take, start, probe, the three writes of the promotion,
\* install, restore), of watch, restartLoop and shutdown, and every crash, is a step that
\* LastGood allows, or changes nothing it speaks of.
ImplementsLastGood == LG!Spec

=============================================================================
