--------------------------- MODULE SupervisorInv ---------------------------
(***************************************************************************)
(* The inductive invariant behind the safety properties of Supervisor: what *)
(* holds at each control point of a goroutine that has the applying flag,  *)
(* and what ties the files to the counter and to the running box.          *)
(***************************************************************************)
EXTENDS Supervisor

\* Control points of Apply, from the If-Match check to installInstance.
PromotingPCs == {"promoteRaw", "promoteMeta", "promoteState", "install"}
QuietPCs     == {"start", "probe"} \cup PromotingPCs
StagedPCs    == {"take"} \cup QuietPCs
AdmittedPCs  == {"stageRaw", "stageMeta"} \cup StagedPCs

\* Control points at which a goroutine holds an instance it has not installed.
RestoringPCs == {"restoreProbe", "restoreInstall"}
HolderPCs    == {"probe"} \cup PromotingPCs \cup RestoringPCs

\* The body has been admitted: it is a configuration, and If-Match still holds.
Admitted(t) ==
  pc[t] \in AdmittedPCs =>
    /\ job[t].req.Raw \in Configs
    /\ job[t].req.MatchMode = "rev" => job[t].req.MatchRev = revision

\* What has been staged is this operation's body.
StagedOwn(t) ==
  /\ pc[t] \in {"stageMeta"} \cup StagedPCs => staged = job[t].req.Raw
  /\ pc[t] \in StagedPCs \ {"install"} =>
       stagedMeta = [ContentSHA256 |-> Hash(job[t].req.Raw), Revision |-> agentState]

\* The old box is closed before the new one starts, and nobody installs one.
Quiet(t) == pc[t] \in QuietPCs => inst = NoInst

\* The new instance, from Start to installInstance.
Holder(t) ==
  /\ job[t].new # NoInst <=> pc[t] \in HolderPCs
  /\ pc[t] \in HolderPCs => inst # job[t].new /\ box[job[t].new] # "free"
  /\ pc[t] \in {"probe"} \cup PromotingPCs => cfgOf[job[t].new] = job[t].req.Raw
  /\ pc[t] \in RestoringPCs =>
       lastGood # NoFile /\ lastGoodMeta # NoFile /\ cfgOf[job[t].new] = lastGood

\* How far PromoteStaged has come.
Promoting(t) ==
  /\ pc[t] \in {"promoteMeta", "promoteState", "install"} => lastGood = job[t].req.Raw
  /\ pc[t] = "promoteState" =>
       lastGoodMeta = [ContentSHA256 |-> Hash(lastGood), Revision |-> agentState + 1]
  /\ pc[t] = "install" =>
       lastGoodMeta = [ContentSHA256 |-> Hash(lastGood), Revision |-> agentState]

\* Success is reported only after the installation of what was promoted.
Reported(t) ==
  /\ job[t].res = "ok" => pc[t] = "release"
  /\ job[t].op = "apply" /\ (pc[t] = "running" \/ job[t].res = "ok") =>
       /\ lastGood = job[t].req.Raw
       /\ lastGoodMeta = [ContentSHA256 |-> Hash(lastGood), Revision |-> agentState]
       /\ contentSHA = Hash(lastGood) /\ revision = agentState

\* The running box has a live identity and the last-good configuration.
Served == inst # NoInst => box[inst] # "free" /\ cfgOf[inst] = lastGood

\* The files: raw before meta before counter, and the revision in memory is
\* never ahead of the one a restart would find.
Ordered ==
  /\ lastGoodMeta # NoFile =>
       /\ lastGood # NoFile
       /\ lastGoodMeta.Revision \in {agentState, agentState + 1}
       /\ revision <= lastGoodMeta.Revision
  /\ lastGoodMeta = NoFile => revision <= agentState

ThreadInv(t) ==
  Admitted(t) /\ StagedOwn(t) /\ Quiet(t) /\ Holder(t) /\ Promoting(t) /\ Reported(t)

IInv == TypeOK /\ Mutex /\ Served /\ Ordered /\ \A t \in Threads : ThreadInv(t)

=============================================================================
