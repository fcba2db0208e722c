-------------------------- MODULE SupervisorProofs --------------------------
(***************************************************************************)
(* Proofs about Supervisor, for every value of its constants.  IInv of     *)
(* SupervisorInv is inductive: one lemma per action below.  Each of them   *)
(* shows the conjuncts the action can disturb; the control points of the   *)
(* other goroutines are disposed of by Alone and Outside.                  *)
(***************************************************************************)
EXTENDS SupervisorInv, TLAPS

\* The records that goroutines keep are well typed.
LEMMA JobTypes ==
  /\ NoReq \in Request
  /\ NoJob \in Job
  /\ \A o \in {"none", "apply", "start", "stop", "loop"}, r \in Request, g \in States :
       NewJob(o, r, g) \in Job
BY DEF NoReq, Request, NoJob, NewJob, Job, States

\* Updates of a goroutine's record keep its type.
LEMMA JobNew ==
  ASSUME NEW j \in [Threads -> Job], NEW t \in Threads, NEW i \in Insts \cup {NoInst}
  PROVE  [j EXCEPT ![t].new = i] \in [Threads -> Job]
BY DEF Job

LEMMA JobGoalNew ==
  ASSUME NEW j \in [Threads -> Job], NEW t \in Threads, NEW i \in Insts \cup {NoInst},
         NEW g \in States
  PROVE  [j EXCEPT ![t].goal = g, ![t].new = i] \in [Threads -> Job]
BY DEF Job

\* While t has the flag, no other goroutine is inside the pipeline.
LEMMA Alone ==
  ASSUME IInv, NEW t \in Threads, pc[t] \in Pipeline, NEW u \in Threads, u # t
  PROVE  pc[u] \notin Pipeline /\ job[u].new = NoInst /\ job[u].res # "ok"
BY DEF IInv, Mutex, ThreadInv, Holder, Reported, HolderPCs, PromotingPCs,
   RestoringPCs, Pipeline

\* While the flag is clear, no goroutine is.
LEMMA Nobody ==
  ASSUME IInv, ~applying, NEW u \in Threads
  PROVE  pc[u] \notin Pipeline /\ job[u].new = NoInst /\ job[u].res # "ok"
BY DEF IInv, Mutex, ThreadInv, Holder, Reported, HolderPCs, PromotingPCs,
   RestoringPCs, Pipeline

\* A goroutine outside the pipeline satisfies its part of the invariant.
LEMMA Outside ==
  ASSUME NEW u, pc'[u] \notin Pipeline, job'[u].new = NoInst, job'[u].res # "ok"
  PROVE  ThreadInv(u)'
BY DEF ThreadInv, Admitted, StagedOwn, Quiet, Holder, Promoting, Reported,
   PromotingPCs, QuietPCs, StagedPCs, AdmittedPCs, RestoringPCs, HolderPCs, Pipeline

\* A step of t inside the pipeline concerns no other goroutine.
LEMMA OthersKept ==
  ASSUME IInv, NEW t \in Threads, pc[t] \in Pipeline,
         \A u \in Threads : u # t => pc'[u] = pc[u] /\ job'[u] = job[u]
  PROVE  \A u \in Threads : u # t => ThreadInv(u)'
BY Alone, Outside

\* Nor does the step by which t takes the flag.
LEMMA OthersOut ==
  ASSUME IInv, ~applying, NEW t \in Threads,
         \A u \in Threads : u # t => pc'[u] = pc[u] /\ job'[u] = job[u]
  PROVE  \A u \in Threads : u # t => ThreadInv(u)'
BY Nobody, Outside

\* What a goroutine relies on survives the steps of those without the flag:
\* they may lose the running box, or close one that is not this goroutine's.
LEMMA ThreadKept ==
  ASSUME TypeOK, NEW u \in Threads, ThreadInv(u),
         pc'[u] = pc[u], job'[u] = job[u],
         UNCHANGED <<storeVars, contentSHA, revision>>,
         inst' = inst \/ inst' = NoInst,
         job[u].new # NoInst =>
           /\ box[job[u].new] # "free" => box'[job[u].new] # "free"
           /\ cfgOf'[job[u].new] = cfgOf[job[u].new]
  PROVE  ThreadInv(u)'
BY DEF TypeOK, storeVars, ThreadInv, Admitted, StagedOwn, Quiet, Holder, Promoting,
   Reported, PromotingPCs, QuietPCs, StagedPCs, AdmittedPCs, RestoringPCs, HolderPCs

\* The flag stays a lock.  Moving on with it.
LEMMA MutexStay ==
  ASSUME IInv, NEW t \in Threads, pc[t] \in Pipeline, NEW l \in Pipeline,
         pc' = [pc EXCEPT ![t] = l], applying' = applying
  PROVE  Mutex'
BY DEF IInv, Mutex, TypeOK

\* Taking it.
LEMMA MutexEnter ==
  ASSUME IInv, NEW t \in Threads, ~applying, NEW l \in Pipeline,
         pc' = [pc EXCEPT ![t] = l], applying' = TRUE
  PROVE  Mutex'
BY DEF IInv, Mutex, TypeOK

\* Dropping it.
LEMMA MutexLeave ==
  ASSUME IInv, NEW t \in Threads, pc[t] \in Pipeline, NEW l, l \notin Pipeline,
         pc' = [pc EXCEPT ![t] = l], applying' = FALSE
  PROVE  Mutex'
BY DEF IInv, Mutex, TypeOK

\* Stepping outside it.
LEMMA MutexAside ==
  ASSUME IInv, NEW t \in Threads, pc[t] \notin Pipeline, NEW l, l \notin Pipeline,
         pc' = [pc EXCEPT ![t] = l], applying' = applying
  PROVE  Mutex'
BY DEF IInv, Mutex, TypeOK


\* Nothing is written yet; a body that passes is a valid configuration.
LEMMA AdmitStep ==
  ASSUME IInv, NEW t \in Threads, Admit(t)
  PROVE  IInv'
<1> USE DEF Admit, Goto
<1>0. TypeOK /\ Served /\ Ordered /\ ThreadInv(t)
  BY DEF IInv
<1>1. TypeOK'
  <2>1. job' \in [Threads -> Job] /\ pc' \in [Threads -> Labels]
    BY <1>0 DEF TypeOK, Job, States, Labels, Pipeline, storeVars, memVars, boxVars
  <2> QED
    BY <1>0, <2>1, SupervisorAssumption DEF TypeOK, StoreTypeOK, storeVars,
       memVars, boxVars, Job, States
<1>2. Mutex'
  BY MutexStay DEF storeVars, memVars, boxVars, Pipeline
<1>3. \A u \in Threads : u # t => ThreadInv(u)'
  BY <1>0, OthersKept DEF TypeOK, storeVars, memVars, boxVars, Pipeline
<1>4. ThreadInv(t)'
  BY <1>0, SupervisorAssumption DEF TypeOK, storeVars, memVars, boxVars, ThreadInv,
     Admitted, StagedOwn, Quiet, Holder, Promoting, Reported, PromotingPCs,
     QuietPCs, StagedPCs, AdmittedPCs, RestoringPCs, HolderPCs, MatchFails, Job,
     Request
<1>5. Served' /\ Ordered'
  BY <1>0 DEF Served, Ordered, TypeOK, StoreTypeOK, storeVars, memVars, boxVars
<1> QED
  BY <1>1, <1>2, <1>3, <1>4, <1>5 DEF IInv

\* A failed WriteStaged leaves everything but the control point.
LEMMA StageFailsStep ==
  ASSUME IInv, NEW t \in Threads, StageFails(t)
  PROVE  IInv'
<1> USE DEF StageFails, Goto
<1>0. TypeOK /\ Served /\ Ordered /\ ThreadInv(t)
  BY DEF IInv
<1>1. TypeOK'
  <2>1. job' \in [Threads -> Job] /\ pc' \in [Threads -> Labels]
    BY <1>0 DEF TypeOK, Job, States, Labels, Pipeline, storeVars, memVars, boxVars
  <2> QED
    BY <1>0, <2>1, SupervisorAssumption DEF TypeOK, StoreTypeOK, storeVars,
       memVars, boxVars, Job, States
<1>2. Mutex'
  BY MutexStay DEF storeVars, memVars, boxVars, Pipeline
<1>3. \A u \in Threads : u # t => ThreadInv(u)'
  BY <1>0, OthersKept DEF TypeOK, storeVars, memVars, boxVars, Pipeline
<1>4. ThreadInv(t)'
  BY <1>0 DEF TypeOK, storeVars, memVars, boxVars, ThreadInv, Admitted, StagedOwn,
     Quiet, Holder, Promoting, Reported, PromotingPCs, QuietPCs, StagedPCs,
     AdmittedPCs, RestoringPCs, HolderPCs
<1>5. Served' /\ Ordered'
  BY <1>0 DEF Served, Ordered, TypeOK, StoreTypeOK, storeVars, memVars, boxVars
<1> QED
  BY <1>1, <1>2, <1>3, <1>4, <1>5 DEF IInv

\* setState touches no file and no box.
LEMMA SettleStep ==
  ASSUME IInv, NEW t \in Threads, Settle(t)
  PROVE  IInv'
<1> USE DEF Settle, Goto
<1>0. TypeOK /\ Served /\ Ordered /\ ThreadInv(t)
  BY DEF IInv
<1>1. TypeOK'
  <2>1. job' \in [Threads -> Job] /\ pc' \in [Threads -> Labels]
    BY <1>0 DEF TypeOK, Job, States, Labels, Pipeline, storeVars, memVars, boxVars
  <2> QED
    BY <1>0, <2>1, SupervisorAssumption DEF TypeOK, StoreTypeOK, storeVars,
       memVars, boxVars, Job, States
<1>2. Mutex'
  BY MutexStay DEF storeVars, memVars, boxVars, Pipeline
<1>3. \A u \in Threads : u # t => ThreadInv(u)'
  BY <1>0, OthersKept DEF TypeOK, storeVars, memVars, boxVars, Pipeline
<1>4. ThreadInv(t)'
  BY <1>0 DEF TypeOK, storeVars, memVars, boxVars, ThreadInv, Admitted, StagedOwn,
     Quiet, Holder, Promoting, Reported, PromotingPCs, QuietPCs, StagedPCs,
     AdmittedPCs, RestoringPCs, HolderPCs
<1>5. Served' /\ Ordered'
  BY <1>0 DEF Served, Ordered, TypeOK, StoreTypeOK, storeVars, memVars, boxVars
<1> QED
  BY <1>1, <1>2, <1>3, <1>4, <1>5 DEF IInv

\* The success is recorded after the installation.
LEMMA SetRunningStep ==
  ASSUME IInv, NEW t \in Threads, SetRunning(t)
  PROVE  IInv'
<1> USE DEF SetRunning, Goto
<1>0. TypeOK /\ Served /\ Ordered /\ ThreadInv(t)
  BY DEF IInv
<1>1. TypeOK'
  <2>1. job' \in [Threads -> Job] /\ pc' \in [Threads -> Labels]
    BY <1>0 DEF TypeOK, Job, States, Labels, Pipeline, storeVars, memVars, boxVars
  <2> QED
    BY <1>0, <2>1, SupervisorAssumption DEF TypeOK, StoreTypeOK, storeVars,
       memVars, boxVars, Job, States
<1>2. Mutex'
  BY MutexStay DEF storeVars, memVars, boxVars, Pipeline
<1>3. \A u \in Threads : u # t => ThreadInv(u)'
  BY <1>0, OthersKept DEF TypeOK, storeVars, memVars, boxVars, Pipeline
<1>4. ThreadInv(t)'
  BY <1>0 DEF TypeOK, storeVars, memVars, boxVars, ThreadInv, Admitted, StagedOwn,
     Quiet, Holder, Promoting, Reported, PromotingPCs, QuietPCs, StagedPCs,
     AdmittedPCs, RestoringPCs, HolderPCs, Job
<1>5. Served' /\ Ordered'
  BY <1>0 DEF Served, Ordered, TypeOK, StoreTypeOK, storeVars, memVars, boxVars
<1> QED
  BY <1>1, <1>2, <1>3, <1>4, <1>5 DEF IInv

\* staged.json and its meta receive this operation's body.
LEMMA StageStep ==
  ASSUME IInv, NEW t \in Threads, Stage(t)
  PROVE  IInv'
<1> USE DEF Stage, Goto, WriteStagedRaw, WriteStagedMeta
<1>0. TypeOK /\ Served /\ Ordered /\ ThreadInv(t)
  BY DEF IInv
<1>1. TypeOK'
  <2>1. job[t].req.Raw \in Configs
    BY <1>0 DEF ThreadInv, Admitted, AdmittedPCs
  <2>2. staged' \in Configs \cup {NoFile} /\ stagedMeta' \in Meta \cup {NoFile}
    BY <1>0, <2>1 DEF TypeOK, StoreTypeOK, Meta, Hashes
  <2> QED
    BY <1>0, <2>2 DEF TypeOK, StoreTypeOK, memVars, boxVars, Labels, Pipeline
<1>2. Mutex'
  BY MutexStay DEF storeVars, memVars, boxVars, Pipeline
<1>3. \A u \in Threads : u # t => ThreadInv(u)'
  BY <1>0, OthersKept DEF TypeOK, storeVars, memVars, boxVars, Pipeline
<1>4. ThreadInv(t)'
  BY <1>0 DEF TypeOK, storeVars, memVars, boxVars, ThreadInv, Admitted, StagedOwn,
     Quiet, Holder, Promoting, Reported, PromotingPCs, QuietPCs, StagedPCs,
     AdmittedPCs, RestoringPCs, HolderPCs
<1>5. Served' /\ Ordered'
  BY <1>0 DEF Served, Ordered, TypeOK, StoreTypeOK, storeVars, memVars, boxVars
<1> QED
  BY <1>1, <1>2, <1>3, <1>4, <1>5 DEF IInv

\* The running box is closed: from here on inst is nil.
LEMMA TakeStep ==
  ASSUME IInv, NEW t \in Threads, Take(t)
  PROVE  IInv'
<1> USE DEF Take, TakeInstance, CloseInst, Goto
<1>0. TypeOK /\ Served /\ Ordered /\ ThreadInv(t)
  BY DEF IInv
<1>1. TypeOK'
  <2>1. job' \in [Threads -> Job] /\ pc' \in [Threads -> Labels]
    BY <1>0 DEF TypeOK, Job, States, Labels, Pipeline, storeVars, memVars, boxVars
  <2> QED
    BY <1>0, <2>1, SupervisorAssumption DEF TypeOK, StoreTypeOK, storeVars,
       memVars, boxVars, Job, States
<1>2. Mutex'
  BY MutexStay DEF storeVars, memVars, boxVars, Pipeline
<1>3. \A u \in Threads : u # t => ThreadInv(u)'
  BY <1>0, OthersKept DEF TypeOK, storeVars, memVars, boxVars, Pipeline
<1>4. ThreadInv(t)'
  BY <1>0 DEF TypeOK, storeVars, memVars, boxVars, ThreadInv, Admitted, StagedOwn,
     Quiet, Holder, Promoting, Reported, PromotingPCs, QuietPCs, StagedPCs,
     AdmittedPCs, RestoringPCs, HolderPCs, Job
<1>5. Served' /\ Ordered'
  BY <1>0 DEF Served, Ordered, TypeOK, StoreTypeOK, storeVars, memVars, boxVars
<1> QED
  BY <1>1, <1>2, <1>3, <1>4, <1>5 DEF IInv

\* A started box gets a fresh identity and the staged configuration.
LEMMA StartStep ==
  ASSUME IInv, NEW t \in Threads, Start(t)
  PROVE  IInv'
<1> USE DEF Start, StartInst, FreeInsts, Goto
<1>0. TypeOK /\ Served /\ Ordered /\ ThreadInv(t)
  BY DEF IInv
<1>1. TypeOK'
  <2>1. job[t].req.Raw \in Configs
    BY <1>0 DEF ThreadInv, Admitted, AdmittedPCs, StagedPCs, QuietPCs
  <2>2. job' = job \/ \E i \in Insts : job' = [job EXCEPT ![t].new = i]
    BY DEF boxVars
  <2>3. job' \in [Threads -> Job]
    BY <1>0, <2>2 DEF TypeOK, Job
  <2>4. /\ box' \in [Insts -> {"free", "up", "dead"}]
        /\ cfgOf' \in [Insts -> Configs \cup {NoFile}]
    BY <1>0, <2>1 DEF TypeOK, boxVars
  <2> QED
    BY <1>0, <2>3, <2>4 DEF TypeOK, StoreTypeOK, storeVars, memVars, Labels, Pipeline
<1>2. Mutex'
  BY MutexStay DEF storeVars, memVars, boxVars, Pipeline
<1>3. \A u \in Threads : u # t => ThreadInv(u)'
  BY <1>0, OthersKept DEF TypeOK, storeVars, memVars, boxVars, Pipeline
<1>4. ThreadInv(t)'
  BY <1>0, SupervisorAssumption DEF TypeOK, storeVars, memVars, boxVars, ThreadInv,
     Admitted, StagedOwn, Quiet, Holder, Promoting, Reported, PromotingPCs,
     QuietPCs, StagedPCs, AdmittedPCs, RestoringPCs, HolderPCs, Job
<1>5. Served' /\ Ordered'
  BY <1>0 DEF Served, Ordered, TypeOK, StoreTypeOK, storeVars, memVars, boxVars
<1> QED
  BY <1>1, <1>2, <1>3, <1>4, <1>5 DEF IInv

\* A box that fails its probe is closed; it was never the serving one.
LEMMA ProbeStep ==
  ASSUME IInv, NEW t \in Threads, Probe(t)
  PROVE  IInv'
<1> USE DEF Probe, Discard, CloseInst, Goto
<1>0. TypeOK /\ Served /\ Ordered /\ ThreadInv(t)
  BY DEF IInv
<1>1. TypeOK'
  <2>1. job' = job \/ job' = [job EXCEPT ![t].new = NoInst]
    BY DEF boxVars
  <2>2. job' \in [Threads -> Job]
    <3>1. job \in [Threads -> Job]
      BY <1>0 DEF TypeOK
    <3>2. [job EXCEPT ![t].new = NoInst] \in [Threads -> Job]
      BY <3>1, JobNew
    <3> QED
      BY <2>1, <3>1, <3>2
  <2> QED
    BY <1>0, <2>2 DEF TypeOK, StoreTypeOK, storeVars, memVars, boxVars, Labels,
       Pipeline
<1>2. Mutex'
  BY MutexStay DEF storeVars, memVars, boxVars, Pipeline
<1>3. \A u \in Threads : u # t => ThreadInv(u)'
  BY <1>0, OthersKept DEF TypeOK, storeVars, memVars, boxVars, Pipeline
<1>4. ThreadInv(t)'
  BY <1>0 DEF TypeOK, storeVars, memVars, boxVars, ThreadInv, Admitted, StagedOwn,
     Quiet, Holder, Promoting, Reported, PromotingPCs, QuietPCs, StagedPCs,
     AdmittedPCs, RestoringPCs, HolderPCs, Job
<1>5. Served' /\ Ordered'
  BY <1>0 DEF Served, Ordered, TypeOK, StoreTypeOK, storeVars, memVars, boxVars,
     ThreadInv, Holder, HolderPCs, PromotingPCs, RestoringPCs
<1> QED
  BY <1>1, <1>2, <1>3, <1>4, <1>5 DEF IInv

\* The three writes of PromoteStaged keep raw, meta and counter in order.
LEMMA PromoteStep ==
  ASSUME IInv, NEW t \in Threads, Promote(t)
  PROVE  IInv'
<1> USE DEF Promote, PromoteRaw, PromoteMeta, PromoteState, Goto
<1>0. TypeOK /\ Served /\ Ordered /\ ThreadInv(t)
  BY DEF IInv
<1>1. TypeOK'
  <2>1. lastGoodMeta' \in Meta \cup {NoFile}
    BY <1>0 DEF TypeOK, StoreTypeOK, Meta, Hashes, ThreadInv, Admitted, StagedOwn,
       Quiet, Holder, Promoting, Reported, PromotingPCs, QuietPCs, StagedPCs,
       AdmittedPCs, RestoringPCs, HolderPCs
  <2> QED
    BY <1>0, <2>1 DEF TypeOK, StoreTypeOK, memVars, boxVars, Labels, Pipeline
<1>2. Mutex'
  BY MutexStay DEF storeVars, memVars, boxVars, Pipeline
<1>3. \A u \in Threads : u # t => ThreadInv(u)'
  BY <1>0, OthersKept DEF TypeOK, storeVars, memVars, boxVars, Pipeline
<1>4. ThreadInv(t)'
  BY <1>0 DEF TypeOK, storeVars, memVars, boxVars, ThreadInv, Admitted, StagedOwn,
     Quiet, Holder, Promoting, Reported, PromotingPCs, QuietPCs, StagedPCs,
     AdmittedPCs, RestoringPCs, HolderPCs
<1>5. Served' /\ Ordered'
  <2>1. inst = NoInst /\ inst' = inst
    BY <1>0 DEF ThreadInv, Quiet, QuietPCs, PromotingPCs, memVars
  <2>2. job[t].req.Raw \in Configs /\ job[t].req.Raw # NoFile
    BY <1>0, StoreAssumption DEF ThreadInv, Admitted, AdmittedPCs, StagedPCs,
       QuietPCs, PromotingPCs
  <2>3. CASE pc[t] = "promoteRaw"
    BY <1>0, <2>1, <2>2, <2>3 DEF Served, Ordered, ThreadInv, StagedOwn,
       StagedPCs, QuietPCs, PromotingPCs, memVars, boxVars
  <2>4. CASE pc[t] = "promoteMeta"
    <3>1. /\ lastGood # NoFile /\ lastGood' = lastGood
          /\ lastGoodMeta' = [ContentSHA256 |-> Hash(job[t].req.Raw), Revision |-> agentState + 1]
          /\ agentState' = agentState /\ revision' = revision
      BY <1>0, <2>2, <2>4 DEF ThreadInv, Promoting, StagedOwn, StagedPCs,
         QuietPCs, PromotingPCs, memVars
    <3>2. lastGoodMeta' \in Meta /\ lastGoodMeta' # NoFile
      BY <1>0, <2>2, <3>1, StoreAssumption DEF Meta, Hashes, TypeOK, StoreTypeOK
    <3> QED
      BY <1>0, <2>1, <2>4, <3>1, <3>2 DEF Served, Ordered, TypeOK, StoreTypeOK
  <2>5. CASE pc[t] = "promoteState"
    BY <1>0, <1>1, <2>1, <2>2, <2>5, StoreAssumption DEF Served, Ordered,
       ThreadInv, Promoting, TypeOK, StoreTypeOK, Meta, memVars, boxVars
  <2> QED
    BY <2>3, <2>4, <2>5
<1> QED
  BY <1>1, <1>2, <1>3, <1>4, <1>5 DEF IInv

\* A failed write discards the new box; the files stay in order.
LEMMA PromoteFailsStep ==
  ASSUME IInv, NEW t \in Threads, PromoteFails(t)
  PROVE  IInv'
<1> USE DEF PromoteFails, Discard, CloseInst, Goto
<1>0. TypeOK /\ Served /\ Ordered /\ ThreadInv(t)
  BY DEF IInv
<1>1. TypeOK'
  <2>1. job' \in [Threads -> Job] /\ pc' \in [Threads -> Labels]
    BY <1>0 DEF TypeOK, Job, States, Labels, Pipeline, storeVars, memVars, boxVars
  <2> QED
    BY <1>0, <2>1, SupervisorAssumption DEF TypeOK, StoreTypeOK, storeVars,
       memVars, boxVars, Job, States
<1>2. Mutex'
  BY MutexStay DEF storeVars, memVars, boxVars, Pipeline
<1>3. \A u \in Threads : u # t => ThreadInv(u)'
  BY <1>0, OthersKept DEF TypeOK, storeVars, memVars, boxVars, Pipeline
<1>4. ThreadInv(t)'
  BY <1>0 DEF TypeOK, storeVars, memVars, boxVars, ThreadInv, Admitted, StagedOwn,
     Quiet, Holder, Promoting, Reported, PromotingPCs, QuietPCs, StagedPCs,
     AdmittedPCs, RestoringPCs, HolderPCs
<1>5. Served' /\ Ordered'
  BY <1>0 DEF Served, Ordered, TypeOK, StoreTypeOK, storeVars, memVars, boxVars,
     ThreadInv, Holder, HolderPCs, PromotingPCs, RestoringPCs
<1> QED
  BY <1>1, <1>2, <1>3, <1>4, <1>5 DEF IInv

\* The promoted box becomes the serving one, with the promoted meta.
LEMMA InstallStep ==
  ASSUME IInv, NEW t \in Threads, Install(t)
  PROVE  IInv'
<1> USE DEF Install, InstallInstance, Goto
<1>0. TypeOK /\ Served /\ Ordered /\ ThreadInv(t)
  BY DEF IInv
<1>1. TypeOK'
  <2>1. lastGood \in Configs
    BY <1>0 DEF ThreadInv, Admitted, Promoting, PromotingPCs, QuietPCs, StagedPCs,
       AdmittedPCs, RestoringPCs, HolderPCs
  <2>2. contentSHA' \in Hashes /\ revision' \in Nat
    BY <1>0, <2>1 DEF ThreadInv, Promoting, Hashes, TypeOK, StoreTypeOK
  <2>3. job' \in [Threads -> Job] /\ inst' \in Insts \cup {NoInst}
    BY <1>0 DEF TypeOK, Job
  <2> QED
    BY <1>0, <2>2, <2>3 DEF TypeOK, StoreTypeOK, storeVars, boxVars, Labels, Pipeline
<1>2. Mutex'
  BY MutexStay DEF storeVars, memVars, boxVars, Pipeline
<1>3. \A u \in Threads : u # t => ThreadInv(u)'
  BY <1>0, OthersKept DEF TypeOK, storeVars, memVars, boxVars, Pipeline
<1>4. ThreadInv(t)'
  BY <1>0 DEF TypeOK, storeVars, memVars, boxVars, ThreadInv, Admitted, StagedOwn,
     Quiet, Holder, Promoting, Reported, PromotingPCs, QuietPCs, StagedPCs,
     AdmittedPCs, RestoringPCs, HolderPCs, Job
<1>5. Served' /\ Ordered'
  BY <1>0 DEF Served, Ordered, TypeOK, StoreTypeOK, storeVars, memVars, boxVars,
     ThreadInv, Holder, HolderPCs, PromotingPCs, RestoringPCs, Promoting
<1> QED
  BY <1>1, <1>2, <1>3, <1>4, <1>5 DEF IInv

\* The goroutine leaves the pipeline and drops the flag.
LEMMA ReleaseStep ==
  ASSUME IInv, NEW t \in Threads, Release(t)
  PROVE  IInv'
<1> USE DEF Release, Goto
<1>0. TypeOK /\ Served /\ Ordered /\ ThreadInv(t)
  BY DEF IInv
<1>1. TypeOK'
  BY <1>0, JobTypes DEF TypeOK, StoreTypeOK, storeVars, boxVars, Labels
<1>2. Mutex'
  BY MutexLeave DEF storeVars, memVars, boxVars, Pipeline
<1>3. \A u \in Threads : u # t => ThreadInv(u)'
  BY <1>0, OthersKept DEF TypeOK, storeVars, memVars, boxVars, Pipeline
<1>4. ThreadInv(t)'
  BY <1>0 DEF TypeOK, storeVars, memVars, boxVars, ThreadInv, Admitted, StagedOwn,
     Quiet, Holder, Promoting, Reported, PromotingPCs, QuietPCs, StagedPCs,
     AdmittedPCs, RestoringPCs, HolderPCs, Pipeline, NoJob, NewJob
<1>5. Served' /\ Ordered'
  BY <1>0 DEF Served, Ordered, TypeOK, StoreTypeOK, storeVars, memVars, boxVars
<1> QED
  BY <1>1, <1>2, <1>3, <1>4, <1>5 DEF IInv

\* restoreLastGood starts the bytes it has read.
LEMMA RestoreStep ==
  ASSUME IInv, NEW t \in Threads, Restore(t)
  PROVE  IInv'
<1> USE DEF Restore, RestoreFails, StartInst, FreeInsts, LastGoodReadable, Goto
<1>0. TypeOK /\ Served /\ Ordered /\ ThreadInv(t)
  BY DEF IInv
<1>1. TypeOK'
  <2>1. \/ job' = [job EXCEPT ![t].goal = "Stopped", ![t].new = NoInst]
        \/ \E i \in Insts : job' = [job EXCEPT ![t].new = i]
        \/ job' = job
    BY DEF boxVars
  <2>2. job' \in [Threads -> Job]
    <3>1. job \in [Threads -> Job]
      BY <1>0 DEF TypeOK
    <3>2. [job EXCEPT ![t].goal = "Stopped", ![t].new = NoInst] \in [Threads -> Job]
      BY <3>1, JobGoalNew DEF States
    <3>3. \A i \in Insts : [job EXCEPT ![t].new = i] \in [Threads -> Job]
      BY <3>1, JobNew
    <3> QED
      BY ONLY <2>1, <3>1, <3>2, <3>3
  <2>3. /\ box' \in [Insts -> {"free", "up", "dead"}]
        /\ cfgOf' \in [Insts -> Configs \cup {NoFile}]
    BY <1>0 DEF TypeOK, StoreTypeOK, boxVars
  <2> QED
    BY <1>0, <2>2, <2>3 DEF TypeOK, StoreTypeOK, storeVars, memVars, Labels, Pipeline
<1>2. Mutex'
  BY MutexStay DEF storeVars, memVars, boxVars, Pipeline
<1>3. \A u \in Threads : u # t => ThreadInv(u)'
  BY <1>0, OthersKept DEF TypeOK, storeVars, memVars, boxVars, Pipeline
<1>4. ThreadInv(t)'
  <2>1. CASE pc' = [pc EXCEPT ![t] = "restoreProbe"]
    <3>1. PICK i \in Insts : /\ box[i] = "free" /\ job' = [job EXCEPT ![t].new = i]
                             /\ box'[i] = "up" /\ cfgOf'[i] = lastGood
      BY <1>0, <2>1 DEF TypeOK
    <3>2. /\ pc'[t] = "restoreProbe" /\ job'[t].new = i /\ i # NoInst
          /\ job'[t].res = job[t].res /\ inst' = inst /\ inst # i
      BY <1>0, <2>1, <3>1, SupervisorAssumption DEF TypeOK, Job, Served, memVars
    <3> QED
      BY <1>0, <2>1, <3>1, <3>2 DEF storeVars, ThreadInv, Admitted, StagedOwn,
         Quiet, Holder, Promoting, Reported, PromotingPCs, QuietPCs, StagedPCs,
         AdmittedPCs, RestoringPCs, HolderPCs
  <2>2. CASE RestoreFails(t)
    <3>1. /\ pc'[t] \in {"restoreFailed", "settle"}
          /\ job'[t].new = NoInst /\ job'[t].res = job[t].res
      BY <1>0, <2>2 DEF TypeOK, Job
    <3> QED
      BY <1>0, <3>1 DEF ThreadInv, Admitted, StagedOwn, Quiet, Holder,
         Promoting, Reported, PromotingPCs, QuietPCs, StagedPCs, AdmittedPCs,
         RestoringPCs, HolderPCs
  <2> QED
    BY <2>1, <2>2
<1>5. Served' /\ Ordered'
  BY <1>0 DEF Served, Ordered, TypeOK, StoreTypeOK, storeVars, memVars, boxVars,
     ThreadInv, Holder, HolderPCs, PromotingPCs, RestoringPCs
<1> QED
  BY <1>1, <1>2, <1>3, <1>4, <1>5 DEF IInv

\* The restored box passes its probe or is closed.
LEMMA RestoreProbeStep ==
  ASSUME IInv, NEW t \in Threads, RestoreProbe(t)
  PROVE  IInv'
<1> USE DEF RestoreProbe, RestoreFails, CloseInst, Goto
<1>0. TypeOK /\ Served /\ Ordered /\ ThreadInv(t)
  BY DEF IInv
<1>1. TypeOK'
  <2>1. \/ job' = [job EXCEPT ![t].goal = "Stopped", ![t].new = NoInst]
        \/ \E i \in Insts : job' = [job EXCEPT ![t].new = i]
        \/ job' = job
    BY DEF boxVars
  <2>2. job' \in [Threads -> Job]
    <3>1. job \in [Threads -> Job]
      BY <1>0 DEF TypeOK
    <3>2. [job EXCEPT ![t].goal = "Stopped", ![t].new = NoInst] \in [Threads -> Job]
      BY <3>1, JobGoalNew DEF States
    <3>3. \A i \in Insts : [job EXCEPT ![t].new = i] \in [Threads -> Job]
      BY <3>1, JobNew
    <3> QED
      BY ONLY <2>1, <3>1, <3>2, <3>3
  <2>3. /\ box' \in [Insts -> {"free", "up", "dead"}]
        /\ cfgOf' \in [Insts -> Configs \cup {NoFile}]
    BY <1>0 DEF TypeOK, StoreTypeOK, boxVars
  <2> QED
    BY <1>0, <2>2, <2>3 DEF TypeOK, StoreTypeOK, storeVars, memVars, Labels, Pipeline
<1>2. Mutex'
  BY MutexStay DEF storeVars, memVars, boxVars, Pipeline
<1>3. \A u \in Threads : u # t => ThreadInv(u)'
  BY <1>0, OthersKept DEF TypeOK, storeVars, memVars, boxVars, Pipeline
<1>4. ThreadInv(t)'
  BY <1>0, SupervisorAssumption DEF TypeOK, storeVars, memVars, boxVars, ThreadInv,
     Admitted, StagedOwn, Quiet, Holder, Promoting, Reported, PromotingPCs,
     QuietPCs, StagedPCs, AdmittedPCs, RestoringPCs, HolderPCs, Job
<1>5. Served' /\ Ordered'
  BY <1>0 DEF Served, Ordered, TypeOK, StoreTypeOK, storeVars, memVars, boxVars,
     ThreadInv, Holder, HolderPCs, PromotingPCs, RestoringPCs
<1> QED
  BY <1>1, <1>2, <1>3, <1>4, <1>5 DEF IInv

\* The restored box becomes the serving one, with the meta on disk.
LEMMA RestoreInstallStep ==
  ASSUME IInv, NEW t \in Threads, RestoreInstall(t)
  PROVE  IInv'
<1> USE DEF RestoreInstall, InstallInstance, Goto
<1>0. TypeOK /\ Served /\ Ordered /\ ThreadInv(t)
  BY DEF IInv
<1>1. TypeOK'
  <2>1. lastGoodMeta \in Meta
    BY <1>0 DEF ThreadInv, Holder, RestoringPCs, TypeOK, StoreTypeOK
  <2>2. contentSHA' \in Hashes /\ revision' \in Nat
    BY <2>1 DEF Meta
  <2>3. job' \in [Threads -> Job] /\ inst' \in Insts \cup {NoInst}
    <3>1. job \in [Threads -> Job] /\ job[t] \in Job
      BY <1>0 DEF TypeOK
    <3>2. [job EXCEPT ![t].goal = "RolledBack", ![t].new = NoInst] \in [Threads -> Job]
      BY <3>1, JobGoalNew DEF States
    <3> QED
      BY <3>1, <3>2 DEF Job
  <2> QED
    BY <1>0, <2>2, <2>3 DEF TypeOK, StoreTypeOK, storeVars, boxVars, Labels, Pipeline
<1>2. Mutex'
  BY MutexStay DEF storeVars, memVars, boxVars, Pipeline
<1>3. \A u \in Threads : u # t => ThreadInv(u)'
  BY <1>0, OthersKept DEF TypeOK, storeVars, memVars, boxVars, Pipeline
<1>4. ThreadInv(t)'
  BY <1>0 DEF TypeOK, storeVars, memVars, boxVars, ThreadInv, Admitted, StagedOwn,
     Quiet, Holder, Promoting, Reported, PromotingPCs, QuietPCs, StagedPCs,
     AdmittedPCs, RestoringPCs, HolderPCs, Job
<1>5. Served' /\ Ordered'
  BY <1>0 DEF Served, Ordered, TypeOK, StoreTypeOK, storeVars, memVars, boxVars,
     ThreadInv, Holder, HolderPCs, PromotingPCs, RestoringPCs
<1> QED
  BY <1>1, <1>2, <1>3, <1>4, <1>5 DEF IInv

\* Apply takes the flag only when nobody has it.
LEMMA ApplyBeginStep ==
  ASSUME IInv, NEW t \in Threads, NEW r \in Requests, ApplyBegin(t, r)
  PROVE  IInv'
<1> USE DEF ApplyBegin, Goto
<1>0. TypeOK /\ Served /\ Ordered /\ ThreadInv(t)
  BY DEF IInv
<1>1. TypeOK'
  <2>1. job' \in [Threads -> Job]
    BY <1>0, JobTypes, SupervisorAssumption DEF TypeOK, States
  <2> QED
    BY <1>0, <2>1 DEF TypeOK, StoreTypeOK, storeVars, boxVars, States, Labels,
       Pipeline
<1>2. Mutex'
  BY MutexEnter DEF storeVars, memVars, boxVars, Pipeline
<1>3. \A u \in Threads : u # t => ThreadInv(u)'
  BY <1>0, OthersOut DEF TypeOK
<1>4. ThreadInv(t)'
  <2>1. /\ pc'[t] \in {"admit", "restore", "stopTake"}
        /\ job'[t].new = NoInst /\ job'[t].res = "fail"
    BY <1>0 DEF TypeOK, NewJob
  <2> QED
    BY <2>1 DEF ThreadInv, Admitted, StagedOwn, Quiet, Holder, Promoting,
       Reported, PromotingPCs, QuietPCs, StagedPCs, AdmittedPCs, RestoringPCs,
       HolderPCs
<1>5. Served' /\ Ordered'
  BY <1>0 DEF Served, Ordered, TypeOK, StoreTypeOK, storeVars, memVars, boxVars
<1> QED
  BY <1>1, <1>2, <1>3, <1>4, <1>5 DEF IInv

\* So does StopBox.
LEMMA StopBoxStep ==
  ASSUME IInv, NEW t \in Threads, StopBox(t)
  PROVE  IInv'
<1> USE DEF StopBox, Goto
<1>0. TypeOK /\ Served /\ Ordered /\ ThreadInv(t)
  BY DEF IInv
<1>1. TypeOK'
  <2>1. job' \in [Threads -> Job]
    BY <1>0, JobTypes, SupervisorAssumption DEF TypeOK, States
  <2> QED
    BY <1>0, <2>1 DEF TypeOK, StoreTypeOK, storeVars, boxVars, States, Labels,
       Pipeline
<1>2. Mutex'
  BY MutexEnter DEF storeVars, memVars, boxVars, Pipeline
<1>3. \A u \in Threads : u # t => ThreadInv(u)'
  BY <1>0, OthersOut DEF TypeOK
<1>4. ThreadInv(t)'
  <2>1. /\ pc'[t] \in {"admit", "restore", "stopTake"}
        /\ job'[t].new = NoInst /\ job'[t].res = "fail"
    BY <1>0 DEF TypeOK, NewJob
  <2> QED
    BY <2>1 DEF ThreadInv, Admitted, StagedOwn, Quiet, Holder, Promoting,
       Reported, PromotingPCs, QuietPCs, StagedPCs, AdmittedPCs, RestoringPCs,
       HolderPCs
<1>5. Served' /\ Ordered'
  BY <1>0 DEF Served, Ordered, TypeOK, StoreTypeOK, storeVars, memVars, boxVars
<1> QED
  BY <1>1, <1>2, <1>3, <1>4, <1>5 DEF IInv

\* So does BootLastGood, from app.Run and from StartBox.
LEMMA BeginBootStep ==
  ASSUME IInv, NEW t \in Threads, BeginBoot(t), ctxDone' \in [Threads -> BOOLEAN]
  PROVE  IInv'
<1> USE DEF BeginBoot, Goto
<1>0. TypeOK /\ Served /\ Ordered /\ ThreadInv(t)
  BY DEF IInv
<1>1. TypeOK'
  <2>1. job' \in [Threads -> Job]
    BY <1>0, JobTypes, SupervisorAssumption DEF TypeOK, States
  <2> QED
    BY <1>0, <2>1 DEF TypeOK, StoreTypeOK, storeVars, boxVars, States, Labels,
       Pipeline
<1>2. Mutex'
  BY MutexEnter DEF storeVars, memVars, boxVars, Pipeline
<1>3. \A u \in Threads : u # t => ThreadInv(u)'
  BY <1>0, OthersOut DEF TypeOK
<1>4. ThreadInv(t)'
  <2>1. /\ pc'[t] \in {"admit", "restore", "stopTake"}
        /\ job'[t].new = NoInst /\ job'[t].res = "fail"
    BY <1>0 DEF TypeOK, NewJob
  <2> QED
    BY <2>1 DEF ThreadInv, Admitted, StagedOwn, Quiet, Holder, Promoting,
       Reported, PromotingPCs, QuietPCs, StagedPCs, AdmittedPCs, RestoringPCs,
       HolderPCs
<1>5. Served' /\ Ordered'
  BY <1>0 DEF Served, Ordered, TypeOK, StoreTypeOK, storeVars, memVars, boxVars
<1> QED
  BY <1>1, <1>2, <1>3, <1>4, <1>5 DEF IInv

\* So does the restart loop after its sleep.
LEMMA RestartAcquireStep ==
  ASSUME IInv, NEW t \in Threads, RestartAcquire(t), ~(shutdown \/ applying)
  PROVE  IInv'
<1> USE DEF RestartAcquire, Goto
<1>0. TypeOK /\ Served /\ Ordered /\ ThreadInv(t)
  BY DEF IInv
<1>1. TypeOK'
  <2>1. job' \in [Threads -> Job]
    BY <1>0, JobTypes, SupervisorAssumption DEF TypeOK, States
  <2> QED
    BY <1>0, <2>1 DEF TypeOK, StoreTypeOK, storeVars, boxVars, States, Labels,
       Pipeline
<1>2. Mutex'
  BY MutexEnter DEF storeVars, memVars, boxVars, Pipeline
<1>3. \A u \in Threads : u # t => ThreadInv(u)'
  BY <1>0, OthersOut DEF TypeOK
<1>4. ThreadInv(t)'
  <2>1. /\ pc'[t] \in {"admit", "restore", "stopTake"}
        /\ job'[t].new = NoInst /\ job'[t].res = "fail"
    BY <1>0 DEF TypeOK, NewJob
  <2> QED
    BY <2>1 DEF ThreadInv, Admitted, StagedOwn, Quiet, Holder, Promoting,
       Reported, PromotingPCs, QuietPCs, StagedPCs, AdmittedPCs, RestoringPCs,
       HolderPCs
<1>5. Served' /\ Ordered'
  BY <1>0 DEF Served, Ordered, TypeOK, StoreTypeOK, storeVars, memVars, boxVars
<1> QED
  BY <1>1, <1>2, <1>3, <1>4, <1>5 DEF IInv

\* The loop drops the flag at the end of a round; its backoff is capped.
LEMMA RestartDoneStep ==
  ASSUME IInv, NEW t \in Threads, RestartDone(t)
  PROVE  IInv'
<1> USE DEF RestartDone, Goto
<1>0. TypeOK /\ Served /\ Ordered /\ ThreadInv(t)
  BY DEF IInv
<1>1. TypeOK'
  <2>1. backoff' \in 1..MaxBackoff
    BY <1>0, SupervisorAssumption DEF TypeOK
  <2> QED
    BY <1>0, <2>1, JobTypes DEF TypeOK, StoreTypeOK, storeVars, boxVars, Labels,
       States
<1>2. Mutex'
  BY MutexLeave DEF storeVars, memVars, boxVars, Pipeline
<1>3. \A u \in Threads : u # t => ThreadInv(u)'
  BY <1>0, OthersKept DEF TypeOK, storeVars, memVars, boxVars, Pipeline
<1>4. ThreadInv(t)'
  BY <1>0 DEF TypeOK, storeVars, memVars, boxVars, ThreadInv, Admitted, StagedOwn,
     Quiet, Holder, Promoting, Reported, PromotingPCs, QuietPCs, StagedPCs,
     AdmittedPCs, RestoringPCs, HolderPCs, Pipeline, NoJob, NewJob
<1>5. Served' /\ Ordered'
  BY <1>0 DEF Served, Ordered, TypeOK, StoreTypeOK, storeVars, memVars, boxVars
<1> QED
  BY <1>1, <1>2, <1>3, <1>4, <1>5 DEF IInv

\* The loop looks at the flag before it sleeps.
LEMMA RestartCheckStep ==
  ASSUME IInv, NEW l \in Loops, RestartCheck(l)
  PROVE  IInv'
<1> USE DEF RestartCheck, Goto
<1>0. TypeOK /\ Served /\ Ordered /\ \A u \in Threads : ThreadInv(u)
  BY DEF IInv
<1>1. TypeOK'
  BY <1>0 DEF TypeOK, StoreTypeOK, storeVars, memVars, boxVars, Labels, Pipeline,
     States, Threads
<1>2. Mutex'
  BY MutexAside DEF storeVars, memVars, boxVars, Pipeline, Threads
<1>3. \A u \in Threads : ThreadInv(u)'
  <2> TAKE u \in Threads
  <2>1. CASE u = l
    BY <1>0, <2>1, Outside DEF TypeOK, storeVars, memVars, boxVars, Pipeline,
       ThreadInv, Admitted, StagedOwn, Quiet, Holder, Promoting, Reported,
       PromotingPCs, QuietPCs, StagedPCs, AdmittedPCs, RestoringPCs, HolderPCs
  <2>2. CASE u # l
    BY <1>0, <2>2, ThreadKept DEF TypeOK, storeVars, memVars, boxVars
  <2> QED
    BY <2>1, <2>2
<1>4. Served' /\ Ordered'
  BY <1>0 DEF Served, Ordered, TypeOK, StoreTypeOK, storeVars, memVars, boxVars
<1> QED
  BY <1>1, <1>2, <1>3, <1>4 DEF IInv

\* The loop gives up when somebody has the flag.
LEMMA RestartQuitStep ==
  ASSUME IInv, NEW l \in Loops, RestartAcquire(l), shutdown \/ applying
  PROVE  IInv'
<1> USE DEF RestartAcquire, Goto
<1>0. TypeOK /\ Served /\ Ordered /\ \A u \in Threads : ThreadInv(u)
  BY DEF IInv
<1>1. TypeOK'
  BY <1>0 DEF TypeOK, StoreTypeOK, storeVars, memVars, boxVars, Labels, Pipeline,
     States, Threads
<1>2. Mutex'
  BY MutexAside DEF storeVars, memVars, boxVars, Pipeline, Threads
<1>3. \A u \in Threads : ThreadInv(u)'
  <2> TAKE u \in Threads
  <2>1. CASE u = l
    BY <1>0, <2>1, Outside DEF TypeOK, storeVars, memVars, boxVars, Pipeline,
       ThreadInv, Admitted, StagedOwn, Quiet, Holder, Promoting, Reported,
       PromotingPCs, QuietPCs, StagedPCs, AdmittedPCs, RestoringPCs, HolderPCs
  <2>2. CASE u # l
    BY <1>0, <2>2, ThreadKept DEF TypeOK, storeVars, memVars, boxVars
  <2> QED
    BY <2>1, <2>2
<1>4. Served' /\ Ordered'
  BY <1>0 DEF Served, Ordered, TypeOK, StoreTypeOK, storeVars, memVars, boxVars
<1> QED
  BY <1>1, <1>2, <1>3, <1>4 DEF IInv

\* Without last-good there is nothing to boot.
LEMMA BootSkipStep ==
  ASSUME IInv, pc[Main] = "boot", Goto(Main, "idle"),
         UNCHANGED <<storeVars, memVars, boxVars, job, crashes, ctxDone>>
  PROVE  IInv'
<1> USE DEF Goto
<1>0. TypeOK /\ Served /\ Ordered /\ \A u \in Threads : ThreadInv(u)
  BY DEF IInv
<1>1. TypeOK'
  BY <1>0 DEF TypeOK, StoreTypeOK, storeVars, memVars, boxVars, Labels, Pipeline,
     States, Threads
<1>2. Mutex'
  BY MutexAside DEF storeVars, memVars, boxVars, Pipeline, Threads
<1>3. \A u \in Threads : ThreadInv(u)'
  <2> TAKE u \in Threads
  <2>1. CASE u = Main
    BY <1>0, <2>1, Outside DEF TypeOK, storeVars, memVars, boxVars, Pipeline,
       ThreadInv, Admitted, StagedOwn, Quiet, Holder, Promoting, Reported,
       PromotingPCs, QuietPCs, StagedPCs, AdmittedPCs, RestoringPCs, HolderPCs
  <2>2. CASE u # Main
    BY <1>0, <2>2, ThreadKept DEF TypeOK, storeVars, memVars, boxVars
  <2> QED
    BY <2>1, <2>2
<1>4. Served' /\ Ordered'
  BY <1>0 DEF Served, Ordered, TypeOK, StoreTypeOK, storeVars, memVars, boxVars
<1> QED
  BY <1>1, <1>2, <1>3, <1>4 DEF IInv

\* Shutdown raises its flag beside whatever the pipeline does.
LEMMA ShutdownBeginStep ==
  ASSUME IInv, ShutdownBegin
  PROVE  IInv'
<1> USE DEF ShutdownBegin, Goto
<1>0. TypeOK /\ Served /\ Ordered /\ \A u \in Threads : ThreadInv(u)
  BY DEF IInv
<1>1. TypeOK'
  BY <1>0 DEF TypeOK, StoreTypeOK, storeVars, memVars, boxVars, Labels, Pipeline,
     States, Threads
<1>2. Mutex'
  BY MutexAside DEF storeVars, memVars, boxVars, Pipeline, Threads
<1>3. \A u \in Threads : ThreadInv(u)'
  <2> TAKE u \in Threads
  <2>1. CASE u = Main
    BY <1>0, <2>1, Outside DEF TypeOK, storeVars, memVars, boxVars, Pipeline,
       ThreadInv, Admitted, StagedOwn, Quiet, Holder, Promoting, Reported,
       PromotingPCs, QuietPCs, StagedPCs, AdmittedPCs, RestoringPCs, HolderPCs
  <2>2. CASE u # Main
    BY <1>0, <2>2, ThreadKept DEF TypeOK, storeVars, memVars, boxVars
  <2> QED
    BY <2>1, <2>2
<1>4. Served' /\ Ordered'
  BY <1>0 DEF Served, Ordered, TypeOK, StoreTypeOK, storeVars, memVars, boxVars
<1> QED
  BY <1>1, <1>2, <1>3, <1>4 DEF IInv

\* Shutdown reports Stopped.
LEMMA ShutdownSettleStep ==
  ASSUME IInv, ShutdownSettle
  PROVE  IInv'
<1> USE DEF ShutdownSettle, Goto
<1>0. TypeOK /\ Served /\ Ordered /\ \A u \in Threads : ThreadInv(u)
  BY DEF IInv
<1>1. TypeOK'
  BY <1>0 DEF TypeOK, StoreTypeOK, storeVars, memVars, boxVars, Labels, Pipeline,
     States, Threads
<1>2. Mutex'
  BY MutexAside DEF storeVars, memVars, boxVars, Pipeline, Threads
<1>3. \A u \in Threads : ThreadInv(u)'
  <2> TAKE u \in Threads
  <2>1. CASE u = Main
    BY <1>0, <2>1, Outside DEF TypeOK, storeVars, memVars, boxVars, Pipeline,
       ThreadInv, Admitted, StagedOwn, Quiet, Holder, Promoting, Reported,
       PromotingPCs, QuietPCs, StagedPCs, AdmittedPCs, RestoringPCs, HolderPCs
  <2>2. CASE u # Main
    BY <1>0, <2>2, ThreadKept DEF TypeOK, storeVars, memVars, boxVars
  <2> QED
    BY <2>1, <2>2
<1>4. Served' /\ Ordered'
  BY <1>0 DEF Served, Ordered, TypeOK, StoreTypeOK, storeVars, memVars, boxVars
<1> QED
  BY <1>1, <1>2, <1>3, <1>4 DEF IInv

\* A dead serving box is dropped; nobody's new instance is the serving one.
LEMMA WatchDoneStep ==
  ASSUME IInv, NEW l \in Loops, NEW i \in Insts, WatchDone(l, i)
  PROVE  IInv'
<1> USE DEF WatchDone, CloseInst, Goto
<1>0. TypeOK /\ Served /\ Ordered /\ \A u \in Threads : ThreadInv(u)
  BY DEF IInv
<1>1. TypeOK'
  BY <1>0 DEF TypeOK, StoreTypeOK, storeVars, memVars, boxVars, Labels, Pipeline,
     States, Threads
<1>2. Mutex'
  BY MutexAside DEF storeVars, memVars, boxVars, Pipeline, Threads
<1>3. \A u \in Threads : ThreadInv(u)'
  <2> TAKE u \in Threads
  <2>1. job[u].new # NoInst => /\ job[u].new # i
                              /\ job[u].new \in Insts
    BY <1>0 DEF ThreadInv, Holder, TypeOK, Job
  <2>2. job[u].new # NoInst => /\ box'[job[u].new] = box[job[u].new]
                              /\ cfgOf'[job[u].new] = cfgOf[job[u].new]
    BY <2>1
  <2>3. CASE u = l
    BY <1>0, <2>3, Outside DEF TypeOK, storeVars, memVars, boxVars, Pipeline,
       ThreadInv, Admitted, StagedOwn, Quiet, Holder, Promoting, Reported,
       PromotingPCs, QuietPCs, StagedPCs, AdmittedPCs, RestoringPCs, HolderPCs
  <2>4. CASE u # l
    <3>1. pc'[u] = pc[u] /\ job'[u] = job[u]
      BY <1>0, <2>4 DEF TypeOK
    <3> QED
      BY <1>0, <2>2, <3>1, ThreadKept DEF storeVars, memVars, boxVars
  <2> QED
    BY <2>3, <2>4
<1>4. Served' /\ Ordered'
  BY <1>0 DEF Served, Ordered, TypeOK, StoreTypeOK, storeVars, memVars, boxVars
<1> QED
  BY <1>1, <1>2, <1>3, <1>4 DEF IInv

\* Shutdown closes the serving box, never one that is being tried.
LEMMA ShutdownTakeStep ==
  ASSUME IInv, ShutdownTake
  PROVE  IInv'
<1> USE DEF ShutdownTake, TakeInstance, CloseInst, Goto
<1>0. TypeOK /\ Served /\ Ordered /\ \A u \in Threads : ThreadInv(u)
  BY DEF IInv
<1>1. TypeOK'
  BY <1>0 DEF TypeOK, StoreTypeOK, storeVars, memVars, boxVars, Labels, Pipeline,
     States, Threads
<1>2. Mutex'
  BY MutexAside DEF storeVars, memVars, boxVars, Pipeline, Threads
<1>3. \A u \in Threads : ThreadInv(u)'
  <2> TAKE u \in Threads
  <2>1. job[u].new # NoInst => /\ job[u].new # inst
                              /\ job[u].new \in Insts
    BY <1>0 DEF ThreadInv, Holder, TypeOK, Job
  <2>2. job[u].new # NoInst => /\ box'[job[u].new] = box[job[u].new]
                              /\ cfgOf'[job[u].new] = cfgOf[job[u].new]
    BY <2>1
  <2>3. CASE u = Main
    BY <1>0, <2>3, Outside DEF TypeOK, storeVars, memVars, boxVars, Pipeline,
       ThreadInv, Admitted, StagedOwn, Quiet, Holder, Promoting, Reported,
       PromotingPCs, QuietPCs, StagedPCs, AdmittedPCs, RestoringPCs, HolderPCs
  <2>4. CASE u # Main
    <3>1. pc'[u] = pc[u] /\ job'[u] = job[u]
      BY <1>0, <2>4 DEF TypeOK
    <3> QED
      BY <1>0, <2>2, <3>1, ThreadKept DEF storeVars, memVars, boxVars
  <2> QED
    BY <2>3, <2>4
<1>4. Served' /\ Ordered'
  BY <1>0 DEF Served, Ordered, TypeOK, StoreTypeOK, storeVars, memVars, boxVars
<1> QED
  BY <1>1, <1>2, <1>3, <1>4 DEF IInv

\* The watcher of a replaced box returns.
LEMMA WatchReturnStep ==
  ASSUME IInv, NEW i \in Insts, WatchReturn(i)
  PROVE  IInv'
<1> USE DEF WatchReturn, CloseInst
<1>0. TypeOK /\ Served /\ Ordered /\ \A u \in Threads : ThreadInv(u)
  BY DEF IInv
<1>1. TypeOK'
  BY <1>0 DEF TypeOK, StoreTypeOK, storeVars, memVars, boxVars, Labels, Pipeline,
     States, Threads
<1>2. Mutex'
  BY DEF IInv, Mutex, memVars
<1>3. \A u \in Threads : ThreadInv(u)'
  <2> TAKE u \in Threads
  <2>1. job[u].new # NoInst => job[u].new \in Insts
    BY <1>0 DEF TypeOK, Job
  <2>2. job[u].new # NoInst =>
          /\ box[job[u].new] # "free" => box'[job[u].new] # "free"
          /\ cfgOf'[job[u].new] = cfgOf[job[u].new]
    BY <1>0, <2>1 DEF TypeOK, boxVars
  <2> QED
    BY <1>0, <2>2, ThreadKept DEF storeVars, memVars, boxVars
<1>4. Served' /\ Ordered'
  BY <1>0 DEF Served, Ordered, TypeOK, StoreTypeOK, storeVars, memVars, boxVars
<1> QED
  BY <1>1, <1>2, <1>3, <1>4 DEF IInv

\* A box that dies keeps its identity until it is closed.
LEMMA DieStep ==
  ASSUME IInv, NEW i \in Insts, Die(i)
  PROVE  IInv'
<1> USE DEF Die, Up
<1>0. TypeOK /\ Served /\ Ordered /\ \A u \in Threads : ThreadInv(u)
  BY DEF IInv
<1>1. TypeOK'
  BY <1>0 DEF TypeOK, StoreTypeOK, storeVars, memVars, boxVars, Labels, Pipeline,
     States, Threads
<1>2. Mutex'
  BY DEF IInv, Mutex, memVars
<1>3. \A u \in Threads : ThreadInv(u)'
  <2> TAKE u \in Threads
  <2>1. job[u].new # NoInst => job[u].new \in Insts
    BY <1>0 DEF TypeOK, Job
  <2>2. job[u].new # NoInst =>
          /\ box[job[u].new] # "free" => box'[job[u].new] # "free"
          /\ cfgOf'[job[u].new] = cfgOf[job[u].new]
    BY <1>0, <2>1 DEF TypeOK, boxVars
  <2> QED
    BY <1>0, <2>2, ThreadKept DEF storeVars, memVars, boxVars
<1>4. Served' /\ Ordered'
  BY <1>0 DEF Served, Ordered, TypeOK, StoreTypeOK, storeVars, memVars, boxVars
<1> QED
  BY <1>1, <1>2, <1>3, <1>4 DEF IInv

\* A context is cancelled; nothing else changes.
LEMMA CancelStep ==
  ASSUME IInv, ctxDone' \in [Threads -> BOOLEAN],
         UNCHANGED <<storeVars, memVars, boxVars, pc, job, crashes>>
  PROVE  IInv'
<1> USE DEF memVars
<1>0. TypeOK /\ Served /\ Ordered /\ \A u \in Threads : ThreadInv(u)
  BY DEF IInv
<1>1. TypeOK'
  BY <1>0 DEF TypeOK, StoreTypeOK, storeVars, memVars, boxVars, Labels, Pipeline,
     States, Threads
<1>2. Mutex'
  BY DEF IInv, Mutex, memVars
<1>3. \A u \in Threads : ThreadInv(u)'
  <2> TAKE u \in Threads
  <2>1. job[u].new # NoInst => job[u].new \in Insts
    BY <1>0 DEF TypeOK, Job
  <2>2. job[u].new # NoInst =>
          /\ box[job[u].new] # "free" => box'[job[u].new] # "free"
          /\ cfgOf'[job[u].new] = cfgOf[job[u].new]
    BY <1>0, <2>1 DEF TypeOK, boxVars
  <2> QED
    BY <1>0, <2>2, ThreadKept DEF storeVars, memVars, boxVars
<1>4. Served' /\ Ordered'
  BY <1>0 DEF Served, Ordered, TypeOK, StoreTypeOK, storeVars, memVars, boxVars
<1> QED
  BY <1>1, <1>2, <1>3, <1>4 DEF IInv

\* A restart finds files in order, and memory rebuilt from them.
LEMMA CrashStep ==
  ASSUME IInv, Crash
  PROVE  IInv'
<1> USE DEF Crash
<1>0. TypeOK /\ Served /\ Ordered
  BY DEF IInv
<1>1. TypeOK'
  <2>1. LastGoodReadable => lastGoodMeta \in Meta
    BY <1>0 DEF LastGoodReadable, TypeOK, StoreTypeOK
  <2>2. contentSHA' \in Hashes \cup {NoFile} /\ revision' \in Nat
    BY <1>0, <2>1 DEF BootRevision, Meta, TypeOK, StoreTypeOK
  <2>3. /\ pc' \in [Threads -> Labels] /\ job' \in [Threads -> Job]
        /\ ctxDone' \in [Threads -> BOOLEAN]
    BY JobTypes DEF Labels
  <2>4. /\ box' \in [Insts -> {"free", "up", "dead"}]
        /\ cfgOf' \in [Insts -> Configs \cup {NoFile}]
    OBVIOUS
  <2>5. backoff' \in 1..MaxBackoff /\ crashes' \in Nat
    BY <1>0, SupervisorAssumption DEF TypeOK
  <2> QED
    BY <1>0, <2>2, <2>3, <2>4, <2>5 DEF TypeOK, StoreTypeOK, storeVars, States
<1>2. Mutex'
  BY DEF Mutex, Pipeline
<1>3. \A u \in Threads : ThreadInv(u)'
  BY Outside DEF Pipeline, NoJob, NewJob
<1>4. Served' /\ Ordered'
  BY <1>0, <1>1 DEF Served, Ordered, BootRevision, LastGoodReadable, storeVars,
     TypeOK, StoreTypeOK, Meta
<1> QED
  BY <1>1, <1>2, <1>3, <1>4 DEF IInv

\* A fresh process on an empty data_dir satisfies the invariant.
LEMMA InitInv == Init => IInv
<1> SUFFICES ASSUME Init PROVE IInv
  OBVIOUS
<1> USE DEF Init, StoreInit
<1>1. TypeOK
  <2>1. pc \in [Threads -> Labels] /\ job \in [Threads -> Job]
    BY JobTypes DEF Labels
  <2>2. backoff \in 1..MaxBackoff
    BY SupervisorAssumption
  <2> QED
    BY <2>1, <2>2 DEF TypeOK, StoreTypeOK, States
<1>2. Mutex
  BY DEF Mutex, Pipeline
<1>3. Served /\ Ordered
  BY DEF Served, Ordered
<1>4. \A t \in Threads : ThreadInv(t)
  BY DEF ThreadInv, Admitted, StagedOwn, Quiet, Holder, Promoting, Reported, NoJob,
     NewJob, PromotingPCs, QuietPCs, StagedPCs, AdmittedPCs, RestoringPCs, HolderPCs
<1> QED
  BY <1>1, <1>2, <1>3, <1>4 DEF IInv

\* Every step of every goroutine, of the engine and of the environment keeps it.
LEMMA StepInv == IInv /\ [Next]_vars => IInv'
<1> SUFFICES ASSUME IInv, [Next]_vars PROVE IInv'
  OBVIOUS
<1>1. CASE \E t \in Threads : Step(t)
  BY <1>1, AdmitStep, StageStep, StageFailsStep, TakeStep, StartStep, ProbeStep,
     PromoteStep, PromoteFailsStep, InstallStep, SetRunningStep, SettleStep,
     ReleaseStep, RestoreStep, RestoreProbeStep, RestoreInstallStep DEF Step
<1>2. CASE \E l \in Loops : RestartStep(l)
  BY <1>2, RestartCheckStep, RestartAcquireStep, RestartQuitStep, RestartDoneStep
     DEF RestartStep, Threads
<1>3. CASE MainStep
  <2>1. TypeOK /\ Main \in Threads
    BY DEF IInv, Threads
  <2>2. CASE Boot
    BY <2>1, <2>2, BeginBootStep, BootSkipStep DEF Boot, TypeOK
  <2> QED
    BY <1>3, <2>2, ShutdownBeginStep, ShutdownTakeStep, ShutdownSettleStep DEF
       MainStep
<1>4. CASE Watch
  BY <1>4, WatchDoneStep, WatchReturnStep DEF Watch
<1>5. CASE \E t \in Callers : Call(t)
  <2>1. PICK t \in Callers : Call(t)
    BY <1>5
  <2>2. t \in Threads /\ [ctxDone EXCEPT ![t] = FALSE] \in [Threads -> BOOLEAN]
    BY DEF IInv, TypeOK, Threads
  <2> QED
    BY <2>1, <2>2, ApplyBeginStep, BeginBootStep, StopBoxStep DEF Call, StartBox
<1>6. CASE Environment
  <2>1. CASE \E t \in Threads : /\ ctxDone' = [ctxDone EXCEPT ![t] = TRUE]
                                /\ UNCHANGED <<storeVars, memVars, boxVars, pc, job, crashes>>
    <3>1. ctxDone' \in [Threads -> BOOLEAN]
      BY <2>1 DEF IInv, TypeOK
    <3> QED
      BY <2>1, <3>1, CancelStep
  <2> QED
    BY <1>6, <2>1, CrashStep, DieStep DEF Environment, Signal, Cancel, Threads
<1>7. CASE UNCHANGED vars
  <2>1. ctxDone' \in [Threads -> BOOLEAN]
    BY <1>7 DEF IInv, TypeOK, vars
  <2> QED
    BY <1>7, <2>1, CancelStep DEF vars
<1> QED
  BY <1>1, <1>2, <1>3, <1>4, <1>5, <1>6, <1>7 DEF Next

\* IInv is an invariant of the supervisor.
THEOREM Invariance == Spec => []IInv
BY InitInv, StepInv, PTL DEF Spec


\* Status, the files, the boxes and the goroutines keep their types.
THEOREM TypeCorrect == Spec => []TypeOK
BY Invariance, PTL DEF IInv

\* The applying flag of the supervisor is a lock.
THEOREM MutualExclusion == Spec => []Mutex
BY Invariance, PTL DEF IInv

\* The serving box always runs the bytes of last-good.json.
THEOREM ServesLastGood == Spec => []RunningIsLastGood
<1>1. IInv => RunningIsLastGood
  BY DEF IInv, Served, RunningIsLastGood
<1> QED
  BY <1>1, Invariance, PTL

\* A successful Apply has promoted its own bytes.
THEOREM SuccessIsDurable == Spec => []OkMeansPromoted
<1>1. IInv => OkMeansPromoted
  BY DEF IInv, ThreadInv, Reported, OkMeansPromoted
<1> QED
  BY <1>1, Invariance, PTL


\* Which steps touch the revision in memory, and which the last-good bytes.
LEMMA Frame ==
  ASSUME Next
  PROVE  /\ \/ revision' = revision \/ Crash
            \/ \E t \in Threads : Install(t) \/ RestoreInstall(t)
         /\ \/ lastGood' = lastGood
            \/ \E t \in Threads : pc[t] = "promoteRaw" /\ Promote(t)
<1>1. CASE \E t \in Threads : Step(t)
  <2>1. PICK t \in Threads : Step(t)
    BY <1>1
  <2>2. CASE Install(t) \/ RestoreInstall(t) \/ Promote(t)
    BY <2>2 DEF Install, RestoreInstall, Promote, PromoteMeta, PromoteState,
       storeVars, memVars
  <2>3. CASE Stage(t)
    BY <2>3 DEF Stage, WriteStagedRaw, WriteStagedMeta, memVars
  <2>4. CASE ~(Install(t) \/ RestoreInstall(t) \/ Promote(t) \/ Stage(t))
    BY <2>1, <2>4 DEF Step, Admit, StageFails, Take, Start, Probe, PromoteFails,
       SetRunning, Settle, Release, Restore, RestoreProbe, storeVars, memVars
  <2> QED
    BY <2>2, <2>3, <2>4
<1>2. CASE (\E l \in Loops : RestartStep(l)) \/ MainStep \/ Watch
  BY <1>2 DEF RestartStep, RestartCheck, RestartAcquire, RestartDone, MainStep,
     Boot, BeginBoot, ShutdownBegin, ShutdownTake, ShutdownSettle, Watch, WatchDone,
     WatchReturn, storeVars, memVars
<1>3. CASE \E t \in Callers : Call(t)
  BY <1>3 DEF Call, ApplyBegin, StartBox, StopBox, BeginBoot, storeVars, memVars
<1>4. CASE Environment
  BY <1>4 DEF Environment, Signal, Cancel, Die, Crash, storeVars, memVars
<1> QED
  BY <1>1, <1>2, <1>3, <1>4 DEF Next

\* The revision never goes back, restarts and torn promotes included.
THEOREM RevisionNeverBack == Spec => RevisionMonotone
<1>1. IInv /\ [Next]_vars => [revision' >= revision]_vars
  <2> SUFFICES ASSUME IInv, Next PROVE revision' >= revision
    BY DEF vars
  <2>0. TypeOK /\ Ordered /\ \A t \in Threads : ThreadInv(t)
    BY DEF IInv
  <2>1. CASE revision' = revision
    BY <2>0, <2>1 DEF TypeOK
  <2>2. CASE Crash
    BY <2>0, <2>2, StoreAssumption DEF Crash, BootRevision, LastGoodReadable,
       Ordered, TypeOK, StoreTypeOK
  <2>3. ASSUME NEW t \in Threads, Install(t) PROVE revision' >= revision
    <3>1. lastGoodMeta.Revision = agentState /\ lastGood \in Configs
      BY <2>0, <2>3 DEF Install, ThreadInv, Promoting, Admitted, AdmittedPCs,
         StagedPCs, QuietPCs, PromotingPCs
    <3>2. lastGoodMeta # NoFile => revision <= lastGoodMeta.Revision
      BY <2>0 DEF Ordered
    <3>3. lastGoodMeta = NoFile => revision <= agentState
      BY <2>0 DEF Ordered
    <3>4. revision' = agentState
      BY <2>3, <3>1 DEF Install, InstallInstance
    <3> QED
      BY <2>0, <3>1, <3>2, <3>3, <3>4 DEF TypeOK, StoreTypeOK
  <2>4. ASSUME NEW t \in Threads, RestoreInstall(t) PROVE revision' >= revision
    <3>1. lastGoodMeta # NoFile
      BY <2>0, <2>4 DEF RestoreInstall, ThreadInv, Holder, RestoringPCs
    <3>2. revision' = lastGoodMeta.Revision /\ lastGoodMeta \in Meta
      BY <2>0, <2>4, <3>1 DEF RestoreInstall, InstallInstance, TypeOK, StoreTypeOK
    <3> QED
      BY <2>0, <3>1, <3>2 DEF Ordered, TypeOK, Meta
  <2> QED
    BY <2>1, <2>2, <2>3, <2>4, Frame
<1> QED
  BY <1>1, Invariance, PTL DEF Spec, RevisionMonotone

\* Only a configuration whose box has started becomes last-good.
THEOREM OnlyStartedPromoted == Spec => PromotedWasStarted
<1> DEFINE Started ==
       lastGood' # lastGood =>
         \E t \in Threads : /\ job[t].new # NoInst
                            /\ cfgOf[job[t].new] = lastGood'
                            /\ job[t].req.Raw = lastGood'
<1>1. IInv /\ [Next]_vars => [Started]_vars
  <2> SUFFICES ASSUME IInv, Next, lastGood' # lastGood PROVE Started
    BY DEF vars
  <2>1. PICK t \in Threads : pc[t] = "promoteRaw" /\ Promote(t)
    BY Frame
  <2>2. lastGood' = job[t].req.Raw
    BY <2>1 DEF Promote, PromoteRaw, IInv, ThreadInv, StagedOwn, StagedPCs,
       QuietPCs, PromotingPCs
  <2>3. job[t].new # NoInst /\ cfgOf[job[t].new] = job[t].req.Raw
    BY <2>1 DEF IInv, ThreadInv, Holder, HolderPCs, PromotingPCs
  <2> QED
    BY <2>2, <2>3
<1> HIDE DEF Started
<1>2. Spec => [][Started]_vars
  BY <1>1, Invariance, PTL DEF Spec
<1> QED
  BY <1>2 DEF Started, PromotedWasStarted

\* No promotion slips between an If-Match check and the promotion it guards.
THEOREM ConditionalApply == Spec => IfMatchHonoured
<1> DEFINE Honoured == \A t \in Threads :
                         /\ pc[t] = "install" /\ pc'[t] = "running"
                         /\ job[t].req.MatchMode = "rev"
                         => revision = job[t].req.MatchRev
<1>1. IInv => Honoured
  BY DEF IInv, ThreadInv, Admitted, AdmittedPCs, StagedPCs, QuietPCs, PromotingPCs
<1> HIDE DEF Honoured
<1>2. IInv /\ [Next]_vars => [Honoured]_vars
  BY <1>1
<1>3. Spec => [][Honoured]_vars
  BY <1>2, Invariance, PTL DEF Spec
<1> QED
  BY <1>3 DEF Honoured, IfMatchHonoured

=============================================================================
