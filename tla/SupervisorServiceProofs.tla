---------------------- MODULE SupervisorServiceProofs ----------------------
(***************************************************************************)
(* That the dataplane is there when the supervisor says or implies so, for *)
(* every value of the constants: no live box is out of reach (NoOrphan),   *)
(* Running and RolledBack are true (StateHonest), every operation ends     *)
(* with a box that serves (LastGoodServes), and Supervisor implements      *)
(* LastGood.  The first three hold under a condition on the constants,     *)
(* named below, that their runs satisfy too; IInv is the invariant of      *)
(* SupervisorInv.                                                          *)
(***************************************************************************)
EXTENDS SupervisorRefinement, SupervisorProofs

\* Every configuration opens a port.  (Of one that opens none a second box can start beside
\* the first, and StartBox then overwrites s.inst.)
Listening == \A c \in Configs : Binds[c] # {}

\* restoreLastGood has started a box: the old one is closed, or dead.
RestoreAlone == \A t \in Threads : pc[t] \in RestoringPCs => inst = NoInst \/ ~Up(inst)

OInv == NoOrphan /\ RestoreAlone

\* A step that starts and closes no box and leaves s.inst alone.
LEMMA OrphanKept ==
  ASSUME OInv, UNCHANGED <<box, inst>>,
         \A t \in Threads : job[t].new # NoInst => job'[t].new = job[t].new,
         \A t \in Threads : pc'[t] \in RestoringPCs => pc[t] \in RestoringPCs,
         NoInst \notin Insts
  PROVE  OInv'
<1>1. NoOrphan'
  BY DEF OInv, NoOrphan, Up
<1>2. RestoreAlone'
  BY DEF OInv, RestoreAlone, Up
<1> QED
  BY <1>1, <1>2 DEF OInv

\* Closing a box.
LEMMA OrphanClose ==
  ASSUME OInv, NEW i, CloseInst(i), inst' = inst \/ (inst = i /\ inst' = NoInst),
         \A t \in Threads : job[t].new # i => job'[t].new = job[t].new,
         \A t \in Threads : pc'[t] \in RestoringPCs => pc[t] \in RestoringPCs,
         inst \in Insts \cup {NoInst}
  PROVE  OInv'
<1>1. \A j \in Insts : box'[j] = "up" => box[j] = "up" /\ j # i
  BY DEF CloseInst
<1>2. NoOrphan'
  BY <1>1 DEF OInv, NoOrphan, Up
<1>3. RestoreAlone'
  BY <1>1 DEF OInv, RestoreAlone, Up
<1> QED
  BY <1>2, <1>3 DEF OInv

\* Starting one: that of Apply starts when s.inst is nil, that of restoreLastGood finds the
\* ports of the last-good configuration free, so that s.inst is nil or dead.
LEMMA OrphanStart ==
  ASSUME IInv, OInv, Listening, NEW t \in Threads, pc[t] \in {"start", "restore"},
         NEW c \in Configs, StartInst(t, c), pc[t] = "restore" => c = lastGood,
         inst' = inst, \A u \in Threads : u # t => pc'[u] = pc[u]
  PROVE  OInv'
<1>1. PICK i \in Insts :
        /\ box[i] = "free" /\ box' = [box EXCEPT ![i] = "up"]
        /\ job' = [job EXCEPT ![t].new = i]
  BY DEF StartInst, FreeInsts
<1>2. /\ box \in [Insts -> {"free", "up", "dead"}] /\ job \in [Threads -> Job]
      /\ inst \in Insts \cup {NoInst} /\ NoInst \notin Insts
  BY SupervisorAssumption DEF IInv, TypeOK
<1>3. pc[t] \in Pipeline /\ job[t].new = NoInst
  BY DEF IInv, ThreadInv, Holder, HolderPCs, PromotingPCs, RestoringPCs, Pipeline
<1>4. NoOrphan'
  <2> SUFFICES ASSUME NEW j \in Insts, box'[j] = "up"
               PROVE  j = inst' \/ \E u \in Threads : job'[u].new = j
    BY DEF NoOrphan, Up
  <2>1. CASE j = i
    <3>1. job'[t].new = i
      BY <1>1, <1>2 DEF Job
    <3> QED
      BY <2>1, <3>1
  <2>2. CASE j # i
    <3>1. box[j] = "up"
      BY <1>1, <1>2, <2>2
    <3>2. j = inst \/ \E u \in Threads : u # t /\ job[u].new = j
      BY <1>2, <1>3, <3>1 DEF OInv, NoOrphan, Up
    <3>3. \A u \in Threads : u # t => job'[u].new = job[u].new
      BY <1>1, <1>2
    <3> QED
      BY <3>2, <3>3
  <2> QED
    BY <2>1, <2>2
<1>5. inst = NoInst \/ ~Up(inst)
  <2>1. CASE pc[t] = "start"
    BY <2>1 DEF IInv, ThreadInv, Quiet, QuietPCs
  <2>2. CASE pc[t] = "restore" /\ inst # NoInst
    <3>1. cfgOf[inst] = c
      BY <2>2 DEF IInv, Served
    <3>2. Binds[c] # {}
      BY DEF Listening
    <3> QED
      BY <1>2, <2>2, <3>1, <3>2 DEF StartInst, CanStart, PortsFree
  <2> QED
    BY <2>1, <2>2
<1>6. inst = NoInst \/ ~Up(inst)'
  <2>1. inst # NoInst => inst # i
    BY <1>1 DEF IInv, Served
  <2> QED
    BY <1>1, <1>2, <1>5, <2>1 DEF Up
<1>7. RestoreAlone'
  BY <1>3, <1>6, Alone DEF RestoreAlone, RestoringPCs, Pipeline
<1> QED
  BY <1>4, <1>7 DEF OInv

\* The installation: of Apply when s.inst is nil, of restoreLastGood when it is nil or dead.
LEMMA OrphanInstall ==
  ASSUME IInv, OInv, NEW t \in Threads, pc[t] \in {"install", "restoreInstall"},
         inst' = job[t].new, box' = box, pc'[t] \notin RestoringPCs,
         \A u \in Threads : u # t => pc'[u] = pc[u] /\ job'[u] = job[u]
  PROVE  OInv'
<1>1. pc[t] \in Pipeline /\ NoInst \notin Insts /\ inst \in Insts \cup {NoInst}
  BY SupervisorAssumption DEF IInv, TypeOK, Pipeline
<1>2. inst = NoInst \/ ~Up(inst)
  BY DEF IInv, ThreadInv, Quiet, QuietPCs, PromotingPCs, OInv, RestoreAlone, RestoringPCs
<1>3. NoOrphan'
  BY <1>1, <1>2 DEF OInv, NoOrphan, Up
<1>4. RestoreAlone'
  BY <1>1, Alone DEF RestoreAlone, RestoringPCs, Pipeline
<1> QED
  BY <1>3, <1>4 DEF OInv

\* Every step keeps OInv.
LEMMA OrphanStep ==
  ASSUME Listening, IInv, OInv, [Next]_vars
  PROVE  OInv'
<1>0. /\ job \in [Threads -> Job] /\ pc \in [Threads -> Labels] /\ NoInst \notin Insts
      /\ inst \in Insts \cup {NoInst}
      /\ Main \in Threads /\ Loops \subseteq Threads /\ Callers \subseteq Threads
      /\ \A t \in Threads : job[t].new # NoInst <=> pc[t] \in HolderPCs
  BY SupervisorAssumption DEF IInv, TypeOK, Threads, ThreadInv, Holder
<1> USE DEF Goto
<1>1. ASSUME NEW t \in Threads, Step(t) PROVE OInv'
  <2>1. CASE Admit(t) \/ Stage(t) \/ StageFails(t) \/ SetRunning(t) \/ Settle(t) \/ Release(t)
    <3>1. UNCHANGED <<box, inst>>
      BY <2>1 DEF Admit, Stage, StageFails, SetRunning, Settle, Release, memVars, boxVars
    <3>2. \A u \in Threads : job[u].new # NoInst => job'[u].new = job[u].new
      BY <1>0, <2>1 DEF Admit, Stage, StageFails, SetRunning, Settle, Release, HolderPCs,
         PromotingPCs, RestoringPCs, Job
    <3>3. \A u \in Threads : pc'[u] \in RestoringPCs => pc[u] \in RestoringPCs
      BY <1>0, <2>1 DEF Admit, Stage, StageFails, SetRunning, Settle, Release, RestoringPCs
    <3> QED
      BY <1>0, <3>1, <3>2, <3>3, OrphanKept
  <2>2. CASE Take(t)
    BY <1>0, <2>2, OrphanClose DEF Take, TakeInstance, RestoringPCs
  <2>3. CASE Start(t)
    <3>1. job[t].req.Raw \in Configs
      BY <2>3 DEF Start, IInv, ThreadInv, Admitted, AdmittedPCs, StagedPCs, QuietPCs
    <3>2. pc[t] = "start" /\ inst' = inst /\ \A u \in Threads : u # t => pc'[u] = pc[u]
      BY <1>0, <2>3 DEF Start, memVars
    <3>3. CASE StartInst(t, job[t].req.Raw)
      BY <3>1, <3>2, <3>3, OrphanStart
    <3>4. CASE Goto(t, "restore") /\ UNCHANGED <<boxVars, job>>
      BY <1>0, <3>2, <3>4, OrphanKept DEF boxVars, RestoringPCs
    <3> QED
      BY <2>3, <3>3, <3>4 DEF Start
  <2>4. CASE Restore(t)
    <3>1. pc[t] = "restore" /\ inst' = inst /\ \A u \in Threads : u # t => pc'[u] = pc[u]
      BY <1>0, <2>4 DEF Restore, RestoreFails, memVars
    <3>2. CASE LastGoodReadable /\ StartInst(t, lastGood)
      <4>1. lastGood \in Configs
        BY <3>2 DEF LastGoodReadable, IInv, TypeOK, StoreTypeOK
      <4> QED
        BY <3>1, <3>2, <4>1, OrphanStart
    <3>3. CASE RestoreFails(t) /\ UNCHANGED boxVars
      <4>1. \A u \in Threads : job[u].new # NoInst => job'[u].new = job[u].new
        BY <1>0, <3>1, <3>3 DEF RestoreFails, HolderPCs, PromotingPCs, RestoringPCs
      <4>2. \A u \in Threads : pc'[u] \in RestoringPCs => pc[u] \in RestoringPCs
        BY <1>0, <3>3 DEF RestoreFails, RestoringPCs
      <4> QED
        BY <1>0, <3>1, <3>3, <4>1, <4>2, OrphanKept DEF boxVars
    <3> QED
      BY <2>4, <3>2, <3>3 DEF Restore
  <2>5. CASE Probe(t) \/ RestoreProbe(t) \/ PromoteFails(t)
    <3>0. inst' = inst
      BY <2>5 DEF Probe, RestoreProbe, PromoteFails, memVars
    <3>1. \A u \in Threads : pc'[u] \in RestoringPCs => pc[u] \in RestoringPCs
      BY <1>0, <2>5 DEF Probe, RestoreProbe, PromoteFails, Discard, RestoreFails, RestoringPCs
    <3>2. CASE UNCHANGED <<boxVars, job>>
      BY <1>0, <3>0, <3>1, <3>2, OrphanKept DEF boxVars
    <3>3. CASE CloseInst(job[t].new) /\ (\E l : Discard(t, l) \/ RestoreFails(t))
      <4>1. \A u \in Threads : job[u].new # job[t].new => job'[u].new = job[u].new
        BY <1>0, <3>3 DEF Discard, RestoreFails
      <4> QED
        BY <1>0, <3>0, <3>1, <3>3, <4>1, OrphanClose
    <3> QED
      BY <2>5, <3>2, <3>3 DEF Probe, RestoreProbe, PromoteFails, Discard
  <2>6. CASE Promote(t)
    BY <1>0, <2>6, OrphanKept DEF Promote, memVars, boxVars, RestoringPCs
  <2>7. CASE Install(t) \/ RestoreInstall(t)
    <3>1. /\ pc[t] \in {"install", "restoreInstall"} /\ inst' = job[t].new /\ box' = box
          /\ \A u \in Threads : u # t => pc'[u] = pc[u] /\ job'[u] = job[u]
      BY <1>0, <2>7 DEF Install, RestoreInstall, InstallInstance, boxVars
    <3>2. pc'[t] \notin RestoringPCs
      BY <1>0, <2>7 DEF Install, RestoreInstall, RestoringPCs
    <3> QED
      BY <3>1, <3>2, OrphanInstall
  <2> QED
    BY <1>1, <2>1, <2>2, <2>3, <2>4, <2>5, <2>6, <2>7 DEF Step
<1>2. ASSUME NEW l \in Loops, RestartStep(l) PROVE OInv'
  <2>1. UNCHANGED <<box, inst>>
    BY <1>2 DEF RestartStep, RestartCheck, RestartAcquire, RestartDone, memVars, boxVars
  <2>2. \A u \in Threads : job[u].new # NoInst => job'[u].new = job[u].new
    BY <1>0, <1>2 DEF RestartStep, RestartCheck, RestartAcquire, RestartDone, HolderPCs,
       PromotingPCs, RestoringPCs
  <2>3. \A u \in Threads : pc'[u] \in RestoringPCs => pc[u] \in RestoringPCs
    BY <1>0, <1>2 DEF RestartStep, RestartCheck, RestartAcquire, RestartDone, RestoringPCs
  <2> QED
    BY <1>0, <2>1, <2>2, <2>3, OrphanKept
<1>3. ASSUME MainStep PROVE OInv'
  <2>1. CASE Boot \/ ShutdownBegin \/ ShutdownSettle
    <3>1. UNCHANGED <<box, inst>>
      BY <2>1 DEF Boot, BeginBoot, ShutdownBegin, ShutdownSettle, memVars, boxVars
    <3>2. \A u \in Threads : job[u].new # NoInst => job'[u].new = job[u].new
      BY <1>0, <2>1 DEF Boot, BeginBoot, ShutdownBegin, ShutdownSettle, HolderPCs,
         PromotingPCs, RestoringPCs
    <3>3. \A u \in Threads : pc'[u] \in RestoringPCs => pc[u] \in RestoringPCs
      BY <1>0, <2>1 DEF Boot, BeginBoot, ShutdownBegin, ShutdownSettle, RestoringPCs
    <3> QED
      BY <1>0, <3>1, <3>2, <3>3, OrphanKept
  <2>2. CASE ShutdownTake
    BY <1>0, <2>2, OrphanClose DEF ShutdownTake, TakeInstance, RestoringPCs
  <2> QED
    BY <1>3, <2>1, <2>2 DEF MainStep
<1>4. ASSUME NEW i \in Insts, WatchReturn(i) \/ \E l \in Loops : WatchDone(l, i) PROVE OInv'
  BY <1>0, <1>4, OrphanClose DEF WatchReturn, WatchDone, memVars, RestoringPCs
<1>5. ASSUME NEW t \in Callers, Call(t) PROVE OInv'
  <2>1. UNCHANGED <<box, inst>>
    BY <1>5 DEF Call, ApplyBegin, StartBox, StopBox, BeginBoot, memVars, boxVars
  <2>2. \A u \in Threads : job[u].new # NoInst => job'[u].new = job[u].new
    BY <1>0, <1>5 DEF Call, ApplyBegin, StartBox, StopBox, BeginBoot, HolderPCs,
       PromotingPCs, RestoringPCs
  <2>3. \A u \in Threads : pc'[u] \in RestoringPCs => pc[u] \in RestoringPCs
    BY <1>0, <1>5 DEF Call, ApplyBegin, StartBox, StopBox, BeginBoot, RestoringPCs
  <2> QED
    BY <1>0, <2>1, <2>2, <2>3, OrphanKept
<1>6. CASE Signal \/ (\E t \in Callers : Cancel(t)) \/ UNCHANGED vars
  BY <1>0, <1>6, OrphanKept DEF Signal, Cancel, vars, memVars, boxVars
<1>7. CASE \E i \in Insts : Die(i)
  <2>1. UNCHANGED <<inst, job, pc>> /\ \A j \in Insts : box'[j] = "up" => box[j] = "up"
    BY <1>7 DEF Die, memVars, IInv, TypeOK
  <2> QED
    BY <1>0, <2>1 DEF OInv, NoOrphan, RestoreAlone, Up
<1>8. CASE Crash
  BY <1>8 DEF Crash, OInv, NoOrphan, RestoreAlone, RestoringPCs, Up
<1> QED
  BY <1>1, <1>2, <1>3, <1>4, <1>5, <1>6, <1>7, <1>8 DEF Next, Watch, Environment

\* No box is lost: each live one is s.inst or in the hands of the operation that started it,
\* whatever fails, dies, is cancelled or crashes, as long as every configuration listens.
THEOREM NoBoxLost == Listening => (Spec => []NoOrphan)
<1> SUFFICES ASSUME Listening PROVE Spec => []NoOrphan
  OBVIOUS
<1>1. Init => OInv
  BY SupervisorAssumption DEF Init, OInv, NoOrphan, RestoreAlone, RestoringPCs, Up
<1>2. IInv /\ OInv /\ [Next]_vars => OInv'
  BY OrphanStep
<1>3. OInv => NoOrphan
  BY DEF OInv
<1> QED
  BY <1>1, <1>2, <1>3, Invariance, PTL DEF Spec

-----------------------------------------------------------------------------
(* StateHonest, when no box dies by itself (the engine that is shipped      *)
(* closes Done only when the box is closed)                                 *)

Live == {"Running", "RolledBack"}

\* A dead box is what watch takes s.inst away for; Shutdown takes it away after the flag.
NothingTaken ==
  /\ \A i \in Insts : box[i] # "dead"
  /\ pc[Main] \in {"shutTake", "shutSettle", "exited"} => shutdown

\* Before the old box is taken the state to go back to is true; from the installation on, and
\* when the operation settles, the state that it sets is.
Promises(t) ==
  ~shutdown =>
    /\ pc[t] \in {"admit", "stageRaw", "stageMeta", "take", "settle"} /\ job[t].goal \in Live
         => inst # NoInst
    /\ pc[t] \in {"running", "restored"} => inst # NoInst
    /\ pc[t] = "release" /\ state \in Live => inst # NoInst
    /\ pc[t] = "stopTake" => job[t].goal \notin Live

HInv == NothingTaken /\ StateHonest /\ \A t \in Threads : Promises(t)

\* Inside the pipeline only the promise of the goroutine that is there counts.
LEMMA HonestInside ==
  ASSUME Mutex', NothingTaken', NEW t \in Threads, pc'[t] \in Pipeline, Promises(t)'
  PROVE  HInv'
<1>1. applying'
  BY DEF Mutex
<1>2. \A u \in Threads : u # t => pc'[u] \notin Pipeline
  BY DEF Mutex
<1>3. \A u \in Threads : Promises(u)'
  BY <1>2 DEF Promises, Pipeline
<1> QED
  BY <1>1, <1>3 DEF HInv, StateHonest

\* While the flag is clear only the state counts.
LEMMA HonestIdle ==
  ASSUME Mutex', NothingTaken', ~applying', StateHonest'
  PROVE  HInv'
BY DEF Mutex, HInv, Promises, Pipeline

\* Steps that take no part: they keep s.inst, the state and the goroutine in the pipeline, or
\* happen after the shutdown has begun.
LEMMA HonestAside ==
  ASSUME HInv, NothingTaken',
         shutdown' \/ UNCHANGED <<inst, state, shutdown>>, applying' = applying,
         \A u \in Threads : pc'[u] \in Pipeline => pc'[u] = pc[u] /\ job'[u] = job[u]
  PROVE  HInv'
<1>1. \A u \in Threads : Promises(u)'
  BY DEF HInv, Promises, Pipeline
<1> QED
  BY <1>1 DEF HInv, StateHonest

\* No box dies, and the flag is raised before the box is taken.
LEMMA TakenStep ==
  ASSUME "die" \notin Faults, IInv, NothingTaken, [Next]_vars
  PROVE  NothingTaken'
<1>0. pc \in [Threads -> Labels] /\ Main \in Threads
  BY DEF IInv, TypeOK, Threads
<1> USE DEF Goto
<1>1. ASSUME NEW t \in Threads, Step(t) PROVE NothingTaken'
  <2>1. pc'[Main] \in {"shutTake", "shutSettle", "exited"} => pc'[Main] = pc[Main]
    BY <1>0, <1>1 DEF Step, Admit, Stage, StageFails, Take, Start, Probe, Promote, PromoteFails,
       Install, SetRunning, Settle, Release, Restore, RestoreProbe, RestoreInstall, Discard,
       RestoreFails
  <2>2. shutdown' = shutdown
    BY <1>1 DEF Step, Admit, Stage, StageFails, Take, Start, Probe, Promote, PromoteFails,
       Install, SetRunning, Settle, Release, Restore, RestoreProbe, RestoreInstall, memVars
  <2>3. CASE Take(t) \/ Start(t) \/ Probe(t) \/ PromoteFails(t) \/ Restore(t) \/ RestoreProbe(t)
    <3>1. \/ box' = box \/ \E i \in Insts : box' = [box EXCEPT ![i] = "up"]
          \/ \E i : CloseInst(i)
      BY <2>3 DEF Take, Start, Probe, PromoteFails, Restore, RestoreProbe, TakeInstance,
         StartInst, FreeInsts, Discard, boxVars
    <3>2. \A i \in Insts : box'[i] # "dead"
      BY <3>1 DEF NothingTaken, CloseInst, IInv, TypeOK
    <3> QED
      BY <2>1, <2>2, <3>2 DEF NothingTaken
  <2>4. CASE box' = box
    BY <2>1, <2>2, <2>4 DEF NothingTaken
  <2> QED
    BY <1>1, <2>3, <2>4 DEF Step, Admit, Stage, StageFails, Promote, Install, SetRunning, Settle,
       Release, RestoreInstall, boxVars
<1>2. CASE \E l \in Loops : RestartStep(l)
  BY <1>0, <1>2 DEF RestartStep, RestartCheck, RestartAcquire, RestartDone, NothingTaken,
     memVars, boxVars, Threads
<1>3. CASE MainStep
  BY <1>0, <1>3 DEF MainStep, Boot, BeginBoot, ShutdownBegin, ShutdownTake, ShutdownSettle,
     TakeInstance, CloseInst, NothingTaken, memVars, boxVars
<1>4. CASE Watch
  BY <1>4 DEF Watch, WatchDone, WatchReturn, NothingTaken
<1>5. CASE \E t \in Callers : Call(t)
  BY <1>0, <1>5 DEF Call, ApplyBegin, StartBox, StopBox, BeginBoot, NothingTaken, boxVars, Threads
<1>6. CASE Environment \/ UNCHANGED vars
  BY <1>0, <1>6 DEF Environment, Signal, Crash, Cancel, Die, NothingTaken, vars, memVars, boxVars
<1> QED
  BY <1>1, <1>2, <1>3, <1>4, <1>5, <1>6 DEF Next

\* Every step keeps the promises.
LEMMA HonestStep ==
  ASSUME "die" \notin Faults, IInv, IInv', HInv, [Next]_vars
  PROVE  HInv'
<1>0. /\ job \in [Threads -> Job] /\ pc \in [Threads -> Labels]
      /\ Main \in Threads /\ Loops \subseteq Threads /\ Callers \subseteq Threads
  BY DEF IInv, TypeOK, Threads
<1>a. NothingTaken'
  BY TakenStep DEF HInv
<1>b. Mutex'
  BY DEF IInv
<1> USE DEF Goto
<1>1. ASSUME NEW t \in Threads, Step(t) PROVE HInv'
  <2>1. CASE Release(t)
    <3>1. ~applying' /\ UNCHANGED <<inst, state, shutdown>>
      BY <2>1 DEF Release
    <3>2. StateHonest'
      BY <2>1, <3>1 DEF Release, StateHonest, HInv, Promises, Live
    <3> QED
      BY <1>a, <1>b, <3>1, <3>2, HonestIdle
  <2>2. CASE ~Release(t)
    <3>1. Promises(t)'
      <4>0. Promises(t)
        BY DEF HInv
      <4>1. CASE Admit(t)
        BY <1>0, <4>0, <4>1 DEF Admit, Promises, Same, memVars, Job
      <4>2. CASE Stage(t) \/ StageFails(t) \/ Settle(t) \/ SetRunning(t)
        BY <1>0, <4>0, <4>2 DEF Stage, StageFails, Settle, SetRunning, Promises, memVars, Job
      <4>3. CASE Take(t)
        BY <1>0, <4>0, <4>3 DEF Take, Promises
      <4>4. CASE Start(t) \/ Probe(t) \/ Promote(t) \/ PromoteFails(t)
        BY <1>0, <4>4 DEF Start, Probe, Promote, PromoteFails, Discard, Promises
      <4>5. CASE Restore(t) \/ RestoreProbe(t)
        BY <1>0, <4>5 DEF Restore, RestoreProbe, RestoreFails, Promises, Live, Job
      <4>6. CASE Install(t) \/ RestoreInstall(t)
        <5>1. inst' # NoInst
          BY <4>6 DEF Install, RestoreInstall, InstallInstance, IInv, ThreadInv, Holder,
             HolderPCs, PromotingPCs, RestoringPCs
        <5>2. pc'[t] \in {"running", "settle", "restored"}
          BY <1>0, <4>6 DEF Install, RestoreInstall
        <5> QED
          BY <5>1, <5>2 DEF Promises
      <4> QED
        BY <1>1, <2>2, <4>1, <4>2, <4>3, <4>4, <4>5, <4>6 DEF Step
    <3>2. pc'[t] \in Pipeline
      BY <1>0, <1>1, <2>2 DEF Step, Admit, Stage, StageFails, Take, Start, Probe, Promote,
         PromoteFails, Install, SetRunning, Settle, Restore, RestoreProbe, RestoreInstall,
         Discard, RestoreFails, Pipeline
    <3> QED
      BY <1>a, <1>b, <3>1, <3>2, HonestInside
  <2> QED
    BY <2>1, <2>2
<1>2. ASSUME NEW l \in Loops, RestartStep(l) PROVE HInv'
  <2>1. CASE RestartDone(l)
    <3>1. ~applying' /\ UNCHANGED <<inst, shutdown>> /\ state' \in {"Running", "Degraded"}
      BY <2>1 DEF RestartDone
    <3>2. StateHonest'
      BY <1>0, <2>1, <3>1 DEF RestartDone, StateHonest, HInv, Promises
    <3> QED
      BY <1>a, <1>b, <3>1, <3>2, HonestIdle
  <2>2. CASE RestartAcquire(l) /\ pc'[l] = "restore"
    BY <1>0, <1>a, <1>b, <2>2, HonestInside DEF Promises, Pipeline
  <2>3. CASE RestartCheck(l) \/ (RestartAcquire(l) /\ pc'[l] # "restore")
    <3>1. UNCHANGED <<inst, state, shutdown, applying>>
      BY <1>0, <2>3 DEF RestartCheck, RestartAcquire, memVars
    <3>2. \A u \in Threads : pc'[u] \in Pipeline => pc'[u] = pc[u] /\ job'[u] = job[u]
      BY <1>0, <2>3 DEF RestartCheck, RestartAcquire, Pipeline
    <3> QED
      BY <1>a, <3>1, <3>2, HonestAside
  <2> QED
    BY <1>2, <2>1, <2>2, <2>3 DEF RestartStep
<1>3. ASSUME MainStep PROVE HInv'
  <2>1. CASE Boot /\ BeginBoot(Main)
    <3>1. pc'[Main] = "restore"
      BY <1>0, <2>1 DEF BeginBoot
    <3> QED
      BY <1>0, <1>a, <1>b, <3>1, HonestInside DEF Promises, Pipeline
  <2>2. CASE Boot /\ ~BeginBoot(Main)
    BY <1>0, <1>a, <2>2, HonestAside DEF Boot, memVars, Pipeline
  <2>3. CASE ShutdownBegin
    BY <1>0, <1>a, <2>3, HonestAside DEF ShutdownBegin, Pipeline
  <2>4. CASE ShutdownTake \/ ShutdownSettle
    <3>1. shutdown' /\ applying' = applying
      BY <2>4 DEF ShutdownTake, ShutdownSettle, HInv, NothingTaken
    <3>2. \A u \in Threads : pc'[u] \in Pipeline => pc'[u] = pc[u] /\ job'[u] = job[u]
      BY <1>0, <2>4 DEF ShutdownTake, ShutdownSettle, Pipeline
    <3> QED
      BY <1>a, <3>1, <3>2, HonestAside
  <2> QED
    BY <1>3, <2>1, <2>2, <2>3, <2>4 DEF MainStep
<1>4. CASE Watch
  BY <1>4 DEF Watch, WatchDone, WatchReturn, HInv, NothingTaken
<1>5. ASSUME NEW t \in Callers, Call(t) PROVE HInv'
  <2>1. ~applying /\ t \in Threads
    BY <1>0, <1>5 DEF Call, ApplyBegin, StartBox, StopBox, BeginBoot
  <2>2. pc'[t] \in Pipeline
    BY <1>0, <1>5 DEF Call, ApplyBegin, StartBox, StopBox, BeginBoot, Pipeline
  <2>3. Promises(t)'
    <3>1. CASE \E r \in Requests : ApplyBegin(t, r)
      BY <1>0, <2>1, <3>1 DEF ApplyBegin, Promises, HInv, StateHonest, NewJob, Live
    <3>2. CASE StartBox(t) \/ StopBox(t)
      BY <1>0, <2>1, <3>2 DEF StartBox, StopBox, BeginBoot, Promises, NewJob, Live
    <3> QED
      BY <1>5, <3>1, <3>2 DEF Call
  <2> QED
    BY <1>a, <1>b, <2>1, <2>2, <2>3, HonestInside
<1>6. CASE Signal \/ (\E t \in Callers : Cancel(t)) \/ UNCHANGED vars
  BY <1>a, <1>6, HonestAside DEF Signal, Cancel, vars, memVars
<1>7. CASE \E i \in Insts : Die(i)
  BY <1>7 DEF Die
<1>8. CASE Crash
  BY <1>a, <1>b, <1>8, HonestIdle DEF Crash, StateHonest
<1> QED
  BY <1>1, <1>2, <1>3, <1>4, <1>5, <1>6, <1>7, <1>8 DEF Next, Environment

\* Running and RolledBack are true between operations, whatever write fails, client vanishes or
\* process crashes, until the shutdown.  (Were a box to die during an apply that is refused, the
\* apply would put back the old Running over the Degraded of watch.)
THEOREM HonestState == "die" \notin Faults => (Spec => []StateHonest)
<1> SUFFICES ASSUME "die" \notin Faults PROVE Spec => []StateHonest
  OBVIOUS
<1>1. Init => HInv
  BY SupervisorAssumption DEF Init, HInv, NothingTaken, StateHonest, Promises, Threads
<1>2. IInv /\ IInv' /\ HInv /\ [Next]_vars => HInv'
  BY HonestStep
<1>3. HInv => StateHonest
  BY DEF HInv
<1> QED
  BY <1>1, <1>2, <1>3, Invariance, PTL DEF Spec

-----------------------------------------------------------------------------
(* LastGoodServes, when boxes do not die, starts fail for a reason, nobody  *)
(* cancels or signals, and StopBox is not called; writes may fail           *)

\* What was started once starts again.
Startable ==
  /\ lastGood # NoFile => lastGood \notin Unstartable
  /\ \A t \in Threads : pc[t] \in {"probe"} \cup PromotingPCs => job[t].req.Raw \notin Unstartable

Calm ==
  /\ \A t \in Threads : ~ctxDone[t]
  /\ ~shutdown /\ pc[Main] \notin {"shutTake", "shutSettle", "exited"}
  /\ \A i \in Insts : box[i] # "dead"
  /\ \A l \in Loops : pc[l] = "idle"
  /\ \A t \in Threads : pc[t] # "stopTake"

\* Outside the section from take to the end of the restore, a readable last-good serves.
Serves ==
  LastGoodReadable =>
    /\ ~applying /\ pc[Main] # "boot" => inst # NoInst
    /\ \A t \in Threads :
         pc[t] \in {"admit", "stageRaw", "stageMeta", "take", "running", "settle", "release"}
         => inst # NoInst

SInv == Startable /\ Calm /\ Serves

Peaceful ==
  /\ Faults \subseteq {"disk"} /\ "stop" \notin Ops
  /\ Insts # {} /\ Listening

\* Nothing but an operation, a crash or the end of a boot happens in calm weather.
LEMMA CalmNext ==
  ASSUME Peaceful, IInv, Calm, Next
  PROVE  \/ \E t \in Threads \ Loops : Step(t)
         \/ Boot \/ Crash
         \/ \E t \in Callers : (\E r \in Requests : ApplyBegin(t, r)) \/ StartBox(t)
<1>1. \A t \in Threads : Step(t) => t \notin Loops
  BY DEF Calm, Step, Admit, Stage, StageFails, Take, Start, Probe, Promote, PromoteFails,
     Install, SetRunning, Settle, Release, Restore, RestoreProbe, RestoreInstall
<1>2. \A l \in Loops : ~RestartStep(l)
  BY DEF Calm, RestartStep, RestartCheck, RestartAcquire, RestartDone
<1>3. ~ShutdownBegin /\ ~ShutdownTake /\ ~ShutdownSettle
  BY DEF Calm, ShutdownBegin, ShutdownTake, ShutdownSettle, Threads
<1>4. ~Watch
  BY DEF Calm, Watch, WatchDone, WatchReturn
<1>5. ~Signal /\ \A t \in Callers : ~Cancel(t) /\ ~StopBox(t)
  BY DEF Peaceful, Signal, Cancel, StopBox
<1>6. \A i \in Insts : ~Die(i)
  BY DEF Peaceful, Die
<1> QED
  BY <1>1, <1>2, <1>3, <1>4, <1>5, <1>6 DEF Next, MainStep, Call, Environment

\* The weather stays calm.
LEMMA CalmStep ==
  ASSUME Peaceful, IInv, Calm, Next
  PROVE  Calm'
<1>0. /\ pc \in [Threads -> Labels] /\ ctxDone \in [Threads -> BOOLEAN]
      /\ box \in [Insts -> {"free", "up", "dead"}]
      /\ Main \in Threads /\ Loops \subseteq Threads /\ Callers \subseteq Threads
      /\ Main \notin Loops /\ Callers \cap Loops = {}
  BY SupervisorAssumption DEF IInv, TypeOK, Threads
<1> USE DEF Goto
<1>1. ASSUME NEW t \in Threads \ Loops, Step(t) PROVE Calm'
  <2>1. /\ pc' = [pc EXCEPT ![t] = pc'[t]]
        /\ pc'[t] \notin {"stopTake", "shutTake", "shutSettle", "exited"}
    BY <1>0, <1>1 DEF Step, Admit, Stage, StageFails, Take, Start, Probe, Promote, PromoteFails,
       Install, SetRunning, Settle, Release, Restore, RestoreProbe, RestoreInstall, Discard,
       RestoreFails
  <2>2. UNCHANGED <<ctxDone, shutdown>>
    BY <1>1 DEF Step, Admit, Stage, StageFails, Take, Start, Probe, Promote, PromoteFails,
       Install, SetRunning, Settle, Release, Restore, RestoreProbe, RestoreInstall, memVars
  <2>3. \/ box' = box \/ \E i \in Insts : box' = [box EXCEPT ![i] = "up"]
        \/ \E i : CloseInst(i)
    BY <1>1 DEF Step, Admit, Stage, StageFails, Take, Start, Probe, Promote, PromoteFails,
       Install, SetRunning, Settle, Release, Restore, RestoreProbe, RestoreInstall,
       TakeInstance, StartInst, FreeInsts, Discard, boxVars
  <2>4. \A i \in Insts : box'[i] # "dead"
    BY <1>0, <2>3 DEF Calm, CloseInst
  <2> QED
    BY <1>0, <1>1, <2>1, <2>2, <2>4 DEF Calm
<1>2. CASE Boot
  BY <1>0, <1>2 DEF Boot, BeginBoot, Calm, memVars, boxVars
<1>3. CASE Crash
  BY <1>0, <1>3 DEF Crash, Calm
<1>4. ASSUME NEW t \in Callers, (\E r \in Requests : ApplyBegin(t, r)) \/ StartBox(t)
      PROVE  Calm'
  BY <1>0, <1>4 DEF ApplyBegin, StartBox, BeginBoot, Calm, boxVars
<1> QED
  BY <1>1, <1>2, <1>3, <1>4, CalmNext

\* What becomes last-good has started.
LEMMA StartableStep ==
  ASSUME IInv, Startable, [Next]_vars
  PROVE  Startable'
<1>0. /\ pc \in [Threads -> Labels] /\ job \in [Threads -> Job]
      /\ Main \in Threads /\ Loops \subseteq Threads /\ Callers \subseteq Threads
  BY DEF IInv, TypeOK, Threads
<1>1. lastGood' # NoFile => lastGood' \notin Unstartable
  <2>1. ASSUME NEW t \in Threads, pc[t] = "promoteRaw", Promote(t)
        PROVE  lastGood' \notin Unstartable
    BY <2>1 DEF Promote, PromoteRaw, Startable, PromotingPCs, IInv, ThreadInv, StagedOwn,
       StagedPCs, QuietPCs
  <2> QED
    BY <2>1, Frame DEF Startable, vars, storeVars
<1> DEFINE OnTrial == {"probe"} \cup PromotingPCs
<1>2. ASSUME NEW u \in Threads, pc'[u] \in OnTrial
      PROVE  job'[u].req.Raw \notin Unstartable
  <2> USE <1>2 DEF Goto, PromotingPCs
  <2>1. CASE \E t \in Threads : Step(t)
    <3>1. PICK t \in Threads : Step(t)
      BY <2>1
    <3>2. CASE u # t
      BY <1>0, <3>1, <3>2 DEF Startable, Step, Admit, Stage, StageFails, Take, Start, Probe,
         Promote, PromoteFails, Install, SetRunning, Settle, Release, Restore, RestoreProbe,
         RestoreInstall, StartInst, Discard, RestoreFails
    <3>3. CASE u = t /\ Start(t)
      BY <1>0, <3>3 DEF Start, StartInst, CanStart, Job
    <3>4. CASE u = t /\ (Probe(t) \/ Promote(t))
      BY <1>0, <3>4 DEF Startable, Probe, Promote, Discard
    <3> QED
      BY <1>0, <3>1, <3>2, <3>3, <3>4 DEF Step, Admit, Stage, StageFails, Take, PromoteFails,
         Install, SetRunning, Settle, Release, Restore, RestoreProbe, RestoreInstall, Discard,
         RestoreFails
  <2>2. CASE (\E l \in Loops : RestartStep(l)) \/ MainStep \/ Watch
    BY <1>0, <2>2 DEF RestartStep, RestartCheck, RestartAcquire, RestartDone, MainStep, Boot,
       BeginBoot, ShutdownBegin, ShutdownTake, ShutdownSettle, Watch, WatchDone, WatchReturn,
       Startable
  <2>3. CASE \E t \in Callers : Call(t)
    BY <1>0, <2>3 DEF Call, ApplyBegin, StartBox, StopBox, BeginBoot, Startable
  <2>4. CASE Environment \/ UNCHANGED vars
    BY <2>4 DEF Environment, Signal, Cancel, Die, Crash, Startable, vars
  <2> QED
    BY <2>1, <2>2, <2>3, <2>4 DEF Next
<1> QED
  BY <1>1, <1>2 DEF Startable

\* restoreLastGood can fail only because a box still holds the ports.
LEMMA RestoreNeedsRoom ==
  ASSUME Peaceful, IInv, NoOrphan, Startable, Calm, NEW t \in Threads, pc[t] = "restore",
         LastGoodReadable, MayFail(lastGood)
  PROVE  inst # NoInst
<1> SUFFICES ASSUME inst = NoInst PROVE FALSE
  OBVIOUS
<1>1. \A u \in Threads : job[u].new = NoInst
  BY Alone DEF IInv, ThreadInv, Holder, HolderPCs, PromotingPCs, RestoringPCs, Pipeline
<1>2. \A i \in Insts : box[i] = "free"
  BY <1>1, SupervisorAssumption DEF NoOrphan, Up, Calm, IInv, TypeOK
<1>3. CanStart(lastGood)
  BY <1>2 DEF CanStart, FreeInsts, PortsFree, Up, Peaceful, Startable, LastGoodReadable
<1> QED
  BY <1>3 DEF MayFail, Peaceful

\* Every operation ends with a box that serves.
LEMMA ServesStep ==
  ASSUME Peaceful, IInv, IInv', NoOrphan, SInv, Next
  PROVE  Serves'
<1>0. /\ pc \in [Threads -> Labels] /\ job \in [Threads -> Job]
      /\ Main \in Threads /\ Loops \subseteq Threads /\ Callers \subseteq Threads
  BY DEF IInv, TypeOK, Threads
<1> DEFINE Here == {"admit", "stageRaw", "stageMeta", "take", "running", "settle", "release"}
<1>a. ASSUME NEW t \in Threads, pc'[t] \in Pipeline,
             LastGoodReadable' /\ pc'[t] \in Here => inst' # NoInst
      PROVE  Serves'
  <2>1. applying' /\ \A u \in Threads : u # t => pc'[u] \notin Here
    BY <1>a DEF IInv, Mutex, Pipeline
  <2> QED
    BY <1>a, <2>1 DEF Serves
<1>b. ASSUME ~applying', LastGoodReadable' /\ pc'[Main] # "boot" => inst' # NoInst
      PROVE  Serves'
  <2>1. \A u \in Threads : pc'[u] \notin Here
    BY <1>b DEF IInv, Mutex, Pipeline
  <2> QED
    BY <1>b, <2>1 DEF Serves
<1> USE DEF Goto
<1>1. ASSUME NEW t \in Threads, Step(t) PROVE Serves'
  <2>1. CASE Release(t)
    <3>1. ~applying' /\ inst' = inst /\ LastGoodReadable' = LastGoodReadable
      BY <2>1 DEF Release, LastGoodReadable, storeVars
    <3>2. LastGoodReadable => inst # NoInst
      BY <2>1 DEF Release, SInv, Serves
    <3> QED
      BY <1>b, <3>1, <3>2
  <2>2. CASE ~Release(t)
    <3>1. pc'[t] \in Pipeline
      BY <1>0, <1>1, <2>2 DEF Step, Admit, Stage, StageFails, Take, Start, Probe, Promote,
         PromoteFails, Install, SetRunning, Settle, Restore, RestoreProbe, RestoreInstall,
         Discard, RestoreFails, Pipeline
    <3>2. LastGoodReadable' /\ pc'[t] \in Here => inst' # NoInst
      <4>1. CASE Admit(t) \/ Stage(t) \/ StageFails(t) \/ Settle(t) \/ SetRunning(t)
        <5>1. /\ pc[t] \in Here \/ pc'[t] \notin Here
              /\ inst' = inst /\ LastGoodReadable' = LastGoodReadable
          BY <1>0, <4>1 DEF Admit, Stage, StageFails, Settle, SetRunning, WriteStagedRaw,
             WriteStagedMeta, LastGoodReadable, storeVars, memVars
        <5> QED
          BY <5>1 DEF SInv, Serves
      <4>2. CASE Take(t)
        BY <1>0, <4>2 DEF Take, SInv, Calm
      <4>3. CASE Start(t) \/ Probe(t) \/ Promote(t) \/ PromoteFails(t)
        BY <1>0, <4>3 DEF Start, Probe, Promote, PromoteFails, Discard
      <4>4. CASE Restore(t)
        <5>1. LastGoodReadable' = LastGoodReadable /\ inst' = inst /\ pc[t] = "restore"
          BY <4>4 DEF Restore, LastGoodReadable, storeVars, memVars
        <5>2. CASE LastGoodReadable => MayFail(lastGood)
          BY <5>1, <5>2, RestoreNeedsRoom DEF SInv
        <5>3. CASE Goto(t, "restoreProbe")
          BY <1>0, <5>3
        <5> QED
          BY <4>4, <5>2, <5>3 DEF Restore
      <4>5. CASE RestoreProbe(t)
        <5>1. ~ProbeMayFail(t)
          <6>1. job[t].new \in Insts
            BY <1>0, <4>5 DEF RestoreProbe, IInv, ThreadInv, Holder, HolderPCs, RestoringPCs, Job
          <6> QED
            BY <6>1 DEF ProbeMayFail, SInv, Calm
        <5> QED
          BY <1>0, <4>5, <5>1 DEF RestoreProbe
      <4>6. CASE Install(t) \/ RestoreInstall(t)
        BY <4>6 DEF Install, RestoreInstall, InstallInstance, IInv, ThreadInv, Holder,
           HolderPCs, PromotingPCs, RestoringPCs
      <4> QED
        BY <1>1, <2>2, <4>1, <4>2, <4>3, <4>4, <4>5, <4>6 DEF Step
    <3> QED
      BY <1>a, <3>1, <3>2
  <2> QED
    BY <2>1, <2>2
<1>2. CASE Boot
  <2>1. CASE BeginBoot(Main)
    <3>1. pc'[Main] = "restore"
      BY <1>0, <2>1 DEF BeginBoot
    <3> QED
      BY <1>0, <1>a, <3>1 DEF Pipeline
  <2>2. CASE ~BeginBoot(Main)
    <3>1. ~LastGoodReadable'
      BY <1>2, <2>2 DEF Boot, HasLastGood, LastGoodReadable, storeVars
    <3> QED
      BY <3>1 DEF Serves
  <2> QED
    BY <2>1, <2>2
<1>3. CASE Crash
  BY <1>0, <1>b, <1>3 DEF Crash
<1>4. ASSUME NEW t \in Callers, (\E r \in Requests : ApplyBegin(t, r)) \/ StartBox(t)
      PROVE  Serves'
  <2>1. t \in Threads /\ pc'[t] \in Pipeline
    BY <1>0, <1>4 DEF ApplyBegin, StartBox, BeginBoot, Pipeline
  <2>2. LastGoodReadable' /\ pc'[t] \in Here => inst' # NoInst
    <3>1. CASE StartBox(t)
      BY <1>0, <3>1 DEF StartBox, BeginBoot
    <3>2. CASE \E r \in Requests : ApplyBegin(t, r)
      BY <3>2 DEF ApplyBegin, Serving, SInv, Serves, LastGoodReadable, storeVars
    <3> QED
      BY <1>4, <3>1, <3>2
  <2> QED
    BY <1>a, <2>1, <2>2
<1> QED
  BY <1>1, <1>2, <1>3, <1>4, CalmNext DEF SInv

\* A failed apply costs no dataplane: with a readable last-good configuration a box serves after
\* every operation and every boot, whichever bodies are refused or cannot start, whichever
\* writes fail and wherever the process dies, as long as the engine starts what it has started
\* before, boxes live, requests are not cancelled and nobody calls StopBox or stops the process.
THEOREM AlwaysServed == Peaceful => (Spec => []LastGoodServes)
<1> SUFFICES ASSUME Peaceful PROVE Spec => []LastGoodServes
  OBVIOUS
<1>1. Init => SInv
  BY SupervisorAssumption DEF Init, StoreInit, SInv, Startable, Calm, Serves, LastGoodReadable,
     PromotingPCs, Threads
<1>2. IInv /\ IInv' /\ NoOrphan /\ SInv /\ [Next]_vars => SInv'
  <2> SUFFICES ASSUME IInv, IInv', NoOrphan, SInv, [Next]_vars PROVE SInv'
    OBVIOUS
  <2>1. CASE Next
    BY <2>1, CalmStep, StartableStep, ServesStep DEF SInv
  <2>2. CASE UNCHANGED vars
    BY <2>2 DEF SInv, Startable, Calm, Serves, LastGoodReadable, vars, storeVars, memVars, boxVars
  <2> QED
    BY <2>1, <2>2
<1>3. Spec => []NoOrphan
  BY NoBoxLost DEF Peaceful
<1>4. IInv /\ SInv => LastGoodServes
  BY DEF IInv, TypeOK, Served, SInv, Calm, Serves, LastGoodServes, Serving, Up
<1> QED
  BY <1>1, <1>2, <1>3, <1>4, Invariance, PTL DEF Spec

-----------------------------------------------------------------------------
(***************************************************************************)
(* Supervisor implements LastGood.  The invariant IInv makes the goroutine *)
(* that holds a box on trial unique, so that `trial' is the configuration  *)
(* of that box; then every action is a step of LastGood or leaves its      *)
(* three variables alone.                                                  *)
(***************************************************************************)

\* What the refinement mapping shows of the goroutines and of s.inst.
TrialIs ==
  /\ \A t \in Threads : job[t].new # NoInst => Trial = cfgOf[job[t].new]
  /\ (\A t \in Threads : job[t].new = NoInst) => Trial = NoFile

\* At most one goroutine holds a box on trial.
LEMMA OneTrial == IInv => TrialIs
<1> SUFFICES ASSUME IInv PROVE TrialIs
  OBVIOUS
<1>1. ASSUME NEW t \in Threads, job[t].new # NoInst
      PROVE  Trial = cfgOf[job[t].new]
  <2>1. pc[t] \in Pipeline
    BY <1>1 DEF IInv, ThreadInv, Holder, HolderPCs, PromotingPCs, RestoringPCs, Pipeline
  <2>2. \A u \in Threads : u # t => job[u].new = NoInst
    BY <2>1, Alone
  <2>3. Trying = {t}
    BY <1>1, <2>2 DEF Trying
  <2> QED
    BY <2>3 DEF Trial
<1>2. ASSUME \A t \in Threads : job[t].new = NoInst
      PROVE  Trial = NoFile
  BY <1>2 DEF Trial, Trying
<1> QED
  BY <1>1, <1>2 DEF TrialIs

\* A step that keeps the box on trial, its configuration and s.inst is a stutter.
LEMMA Kept ==
  ASSUME IInv, TrialIs, TrialIs',
         \A t \in Threads : job'[t].new = job[t].new,
         \A t \in Threads : job[t].new # NoInst => cfgOf'[job[t].new] = cfgOf[job[t].new]
  PROVE  Trial' = Trial
<1>1. CASE \E t \in Threads : job[t].new # NoInst
  BY <1>1 DEF TrialIs
<1>2. CASE \A t \in Threads : job[t].new = NoInst
  BY <1>2 DEF TrialIs
<1> QED
  BY <1>1, <1>2

\* Closing a box that is neither served nor on trial, or the one that was served.
LEMMA CloseKeeps ==
  ASSUME IInv, TrialIs, TrialIs', NEW i,
         CloseInst(i), \A t \in Threads : job[t].new # NoInst => job[t].new # i,
         \A t \in Threads : job'[t].new = job[t].new
  PROVE  Trial' = Trial
<1>1. \A t \in Threads : job[t].new # NoInst => job[t].new \in Insts
  BY DEF IInv, TypeOK, Job
<1>2. \A t \in Threads : job[t].new # NoInst => cfgOf'[job[t].new] = cfgOf[job[t].new]
  BY <1>1 DEF CloseInst
<1> QED
  BY <1>2, Kept

\* A goroutine that starts a box tries its configuration.
LEMMA StartTries ==
  ASSUME IInv, TrialIs, TrialIs', NEW t \in Threads, pc[t] \in Pipeline, job[t].new = NoInst,
         NEW c \in Configs, StartInst(t, c),
         inst' = inst, lastGood' = lastGood
  PROVE  LG!Try
<1>1. PICK i \in FreeInsts :
        /\ box' = [box EXCEPT ![i] = "up"] /\ cfgOf' = [cfgOf EXCEPT ![i] = c]
        /\ job' = [job EXCEPT ![t].new = i]
  BY DEF StartInst
<1>2. \A u \in Threads : job[u].new = NoInst
  BY Alone
<1>3. Trial = NoFile
  BY <1>2 DEF TrialIs
<1>4. i \in Insts /\ i # NoInst /\ job'[t].new = i /\ cfgOf'[i] = c
  BY <1>1, SupervisorAssumption DEF FreeInsts, IInv, TypeOK, Job
<1>5. Trial' = c
  BY <1>4 DEF TrialIs
<1>6. ServingConfig' = ServingConfig
  <2>1. inst # NoInst => inst # i
    BY <1>1 DEF FreeInsts, IInv, Served
  <2> QED
    BY <1>1, <2>1 DEF ServingConfig, IInv, TypeOK
<1> QED
  BY <1>3, <1>5, <1>6 DEF LG!Try

\* The box on trial is closed: the trial is abandoned.
LEMMA DiscardAbandons ==
  ASSUME IInv, TrialIs', NEW t \in Threads, pc[t] \in Pipeline, job[t].new # NoInst,
         CloseInst(job[t].new), job'[t].new = NoInst,
         \A u \in Threads : u # t => job'[u].new = job[u].new,
         pc[t] \in HolderPCs, inst' = inst, lastGood' = lastGood
  PROVE  LG!Abandon
<1>1. \A u \in Threads : job'[u].new = NoInst
  BY Alone
<1>2. Trial' = NoFile
  BY <1>1 DEF TrialIs
<1>3. ServingConfig' = ServingConfig
  BY DEF ServingConfig, CloseInst, IInv, TypeOK, ThreadInv, Holder
<1> QED
  BY <1>2, <1>3 DEF LG!Abandon

\* A step that moves no box and writes no last-good.json changes nothing LastGood speaks of.
LEMMA Stutters ==
  ASSUME IInv, TrialIs, TrialIs',
         \A t \in Threads : job'[t].new = job[t].new,
         UNCHANGED <<inst, cfgOf, lastGood>>
  PROVE  UNCHANGED LG!vars
<1>1. Trial' = Trial
  BY Kept
<1>2. ServingConfig' = ServingConfig
  BY DEF ServingConfig
<1> QED
  BY <1>1, <1>2 DEF LG!vars

\* Closing s.inst ends the service and leaves the box on trial alone.
LEMMA TakeStops ==
  ASSUME IInv, TrialIs, TrialIs', TakeInstance,
         \A t \in Threads : job'[t].new = job[t].new, lastGood' = lastGood
  PROVE  LG!Stop
<1>1. \A t \in Threads : job[t].new # NoInst => job[t].new # inst
  BY DEF IInv, ThreadInv, Holder
<1>2. Trial' = Trial
  BY <1>1, CloseKeeps DEF TakeInstance
<1>3. ServingConfig' = NoFile
  BY DEF TakeInstance, ServingConfig
<1> QED
  BY <1>2, <1>3 DEF LG!Stop

\* Installing the box on trial puts the last-good configuration to serve.
LEMMA InstallServes ==
  ASSUME IInv, TrialIs, TrialIs', NEW t \in Threads, pc[t] \in {"install", "restoreInstall"},
         inst' = job[t].new, job'[t].new = NoInst,
         \A u \in Threads : u # t => job'[u].new = job[u].new,
         UNCHANGED <<cfgOf, lastGood>>
  PROVE  LG!Serve
<1>1. pc[t] \in Pipeline /\ pc[t] \in HolderPCs /\ job[t].new # NoInst
  BY DEF IInv, ThreadInv, Holder, HolderPCs, PromotingPCs, RestoringPCs, Pipeline
<1>2. cfgOf[job[t].new] = lastGood /\ lastGood # NoFile
  <2>1. CASE pc[t] = "install"
    BY <2>1, StoreAssumption DEF IInv, ThreadInv, Holder, Promoting, Admitted,
       AdmittedPCs, StagedPCs, QuietPCs, PromotingPCs
  <2>2. CASE pc[t] = "restoreInstall"
    BY <2>2 DEF IInv, ThreadInv, Holder, RestoringPCs
  <2> QED
    BY <2>1, <2>2
<1>3. Trial = lastGood
  BY <1>1, <1>2 DEF TrialIs
<1>4. Trial' = NoFile
  <2>1. \A u \in Threads : job'[u].new = NoInst
    BY <1>1, Alone
  <2> QED
    BY <2>1 DEF TrialIs
<1>5. ServingConfig' = lastGood
  BY <1>1, <1>2 DEF ServingConfig
<1> QED
  BY <1>2, <1>3, <1>4, <1>5 DEF LG!Serve

\* The first write of PromoteStaged adopts the configuration on trial.
LEMMA PromoteAdopts ==
  ASSUME IInv, TrialIs, TrialIs', NEW t \in Threads, pc[t] = "promoteRaw", Promote(t)
  PROVE  LG!Adopt
<1>1. lastGood' = staged /\ UNCHANGED <<inst, cfgOf, job>>
  BY DEF Promote, PromoteRaw, memVars, boxVars
<1>2. /\ inst = NoInst /\ job[t].new # NoInst
      /\ cfgOf[job[t].new] = job[t].req.Raw /\ staged = job[t].req.Raw
      /\ job[t].req.Raw \in Configs
  BY DEF IInv, ThreadInv, Quiet, Holder, StagedOwn, Admitted, HolderPCs, PromotingPCs,
     QuietPCs, StagedPCs, AdmittedPCs
<1>3. Trial = job[t].req.Raw
  BY <1>2 DEF TrialIs
<1>4. Trial' = Trial
  BY <1>1, Kept
<1>5. ServingConfig = NoFile /\ ServingConfig' = NoFile
  BY <1>1, <1>2 DEF ServingConfig
<1> QED
  BY <1>1, <1>2, <1>3, <1>4, <1>5, StoreAssumption DEF LG!Adopt

\* Every step of a goroutine inside the pipeline.
LEMMA PipelineMaps ==
  ASSUME IInv, TrialIs, TrialIs', NEW t \in Threads, Step(t)
  PROVE  [LG!Next]_LG!vars
<1>0. /\ job \in [Threads -> Job]
      /\ job[t].new # NoInst <=> pc[t] \in HolderPCs
  BY DEF IInv, TypeOK, ThreadInv, Holder
<1>1. CASE Admit(t) \/ Stage(t) \/ StageFails(t) \/ SetRunning(t) \/ Settle(t) \/ Release(t)
  <2>1. UNCHANGED <<inst, cfgOf, lastGood>>
    BY <1>1 DEF Admit, Stage, StageFails, SetRunning, Settle, Release, WriteStagedRaw,
       WriteStagedMeta, storeVars, memVars, boxVars
  <2>2. \A u \in Threads : job'[u].new = job[u].new
    <3>1. CASE Release(t)
      BY <1>0, <3>1 DEF Release, NoJob, NewJob, HolderPCs, PromotingPCs, RestoringPCs, Job
    <3>2. CASE ~Release(t)
      BY <1>0, <1>1, <3>2 DEF Admit, Stage, StageFails, SetRunning, Settle, Job
    <3> QED
      BY <3>1, <3>2
  <2> QED
    BY <2>1, <2>2, Stutters
<1>2. CASE Take(t)
  BY <1>2, TakeStops DEF Take, storeVars, LG!Next
<1>3. CASE Start(t)
  <2>0. /\ pc[t] \in Pipeline /\ job[t].new = NoInst /\ job[t].req.Raw \in Configs
        /\ UNCHANGED <<inst, lastGood>>
    BY <1>0, <1>3 DEF Start, Pipeline, HolderPCs, PromotingPCs, RestoringPCs, IInv, ThreadInv,
       Admitted, AdmittedPCs, StagedPCs, QuietPCs, storeVars, memVars
  <2>1. CASE StartInst(t, job[t].req.Raw)
    BY <2>0, <2>1, StartTries DEF LG!Next
  <2>2. CASE UNCHANGED <<boxVars, job>>
    BY <2>0, <2>2, Stutters DEF boxVars
  <2> QED
    BY <1>3, <2>1, <2>2 DEF Start
<1>4. CASE Restore(t)
  <2>0. /\ pc[t] \in Pipeline /\ job[t].new = NoInst
        /\ UNCHANGED <<inst, lastGood>>
    BY <1>0, <1>4 DEF Restore, Pipeline, HolderPCs, PromotingPCs, RestoringPCs, storeVars,
       memVars
  <2>1. CASE LastGoodReadable /\ StartInst(t, lastGood)
    <3>1. lastGood \in Configs
      BY <2>1 DEF LastGoodReadable, IInv, TypeOK, StoreTypeOK
    <3> QED
      BY <2>0, <2>1, <3>1, StartTries DEF LG!Next
  <2>2. CASE RestoreFails(t) /\ UNCHANGED boxVars
    <3>1. \A u \in Threads : job'[u].new = job[u].new
      BY <1>0, <2>0, <2>2 DEF RestoreFails, Job
    <3> QED
      BY <2>0, <2>2, <3>1, Stutters DEF boxVars
  <2> QED
    BY <1>4, <2>1, <2>2 DEF Restore
<1>5. CASE Probe(t) \/ RestoreProbe(t) \/ PromoteFails(t)
  <2>0. /\ pc[t] \in Pipeline /\ pc[t] \in HolderPCs /\ job[t].new # NoInst
        /\ UNCHANGED <<inst, lastGood>>
    BY <1>0, <1>5 DEF Probe, RestoreProbe, PromoteFails, Pipeline, HolderPCs, PromotingPCs,
       RestoringPCs, storeVars, memVars
  <2>1. CASE UNCHANGED <<boxVars, job>>
    BY <2>0, <2>1, Stutters DEF boxVars
  <2>2. CASE CloseInst(job[t].new) /\ (\E l : Discard(t, l) \/ RestoreFails(t))
    <3>1. /\ job'[t].new = NoInst
          /\ \A u \in Threads : u # t => job'[u].new = job[u].new
      BY <1>0, <2>2 DEF Discard, RestoreFails, Job
    <3> QED
      BY <2>0, <2>2, <3>1, DiscardAbandons DEF LG!Next
  <2> QED
    BY <1>5, <2>1, <2>2 DEF Probe, RestoreProbe, PromoteFails, Discard
<1>6. CASE Promote(t)
  <2>1. CASE pc[t] = "promoteRaw"
    BY <1>6, <2>1, PromoteAdopts DEF LG!Next
  <2>2. CASE pc[t] # "promoteRaw"
    BY <1>6, <2>2, Stutters DEF Promote, PromoteMeta, PromoteState, memVars, boxVars
  <2> QED
    BY <2>1, <2>2
<1>7. CASE Install(t) \/ RestoreInstall(t)
  <2>1. /\ pc[t] \in {"install", "restoreInstall"} /\ inst' = job[t].new
        /\ UNCHANGED <<cfgOf, lastGood>>
    BY <1>7 DEF Install, RestoreInstall, InstallInstance, storeVars, boxVars
  <2>2. /\ job'[t].new = NoInst
        /\ \A u \in Threads : u # t => job'[u].new = job[u].new
    BY <1>0, <1>7 DEF Install, RestoreInstall, Job
  <2> QED
    BY <2>1, <2>2, InstallServes DEF LG!Next
<1> QED
  BY <1>1, <1>2, <1>3, <1>4, <1>5, <1>6, <1>7 DEF Step

\* The steps of restartLoop, app.Run and watch outside the pipeline.
LEMMA AsideMaps ==
  ASSUME IInv, TrialIs, TrialIs', (\E l \in Loops : RestartStep(l)) \/ MainStep \/ Watch
  PROVE  [LG!Next]_LG!vars
<1>0. job \in [Threads -> Job] /\ Main \in Threads /\ Loops \subseteq Threads
  BY DEF IInv, TypeOK, Threads
<1>1. CASE \E l \in Loops : RestartStep(l)
  <2>1. PICK l \in Loops : RestartStep(l)
    BY <1>1
  <2>2. UNCHANGED <<inst, cfgOf, lastGood>>
    BY <2>1 DEF RestartStep, RestartCheck, RestartAcquire, RestartDone, storeVars, memVars,
       boxVars
  <2>3. job[l].new = NoInst
    BY <1>0, <2>1 DEF RestartStep, RestartCheck, RestartAcquire, RestartDone, IInv, ThreadInv,
       Holder, HolderPCs, PromotingPCs, RestoringPCs
  <2>4. \A u \in Threads : job'[u].new = job[u].new
    BY <1>0, <2>1, <2>3 DEF RestartStep, RestartCheck, RestartAcquire, RestartDone, NoJob,
       NewJob, Job
  <2> QED
    BY <2>2, <2>4, Stutters
<1>2. CASE Boot \/ ShutdownBegin \/ ShutdownSettle
  <2>1. UNCHANGED <<inst, cfgOf, lastGood>>
    BY <1>2 DEF Boot, BeginBoot, ShutdownBegin, ShutdownSettle, storeVars, memVars, boxVars
  <2>2. pc[Main] = "boot" => job[Main].new = NoInst
    BY <1>0 DEF IInv, ThreadInv, Holder, HolderPCs, PromotingPCs, RestoringPCs
  <2>3. \A u \in Threads : job'[u].new = job[u].new
    BY <1>0, <1>2, <2>2 DEF Boot, BeginBoot, ShutdownBegin, ShutdownSettle, NewJob, Job
  <2> QED
    BY <2>1, <2>3, Stutters
<1>3. CASE ShutdownTake
  BY <1>3, TakeStops DEF ShutdownTake, storeVars, LG!Next
<1>4. CASE \E i \in Insts, l \in Loops : WatchDone(l, i)
  BY <1>4, TakeStops DEF WatchDone, TakeInstance, storeVars, LG!Next
<1>5. CASE \E i \in Insts : WatchReturn(i)
  <2>1. PICK i \in Insts : WatchReturn(i)
    BY <1>5
  <2>2. Trial' = Trial
    BY <2>1, CloseKeeps DEF WatchReturn
  <2>3. ServingConfig' = ServingConfig /\ lastGood' = lastGood
    BY <2>1 DEF WatchReturn, CloseInst, ServingConfig, IInv, TypeOK, storeVars, memVars
  <2> QED
    BY <2>2, <2>3 DEF LG!vars
<1> QED
  BY <1>1, <1>2, <1>3, <1>4, <1>5 DEF MainStep, Watch

\* A call begins; the engine, the clients and the signal; a crash.
LEMMA OutsideMaps ==
  ASSUME IInv, TrialIs, TrialIs', (\E t \in Callers : Call(t)) \/ Environment
  PROVE  [LG!Next]_LG!vars
<1>0. job \in [Threads -> Job] /\ Callers \subseteq Threads
  BY DEF IInv, TypeOK, Threads
<1>1. CASE \E t \in Callers : Call(t)
  <2>1. PICK t \in Callers : Call(t)
    BY <1>1
  <2>2. UNCHANGED <<inst, cfgOf, lastGood>>
    BY <2>1 DEF Call, ApplyBegin, StartBox, StopBox, BeginBoot, storeVars, memVars, boxVars
  <2>3. pc[t] = "idle" /\ job[t].new = NoInst
    BY <1>0, <2>1 DEF Call, ApplyBegin, StartBox, StopBox, IInv, ThreadInv, Holder, HolderPCs,
       PromotingPCs, RestoringPCs
  <2>4. \A u \in Threads : job'[u].new = job[u].new
    BY <1>0, <2>1, <2>3 DEF Call, ApplyBegin, StartBox, StopBox, BeginBoot, NewJob, Job
  <2> QED
    BY <2>2, <2>4, Stutters
<1>2. CASE Signal \/ (\E t \in Callers : Cancel(t)) \/ (\E i \in Insts : Die(i))
  BY <1>2, Stutters DEF Signal, Cancel, Die, storeVars, memVars, boxVars
<1>3. CASE Crash
  <2>1. \A u \in Threads : job'[u].new = NoInst
    BY <1>3 DEF Crash, NoJob, NewJob
  <2>2. Trial' = NoFile /\ ServingConfig' = NoFile /\ lastGood' = lastGood
    BY <1>3, <2>1 DEF Crash, TrialIs, ServingConfig, storeVars
  <2> QED
    BY <2>2 DEF LG!Next, LG!Crash
<1> QED
  BY <1>1, <1>2, <1>3 DEF Environment

\* A fresh process on an empty data_dir: nothing is good, nothing serves.
LEMMA InitMaps == Init /\ TrialIs => LG!Init
BY DEF Init, StoreInit, TrialIs, NoJob, NewJob, ServingConfig, LG!Init

\* Every step maps to a step of LastGood or to a stutter.
LEMMA StepMaps == IInv /\ TrialIs /\ TrialIs' /\ [Next]_vars => [LG!Next]_LG!vars
<1> SUFFICES ASSUME IInv, TrialIs, TrialIs', [Next]_vars PROVE [LG!Next]_LG!vars
  OBVIOUS
<1>1. CASE UNCHANGED vars
  BY <1>1, Stutters DEF vars, storeVars, memVars, boxVars
<1>2. CASE Next
  BY <1>2, PipelineMaps, AsideMaps, OutsideMaps DEF Next
<1> QED
  BY <1>1, <1>2

\* Supervisor implements LastGood: a configuration is tried in the engine before it becomes
\* last-good, becomes so only while nothing serves, and nothing else is ever put to serve,
\* whatever the requests, the faults and the crashes.
THEOREM Implements == Spec => ImplementsLastGood
<1>1. Spec => []TrialIs
  BY OneTrial, Invariance, PTL
<1>2. Spec => LG!Init
  BY <1>1, InitMaps, PTL DEF Spec
<1>3. Spec => [][LG!Next]_LG!vars
  BY <1>1, Invariance, StepMaps, PTL DEF Spec
<1> QED
  BY <1>2, <1>3 DEF ImplementsLastGood, LG!Spec

=============================================================================
