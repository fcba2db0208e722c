----------------------------- MODULE Supervisor -----------------------------
(***************************************************************************)
(* internal/supervisor: the owner of the sing-box instance and of the      *)
(* last-good apply pipeline.  Goroutines of four kinds step through it:    *)
(*                                                                         *)
(*   Callers  HTTP handlers, the subscribe tick, the control plane: Apply, *)
(*            StartBox and StopBox, each with a context that may be        *)
(*            cancelled by the client;                                     *)
(*   Main     app.Run: BootLastGood, then Shutdown after a signal;         *)
(*   Loops    the restartLoop goroutines that watch() turns into when an   *)
(*            instance's Done fires;                                       *)
(*   the engine, which may fail a Start or lose a running box.             *)
(*                                                                         *)
(* One action is one critical section of s.mu, one call of the engine or   *)
(* one file write; everything between two of them may interleave.  The     *)
(* applying flag, not s.mu, is what serialises the pipeline.               *)
(*                                                                         *)
(* takeInstance and the Close that always follows it are one step.  watch  *)
(* keeps no state while it waits: a watcher whose context was cancelled    *)
(* watches an instance that is no longer s.inst, and returns either way.   *)
(***************************************************************************)
EXTENDS ConfigStore, FiniteSets

CONSTANTS
  Insts,         \* identities of box instances; bounds the simultaneous ones
  NoInst,        \* the nil instance
  Callers,       \* goroutines that call Apply, StartBox and StopBox
  Main,          \* the goroutine of app.Run
  Loops,         \* goroutines available to watch/restartLoop
  Valid,         \* the configurations engine.Validate accepts
  Unstartable,   \* those whose Start always fails (say a port held elsewhere)
  Binds,         \* the listen ports of each configuration
  Requests,      \* the ApplyRequests that callers make
  Ops,           \* which of "apply", "start", "stop" callers use
  Faults,        \* which of "start", "die", "cancel", "disk", "shutdown" occur
  ProbeEnabled,  \* opts.Probe > 0
  MaxRevision,   \* bound: no new content is applied once the counter is there
  MaxBackoff,    \* the cap of the restart backoff, in seconds
  MaxCrashes     \* bound: how often the process dies and is started again

VARIABLES
  state, inst, contentSHA, revision, applying, shutdown, backoff,
  box,      \* what each instance is: "free", "up", or "dead" (Done has fired)
  cfgOf,    \* the configuration an instance was started with
  pc,       \* where each goroutine is
  job,      \* the locals of its current operation
  ctxDone,  \* its context has been cancelled
  crashes

memVars  == <<state, inst, contentSHA, revision, applying, shutdown, backoff>>
boxVars  == <<box, cfgOf>>
vars     == <<storeVars, memVars, boxVars, pc, job, ctxDone, crashes>>

States  == {"Stopped", "Starting", "Running", "Applying", "Degraded", "RolledBack"}
Threads == Callers \cup {Main} \cup Loops

\* ApplyRequest: the body (NoFile when empty), the If-Match mode and the flag.
Request == [Raw : Configs \cup {NoFile}, MatchMode : {"none", "rev", "sha"},
            MatchRev : Nat, MatchSHA : Hashes \cup {NoFile}, Force : BOOLEAN]

NoReq  == [Raw |-> NoFile, MatchMode |-> "none", MatchRev |-> 0,
           MatchSHA |-> NoFile, Force |-> FALSE]

\* goal: the state the operation ends with; new: the instance it has started;
\* res: the result Apply will return.
Job    == [op : {"none", "apply", "start", "stop", "loop"}, req : Request,
           goal : States, new : Insts \cup {NoInst}, res : {"ok", "noop", "fail"}]

NewJob(o, r, g) == [op |-> o, req |-> r, goal |-> g, new |-> NoInst, res |-> "fail"]
NoJob           == NewJob("none", NoReq, "Stopped")

\* The control points at which a goroutine holds the applying flag.
Pipeline == {"admit", "stageRaw", "stageMeta", "take", "stopTake", "start",
             "probe", "promoteRaw", "promoteMeta", "promoteState", "install",
             "running", "restore", "restoreProbe", "restoreInstall", "restored",
             "restoreFailed", "settle", "release"}
Labels   == Pipeline \cup {"idle", "check", "sleep", "boot", "shutTake",
                           "shutSettle", "exited"}

ASSUME SupervisorAssumption ==
  /\ NoInst \notin Insts
  /\ IsFiniteSet(Insts) /\ IsFiniteSet(Loops)
  /\ Main \notin Callers \cup Loops
  /\ Callers \cap Loops = {}
  /\ Valid \subseteq Configs
  /\ Requests \subseteq Request
  /\ MaxRevision \in Nat /\ MaxCrashes \in Nat /\ MaxBackoff \in Nat \ {0}
  /\ ProbeEnabled \in BOOLEAN

TypeOK ==
  /\ StoreTypeOK
  /\ state      \in States
  /\ inst       \in Insts \cup {NoInst}
  /\ contentSHA \in Hashes \cup {NoFile}
  /\ revision   \in Nat
  /\ applying   \in BOOLEAN
  /\ shutdown   \in BOOLEAN
  /\ backoff    \in 1..MaxBackoff
  /\ box        \in [Insts -> {"free", "up", "dead"}]
  /\ cfgOf      \in [Insts -> Configs \cup {NoFile}]
  /\ pc         \in [Threads -> Labels]
  /\ job        \in [Threads -> Job]
  /\ ctxDone    \in [Threads -> BOOLEAN]
  /\ crashes    \in Nat

\* A fresh process on an empty data_dir; app.Run is about to boot last-good.
Init ==
  /\ StoreInit
  /\ state = "Stopped" /\ inst = NoInst
  /\ contentSHA = NoFile /\ revision = 0
  /\ applying = FALSE /\ shutdown = FALSE
  /\ backoff = 1
  /\ box = [i \in Insts |-> "free"] /\ cfgOf = [i \in Insts |-> NoFile]
  /\ pc = [t \in Threads |-> IF t = Main THEN "boot" ELSE "idle"]
  /\ job = [t \in Threads |-> NoJob]
  /\ ctxDone = [t \in Threads |-> FALSE]
  /\ crashes = 0

-----------------------------------------------------------------------------
(* Instances *)

Goto(t, l) == pc' = [pc EXCEPT ![t] = l]

Up(i) == box[i] = "up"

\* The ports an Engine.Start of raw needs are free.
PortsFree(raw) == \A i \in Insts : Up(i) => Binds[cfgOf[i]] \cap Binds[raw] = {}

FreeInsts == {i \in Insts : box[i] = "free"}

CanStart(raw)  == raw \notin Unstartable /\ PortsFree(raw) /\ FreeInsts # {}
MayFail(raw)   == "start" \in Faults \/ ~CanStart(raw)

\* Engine.Start as goroutine t: a new box of configuration raw.
StartInst(t, raw) ==
  /\ CanStart(raw)
  /\ \E i \in FreeInsts :
       /\ box' = [box EXCEPT ![i] = "up"]
       /\ cfgOf' = [cfgOf EXCEPT ![i] = raw]
       /\ job' = [job EXCEPT ![t].new = i]

\* Instance.Close; closing the nil instance does nothing.
CloseInst(i) ==
  /\ box' = [j \in Insts |-> IF j = i THEN "free" ELSE box[j]]
  /\ cfgOf' = [j \in Insts |-> IF j = i THEN NoFile ELSE cfgOf[j]]

TakeInstance ==
  /\ inst' = NoInst
  /\ CloseInst(inst)

\* installInstance: the previous s.inst, if any, is overwritten, not closed.
InstallInstance(t) ==
  /\ inst' = job[t].new
  /\ contentSHA' = lastGoodMeta.ContentSHA256
  /\ revision' = lastGoodMeta.Revision

\* probe: the settle timer, ctx.Done and inst.Done are ready in any order.
ProbeMayFail(t) == ProbeEnabled /\ (ctxDone[t] \/ box[job[t].new] = "dead")

-----------------------------------------------------------------------------
(* Apply *)

\* app.Run starts the API and the schedulers once BootLastGood has returned.
Serving == pc[Main] \in {"idle", "shutTake", "shutSettle"}

\* The caller gets ErrConflict, and nothing changes, while applying is set.
ApplyBegin(t, r) ==
  /\ "apply" \in Ops /\ pc[t] = "idle" /\ Serving
  /\ ~shutdown /\ ~applying
  /\ agentState < MaxRevision \/ r.Raw = NoFile
  /\ applying' = TRUE
  /\ state' = IF state \in {"Running", "RolledBack"} THEN "Applying" ELSE "Starting"
  /\ job' = [job EXCEPT ![t] = NewJob("apply", r, state)]
  /\ ctxDone' = [ctxDone EXCEPT ![t] = FALSE]
  /\ Goto(t, "admit")
  /\ UNCHANGED <<storeVars, inst, contentSHA, revision, shutdown, backoff, boxVars, crashes>>

\* Variant: If-Match compares hashes only.
MatchFails_NoRevision(r) == r.MatchMode = "sha" /\ r.MatchSHA # contentSHA

MatchFails(r) ==
  \/ r.MatchMode = "rev" /\ r.MatchRev # revision
  \/ r.MatchMode = "sha" /\ r.MatchSHA # contentSHA

\* The idempotent short cut: this content is what runs already.
Same(t) ==
  /\ ~job[t].req.Force
  /\ Hash(job[t].req.Raw) = contentSHA
  /\ inst # NoInst
  /\ job[t].goal \in {"Running", "RolledBack"}

\* Empty body, If-Match, no-op, Validate: nothing is written before they pass.
Admit(t) ==
  /\ pc[t] = "admit"
  /\ LET r == job[t].req IN
       \/ /\ r.Raw = NoFile \/ MatchFails(r) \/ (~Same(t) /\ r.Raw \notin Valid)
          /\ Goto(t, "settle")
          /\ UNCHANGED job
       \/ /\ r.Raw # NoFile /\ ~MatchFails(r) /\ Same(t)
          /\ job' = [job EXCEPT ![t].goal = "Running", ![t].res = "noop"]
          /\ Goto(t, "settle")
       \/ /\ r.Raw \in Valid /\ ~MatchFails(r) /\ ~Same(t)
          /\ Goto(t, "stageRaw")
          /\ UNCHANGED job
  /\ UNCHANGED <<storeVars, memVars, boxVars, ctxDone, crashes>>

\* WriteStaged; an error leaves the old box running.
StageFails(t) ==
  /\ "disk" \in Faults
  /\ pc[t] \in {"stageRaw", "stageMeta"}
  /\ Goto(t, "settle")
  /\ UNCHANGED <<storeVars, memVars, boxVars, job, ctxDone, crashes>>

Stage(t) ==
  /\ \/ pc[t] = "stageRaw"  /\ WriteStagedRaw(job[t].req.Raw)  /\ Goto(t, "stageMeta")
     \/ pc[t] = "stageMeta" /\ WriteStagedMeta(job[t].req.Raw) /\ Goto(t, "take")
  /\ UNCHANGED <<memVars, boxVars, job, ctxDone, crashes>>

\* Quiesce the old box, in Apply and in StopBox.
Take(t) ==
  /\ \/ pc[t] = "take"     /\ Goto(t, "start")
     \/ pc[t] = "stopTake" /\ Goto(t, "settle")
  /\ TakeInstance
  /\ UNCHANGED <<storeVars, state, contentSHA, revision, applying, shutdown,
                 backoff, job, ctxDone, crashes>>

\* Variant: the error of Start is dropped and the pipeline goes on.
Start_ErrorDropped(t) ==
  /\ pc[t] = "start"
  /\ \/ StartInst(t, job[t].req.Raw) /\ Goto(t, "probe")
     \/ MayFail(job[t].req.Raw) /\ Goto(t, "promoteRaw") /\ UNCHANGED <<boxVars, job>>
  /\ UNCHANGED <<storeVars, memVars, ctxDone, crashes>>

\* Variant: a failed Start is reported without the restore.
Start_NoRestore(t) ==
  /\ pc[t] = "start"
  /\ \/ StartInst(t, job[t].req.Raw) /\ Goto(t, "probe")
     \/ MayFail(job[t].req.Raw) /\ Goto(t, "settle") /\ UNCHANGED <<boxVars, job>>
  /\ UNCHANGED <<storeVars, memVars, ctxDone, crashes>>

Start(t) ==
  /\ pc[t] = "start"
  /\ \/ StartInst(t, job[t].req.Raw) /\ Goto(t, "probe")
     \/ MayFail(job[t].req.Raw) /\ Goto(t, "restore") /\ UNCHANGED <<boxVars, job>>
  /\ UNCHANGED <<storeVars, memVars, ctxDone, crashes>>

\* Variant: the instance is dropped without Close.
Discard_NoClose(t, l) ==
  /\ job' = [job EXCEPT ![t].new = NoInst]
  /\ Goto(t, l)
  /\ UNCHANGED boxVars

\* A new instance that failed its probe, or could not be promoted, is closed.
Discard(t, l) ==
  /\ CloseInst(job[t].new)
  /\ job' = [job EXCEPT ![t].new = NoInst]
  /\ Goto(t, l)

Probe(t) ==
  /\ pc[t] = "probe"
  /\ \/ Goto(t, "promoteRaw") /\ UNCHANGED <<boxVars, job>>
     \/ ProbeMayFail(t) /\ Discard(t, "restore")
  /\ UNCHANGED <<storeVars, memVars, ctxDone, crashes>>

\* PromoteStaged, one file per step; any write may fail.
Promote(t) ==
  /\ \/ pc[t] = "promoteRaw"   /\ PromoteRaw   /\ Goto(t, "promoteMeta")
     \/ pc[t] = "promoteMeta"  /\ PromoteMeta  /\ Goto(t, "promoteState")
     \/ pc[t] = "promoteState" /\ PromoteState /\ Goto(t, "install")
  /\ UNCHANGED <<memVars, boxVars, job, ctxDone, crashes>>

\* Variant: the new box is kept although its promotion failed.
PromoteFails_KeepsBox(t) ==
  /\ "disk" \in Faults
  /\ pc[t] \in {"promoteRaw", "promoteMeta", "promoteState"}
  /\ inst' = job[t].new
  /\ job' = [job EXCEPT ![t].new = NoInst]
  /\ Goto(t, "settle")
  /\ UNCHANGED <<storeVars, state, contentSHA, revision, applying, shutdown,
                 backoff, boxVars, ctxDone, crashes>>

PromoteFails(t) ==
  /\ "disk" \in Faults
  /\ pc[t] \in {"promoteRaw", "promoteMeta", "promoteState"}
  /\ Discard(t, "restore")
  /\ UNCHANGED <<storeVars, memVars, ctxDone, crashes>>

Install(t) ==
  /\ pc[t] = "install"
  /\ InstallInstance(t)
  /\ job' = [job EXCEPT ![t].new = NoInst]
  /\ Goto(t, "running")
  /\ UNCHANGED <<storeVars, state, applying, shutdown, backoff,
                 boxVars, ctxDone, crashes>>

\* Success of Apply or of BootLastGood.
SetRunning(t) ==
  /\ pc[t] = "running"
  /\ state' = "Running"
  /\ backoff' = 1
  /\ job' = [job EXCEPT ![t].res = "ok"]
  /\ Goto(t, "release")
  /\ UNCHANGED <<storeVars, inst, contentSHA, revision, applying, shutdown, boxVars, ctxDone, crashes>>

\* setState of an operation that ends without installing a promoted box.
Settle(t) ==
  /\ pc[t] = "settle"
  /\ state' = job[t].goal
  /\ Goto(t, "release")
  /\ UNCHANGED <<storeVars, inst, contentSHA, revision, applying, shutdown,
                 backoff, boxVars, job, ctxDone, crashes>>

\* Variant: an early return that forgets the deferred reset.
Release_FlagKept(t) ==
  /\ pc[t] = "release"
  /\ applying' = (job[t].op = "apply" /\ job[t].res = "fail")
  /\ job' = [job EXCEPT ![t] = NoJob]
  /\ Goto(t, "idle")
  /\ UNCHANGED <<storeVars, state, inst, contentSHA, revision, shutdown, backoff,
                 boxVars, ctxDone, crashes>>

\* recordApply (LastApply and LastError are reporting only and left out) and the
\* deferred reset of the flag.
Release(t) ==
  /\ pc[t] = "release"
  /\ applying' = FALSE
  /\ job' = [job EXCEPT ![t] = NoJob]
  /\ Goto(t, "idle")
  /\ UNCHANGED <<storeVars, state, inst, contentSHA, revision, shutdown, backoff,
                 boxVars, ctxDone, crashes>>

-----------------------------------------------------------------------------
(* restoreLastGood, inside Apply, BootLastGood/StartBox and restartLoop *)

\* Variant: the previous state is reported although nothing was restored.
RestoreFails_StateKept(t) ==
  /\ job' = [job EXCEPT ![t].new = NoInst]
  /\ Goto(t, IF job[t].op = "loop" THEN "restoreFailed" ELSE "settle")

\* Where a failed restore leads: the loop retries, the others end Stopped.
RestoreFails(t) ==
  /\ job' = [job EXCEPT ![t].goal = "Stopped", ![t].new = NoInst]
  /\ Goto(t, IF job[t].op = "loop" THEN "restoreFailed" ELSE "settle")

Restore(t) ==
  /\ pc[t] = "restore"
  /\ \/ LastGoodReadable /\ StartInst(t, lastGood) /\ Goto(t, "restoreProbe")
     \/ /\ LastGoodReadable => MayFail(lastGood)
        /\ RestoreFails(t)
        /\ UNCHANGED boxVars
  /\ UNCHANGED <<storeVars, memVars, ctxDone, crashes>>

RestoreProbe(t) ==
  /\ pc[t] = "restoreProbe"
  /\ \/ Goto(t, "restoreInstall") /\ UNCHANGED <<boxVars, job>>
     \/ ProbeMayFail(t) /\ CloseInst(job[t].new) /\ RestoreFails(t)
  /\ UNCHANGED <<storeVars, memVars, ctxDone, crashes>>

RestoreInstall(t) ==
  /\ pc[t] = "restoreInstall"
  /\ InstallInstance(t)
  /\ job' = [job EXCEPT ![t].goal = "RolledBack", ![t].new = NoInst]
  /\ Goto(t, CASE job[t].op = "apply" -> "settle"
                [] job[t].op = "start" -> "running"
                [] OTHER -> "restored")
  /\ UNCHANGED <<storeVars, state, applying, shutdown, backoff,
                 boxVars, ctxDone, crashes>>

-----------------------------------------------------------------------------
(* BootLastGood, StartBox, StopBox *)

\* BootLastGood up to the restore; neither it nor StopBox looks at shutdown.
BeginBoot(t) ==
  /\ HasLastGood /\ ~applying
  /\ applying' = TRUE
  /\ state' = "Starting"
  /\ job' = [job EXCEPT ![t] = NewJob("start", NoReq, "Stopped")]
  /\ Goto(t, "restore")
  /\ UNCHANGED <<storeVars, inst, contentSHA, revision, shutdown, backoff, boxVars, crashes>>

StartBox(t) ==
  /\ "start" \in Ops /\ pc[t] = "idle" /\ Serving
  /\ BeginBoot(t)
  /\ ctxDone' = [ctxDone EXCEPT ![t] = FALSE]

\* Variant: StopBox does not ask whether an apply is in progress.
StopBox_NoConflict(t) ==
  /\ "stop" \in Ops /\ pc[t] = "idle" /\ Serving
  /\ applying' = TRUE
  /\ job' = [job EXCEPT ![t] = NewJob("stop", NoReq, "Stopped")]
  /\ Goto(t, "stopTake")
  /\ UNCHANGED <<storeVars, state, inst, contentSHA, revision, shutdown, backoff,
                 boxVars, ctxDone, crashes>>

StopBox(t) ==
  /\ "stop" \in Ops /\ pc[t] = "idle" /\ Serving
  /\ ~applying
  /\ applying' = TRUE
  /\ job' = [job EXCEPT ![t] = NewJob("stop", NoReq, "Stopped")]
  /\ Goto(t, "stopTake")
  /\ UNCHANGED <<storeVars, state, inst, contentSHA, revision, shutdown, backoff, boxVars, ctxDone, crashes>>

\* app.Run: boot if there is a last-good configuration, then serve.
Boot ==
  /\ pc[Main] = "boot"
  /\ \/ BeginBoot(Main)
     \/ /\ ~HasLastGood
        /\ Goto(Main, "idle")
        /\ UNCHANGED <<storeVars, memVars, boxVars, job, crashes>>
  /\ UNCHANGED ctxDone

-----------------------------------------------------------------------------
(* watch and restartLoop *)

\* The watcher of i sees Done while i is still s.inst.
WatchDone(l, i) ==
  /\ pc[l] = "idle" /\ box[i] = "dead"
  /\ inst = i /\ ~shutdown
  /\ inst' = NoInst
  /\ state' = "Degraded"
  /\ CloseInst(i)
  /\ Goto(l, "check")
  /\ UNCHANGED <<storeVars, contentSHA, revision, applying, shutdown, backoff, job, ctxDone, crashes>>

\* The watcher of an instance that was replaced returns.
WatchReturn(i) ==
  /\ box[i] = "dead" /\ inst # i
  /\ \A t \in Threads : job[t].new # i
  /\ CloseInst(i)
  /\ UNCHANGED <<storeVars, memVars, pc, job, ctxDone, crashes>>

\* The loop gives up when it finds an apply in progress or a shutdown, before
\* and again after the backoff sleep; otherwise it takes the flag.
RestartCheck(l) ==
  /\ pc[l] = "check"
  /\ Goto(l, IF shutdown \/ applying THEN "idle" ELSE "sleep")
  /\ UNCHANGED <<storeVars, memVars, boxVars, job, ctxDone, crashes>>

RestartAcquire(l) ==
  /\ pc[l] = "sleep"
  /\ IF shutdown \/ applying
     THEN /\ Goto(l, "idle")
          /\ UNCHANGED <<applying, job>>
     ELSE /\ applying' = TRUE
          /\ job' = [job EXCEPT ![l] = NewJob("loop", NoReq, "Stopped")]
          /\ Goto(l, "restore")
  /\ UNCHANGED <<storeVars, state, inst, contentSHA, revision, shutdown, backoff, boxVars, ctxDone, crashes>>

\* Variant: the backoff is doubled without its cap.
RestartDone_NoCap(l) ==
  /\ \/ /\ pc[l] = "restored"
        /\ state' = "Running" /\ backoff' = 1
        /\ Goto(l, "idle")
     \/ /\ pc[l] = "restoreFailed"
        /\ state' = "Degraded" /\ backoff' = 2 * backoff
        /\ Goto(l, "check")
  /\ applying' = FALSE
  /\ job' = [job EXCEPT ![l] = NoJob]
  /\ UNCHANGED <<storeVars, inst, contentSHA, revision, shutdown,
                 boxVars, ctxDone, crashes>>

\* Both ends of one round release the flag and set the state in one section.
RestartDone(l) ==
  /\ \/ /\ pc[l] = "restored"
        /\ state' = "Running" /\ backoff' = 1
        /\ Goto(l, "idle")
     \/ /\ pc[l] = "restoreFailed"
        /\ state' = "Degraded"
        /\ backoff' = IF 2 * backoff > MaxBackoff THEN MaxBackoff ELSE 2 * backoff
        /\ Goto(l, "check")
  /\ applying' = FALSE
  /\ job' = [job EXCEPT ![l] = NoJob]
  /\ UNCHANGED <<storeVars, inst, contentSHA, revision, shutdown,
                 boxVars, ctxDone, crashes>>

-----------------------------------------------------------------------------
(* Shutdown: raise the flag, close the box, report Stopped; app.Run returns *)

\* Variant: polls for a moment without an operation, which may never come.
ShutdownBegin_PollsApply ==
  /\ pc[Main] = "idle" /\ ctxDone[Main] /\ ~applying
  /\ shutdown' = TRUE
  /\ Goto(Main, "shutTake")
  /\ UNCHANGED <<storeVars, state, inst, contentSHA, revision, applying, backoff, boxVars, job, ctxDone, crashes>>

ShutdownBegin ==
  /\ pc[Main] = "idle" /\ ctxDone[Main]
  /\ shutdown' = TRUE
  /\ Goto(Main, "shutTake")
  /\ UNCHANGED <<storeVars, state, inst, contentSHA, revision, applying, backoff, boxVars, job, ctxDone, crashes>>

ShutdownTake ==
  /\ pc[Main] = "shutTake"
  /\ TakeInstance
  /\ Goto(Main, "shutSettle")
  /\ UNCHANGED <<storeVars, state, contentSHA, revision, applying, shutdown,
                 backoff, job, ctxDone, crashes>>

ShutdownSettle ==
  /\ pc[Main] = "shutSettle"
  /\ state' = "Stopped"
  /\ Goto(Main, "exited")
  /\ UNCHANGED <<storeVars, inst, contentSHA, revision, applying, shutdown,
                 backoff, boxVars, job, ctxDone, crashes>>

-----------------------------------------------------------------------------
(* The environment *)

\* A client drops its request.
Cancel(t) ==
  /\ "cancel" \in Faults
  /\ pc[t] # "idle" /\ job[t].op \in {"apply", "start"} /\ ~ctxDone[t]
  /\ ctxDone' = [ctxDone EXCEPT ![t] = TRUE]
  /\ UNCHANGED <<storeVars, memVars, boxVars, pc, job, crashes>>

\* SIGTERM cancels the context of app.Run.
Signal ==
  /\ "shutdown" \in Faults /\ ~ctxDone[Main]
  /\ ctxDone' = [ctxDone EXCEPT ![Main] = TRUE]
  /\ UNCHANGED <<storeVars, memVars, boxVars, pc, job, crashes>>

\* An instance's Done fires by itself.  (Bound: a goroutine of Loops is left
\* for every dead instance.)
Die(i) ==
  /\ "die" \in Faults /\ Up(i)
  /\ Cardinality({l \in Loops : pc[l] = "idle"})
       > Cardinality({j \in Insts : box[j] = "dead"})
  /\ box' = [box EXCEPT ![i] = "dead"]
  /\ UNCHANGED <<storeVars, memVars, cfgOf, pc, job, ctxDone, crashes>>

\* Variant: the last-good meta is not consulted.
BootRevision_CounterOnly == agentState

\* NewWithOptions: the counter, overridden by the last-good meta.
BootRevision == IF LastGoodReadable THEN lastGoodMeta.Revision ELSE agentState

\* The process is gone (a crash, or the exit after Shutdown) and a new one is
\* started: NewWithOptions rebuilds the memory from the files.
Crash ==
  /\ crashes < MaxCrashes
  /\ crashes' = crashes + 1
  /\ state' = "Stopped" /\ inst' = NoInst
  /\ contentSHA' = IF LastGoodReadable THEN lastGoodMeta.ContentSHA256 ELSE NoFile
  /\ revision' = BootRevision
  /\ applying' = FALSE /\ shutdown' = FALSE
  /\ backoff' = 1
  /\ box' = [i \in Insts |-> "free"] /\ cfgOf' = [i \in Insts |-> NoFile]
  /\ pc' = [t \in Threads |-> IF t = Main THEN "boot" ELSE "idle"]
  /\ job' = [t \in Threads |-> NoJob]
  /\ ctxDone' = [t \in Threads |-> FALSE]
  /\ UNCHANGED storeVars

-----------------------------------------------------------------------------
\* What goroutine t does next inside the operation it has begun.
Step(t) ==
  \/ Admit(t) \/ Stage(t) \/ StageFails(t) \/ Take(t) \/ Start(t) \/ Probe(t)
  \/ Promote(t) \/ PromoteFails(t) \/ Install(t) \/ SetRunning(t) \/ Settle(t)
  \/ Release(t) \/ Restore(t) \/ RestoreProbe(t) \/ RestoreInstall(t)

RestartStep(l) == RestartCheck(l) \/ RestartAcquire(l) \/ RestartDone(l)

MainStep == Boot \/ ShutdownBegin \/ ShutdownTake \/ ShutdownSettle

Watch == \E i \in Insts : WatchReturn(i) \/ \E l \in Loops : WatchDone(l, i)

Call(t) == (\E r \in Requests : ApplyBegin(t, r)) \/ StartBox(t) \/ StopBox(t)

Environment ==
  Signal \/ Crash \/ (\E t \in Callers : Cancel(t)) \/ (\E i \in Insts : Die(i))

\* Once app.Run has returned nothing happens before the next process.
Next ==
  \/ /\ pc[Main] # "exited"
     /\ \/ \E t \in Threads : Step(t)
        \/ \E l \in Loops : RestartStep(l)
        \/ MainStep \/ Watch
        \/ \E t \in Callers : Call(t)
  \/ Environment

Spec == Init /\ [][Next]_vars

\* A goroutine that can run does run; clients and faults need not act.
Fairness ==
  /\ \A t \in Threads : WF_vars(pc[Main] # "exited" /\ Step(t))
  /\ \A l \in Loops : WF_vars(pc[Main] # "exited" /\ RestartStep(l))
  /\ WF_vars(pc[Main] # "exited" /\ MainStep)
  /\ WF_vars(pc[Main] # "exited" /\ Watch)

FairSpec == Spec /\ Fairness

-----------------------------------------------------------------------------
(* Properties *)

\* The applying flag is a lock: exactly one goroutine is inside the pipeline
\* of Apply, BootLastGood, StopBox or restartLoop while it is set, none while
\* it is clear, although it is taken and dropped in many places.
Mutex ==
  /\ applying <=> \E t \in Threads : pc[t] \in Pipeline
  /\ \A t, u \in Threads : pc[t] \in Pipeline /\ pc[u] \in Pipeline => t = u

\* The box that serves was started from the bytes now in last-good.json, in the
\* middle of an operation too and whatever write failed, client vanished or
\* process died on the way: a restart would bring back the same dataplane.
RunningIsLastGood == inst # NoInst => cfgOf[inst] = lastGood

\* Every live box is s.inst or the one the current operation has just started:
\* no box keeps its ports and its traffic while nothing can close it.
NoOrphan == \A i \in Insts : Up(i) => i = inst \/ \E t \in Threads : job[t].new = i

\* An apply that reports success has promoted its own bytes, with their hash
\* and the new counter, and Status shows exactly that.
OkMeansPromoted ==
  \A t \in Threads : pc[t] = "release" /\ job[t].op = "apply" /\ job[t].res = "ok" =>
    /\ lastGood = job[t].req.Raw
    /\ lastGoodMeta = [ContentSHA256 |-> Hash(lastGood), Revision |-> agentState]
    /\ contentSHA = Hash(lastGood) /\ revision = agentState

\* A dataplane reported Running or RolledBack is there (boxes that die by
\* themselves aside), until the process shuts down.
StateHonest ==
  ~applying /\ ~shutdown /\ state \in {"Running", "RolledBack"} => inst # NoInst

\* With a readable last-good configuration, and nobody calling StopBox, every
\* operation ends with a box that serves: a failed apply costs no dataplane.
LastGoodServes ==
  Serving /\ ~shutdown /\ ~applying /\ LastGoodReadable => inst # NoInst /\ Up(inst)

\* last-good.json only ever receives the configuration of a box that the same
\* operation has started: an untried configuration never becomes last-good.
PromotedWasStarted ==
  [][lastGood' # lastGood =>
       \E t \in Threads : /\ job[t].new # NoInst
                          /\ cfgOf[job[t].new] = lastGood'
                          /\ job[t].req.Raw = lastGood']_vars

\* The revision a client sees never goes back, across restarts and half
\* finished promotes too.
RevisionMonotone == [][revision' >= revision]_vars

\* An apply conditional on a revision replaces exactly that revision: nobody
\* else has promoted between its If-Match check and its own promotion.
IfMatchHonoured ==
  [][\A t \in Threads :
       /\ pc[t] = "install" /\ pc'[t] = "running"
       /\ job[t].req.MatchMode = "rev"
       => revision = job[t].req.MatchRev]_vars

\* No operation keeps the flag for ever: a later request is not refused with
\* 409 for good, unless the process has exited.
FlagReleased == applying ~> ~applying \/ pc[Main] = "exited"

\* A signal ends the process, whatever boots, applies or retries are under way.
ShutdownCompletes == ctxDone[Main] ~> pc[Main] = "exited" \/ ~ctxDone[Main]

=============================================================================
