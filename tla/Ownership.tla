----------------------------- MODULE Ownership -----------------------------
(***************************************************************************)
(* The writers of the dataplane configuration and the ownership protocol   *)
(* between them (ADR 0008): the management API's handlers (PUT /v1/config, *)
(* POST and DELETE /v1/subscribe, refresh), the control plane's activate   *)
(* and deactivate of inbound sets and its eligibility ticker, the Run loop *)
(* of the subscribe schedule, and the reconciliation at boot.              *)
(*                                                                         *)
(* Every writer reaches the box through supervisor.Apply, which is atomic  *)
(* here: it either installs the configuration or leaves the running one    *)
(* (Supervisor shows that, and that applies do not overlap; a conflict is  *)
(* one of the failures).  state.json is loaded and saved by separate calls *)
(* with no lock around the two.  sets.json does not change, the WireGuard  *)
(* hub is off and no TLS profile is managed by ACME.                       *)
(***************************************************************************)
EXTENDS ConfigOwner, SubscribeManager, FiniteSets

CONSTANTS
  Handlers,    \* goroutines of the HTTP server
  Sched,       \* the goroutine of subscribe.Manager.Run
  Ticker,      \* the goroutine of controlplane.Service.Run
  Main,        \* the goroutine of app.Run
  Sets,        \* the names of the inbound sets
  Ops,         \* the requests clients make
  Tickers,     \* {Ticker}, or {} when users never change eligibility
  Faults,      \* which of "disk", "apply", "fetch" fail
  MaxFaults,   \* bound: how many writes fail
  MaxCrashes,  \* bound: how often the process dies and is started again
  MaxRequests  \* bound: how many requests and eligibility changes there are

VARIABLES
  active,    \* the active_sets of controlplane/state.json
  running,   \* the configuration last applied: its source and, of the control
             \* plane, the sets it was built from
  cpMu,      \* controlplane.Service.mu is held
  pc, job,   \* where each goroutine is, and its locals
  faults, crashes, requests,
  overlap    \* history: a request has been at work during a scheduled fetch

ownVars == <<active, running, cpMu>>
counts  == <<faults, crashes, requests>>
vars    == <<ownerVars, subVars, ownVars, pc, job, counts, overlap>>

Threads == Handlers \cup {Sched, Ticker, Main}

Operations == {"put", "post", "delete", "refresh", "activate", "deactivate"}

Content == [src : {"none", "push", "subscribe", "controlplane"}, sets : SUBSET Sets]

\* The clients' bodies, the subscription's and the control plane's.
Pushed     == [src |-> "push", sets |-> {}]
Fetched    == [src |-> "subscribe", sets |-> {}]
Built(S)   == [src |-> "controlplane", sets |-> S]
NoContent  == [src |-> "none", sets |-> {}]

\* The labels between fetchMu.Lock and Unlock, those under Service.mu, others.
Fetching == {"tickCheck", "tickSha", "tickFetch", "tickApply"}
Building == {"rematLoad", "build", "matLoad", "matSave"}
Labels   == Fetching \cup Building \cup
  {"idle", "push", "subscribe", "unsubscribe", "save", "saveTmp", "saveRename", "refresh",
   "tick", "checkOwner", "postClaim", "claim", "done", "wasOwner", "cpFrom", "recLoad", "recSave",
   "actLoad", "actSave", "deaLoad", "deaSave", "remat", "undo", "rollback",
   "runTop", "runWait", "runInner", "runSleep", "reconcile", "clearSets", "serving"}

\* claims: the mode being claimed; left: the mode whose hook is running; ret and
\* after: where save or Claim, and claimOwnership, return to; snap, act, sha:
\* what was read of enabled, of active_sets and of the running configuration.
Job == [op : Operations \cup {"none"}, set : Sets \cup {"none"}, claims : Modes,
        left : Modes \cup {"none"}, ret : Labels, after : Labels, snap : BOOLEAN,
        act : SUBSET Sets, prev : SUBSET Sets, was : BOOLEAN, ok : BOOLEAN, sha : Content]

NoJob == [op |-> "none", set |-> "none", claims |-> "idle", left |-> "none",
          ret |-> "idle", after |-> "idle", snap |-> FALSE, act |-> {}, prev |-> {},
          was |-> FALSE, ok |-> FALSE, sha |-> NoContent]

ASSUME OwnershipAssumption ==
  /\ Sched # Ticker /\ Ticker # Main /\ Main # Sched
  /\ {Sched, Ticker, Main} \cap Handlers = {} /\ IsFiniteSet(Handlers)
  /\ "none" \notin Sets /\ Tickers \subseteq {Ticker}
  /\ Ops \subseteq Operations /\ Faults \subseteq {"disk", "apply", "fetch"}
  /\ {MaxFaults, MaxCrashes, MaxRequests} \subseteq Nat

TypeOK ==
  /\ OwnerTypeOK /\ SubTypeOK
  /\ active \subseteq Sets /\ running \in Content /\ cpMu \in BOOLEAN
  /\ pc \in [Threads -> Labels] /\ job \in [Threads -> Job]
  /\ faults \in 0..MaxFaults /\ crashes \in 0..MaxCrashes /\ requests \in 0..MaxRequests
  /\ overlap \in BOOLEAN

FirstLabels == [t \in Threads |-> CASE t = Main -> "reconcile" [] t = Sched -> "runTop"
                                    [] OTHER -> "idle"]

\* A fresh data_dir, opened and bootstrapped; app.Run has started the goroutines.
Init ==
  /\ OwnerInit /\ SubInit
  /\ active = {} /\ running = NoContent /\ cpMu = FALSE
  /\ pc = FirstLabels /\ job = [t \in Threads |-> NoJob]
  /\ faults = 0 /\ crashes = 0 /\ requests = 0
  /\ overlap = FALSE

-----------------------------------------------------------------------------
Goto(t, l) == pc' = [pc EXCEPT ![t] = l]

\* Where goroutine t goes when its operation is over.
Ends(t) == CASE t = Main -> "serving" [] t = Sched -> "runInner" [] OTHER -> "idle"

Finish(t) == Goto(t, Ends(t)) /\ job' = [job EXCEPT ![t] = NoJob]

\* A write fails.
Fails == "disk" \in Faults /\ faults < MaxFaults /\ faults' = faults + 1

\* supervisor.Apply of content c by t.
ApplyOk(c)   == running' = c
ApplyFails   == "apply" \in Faults /\ UNCHANGED running

-----------------------------------------------------------------------------
(* Registry.Claim and its hooks *)

\* Variant: the hooks are not run.
HookLabel_None(t, prev) == job[t].ret

\* OnLeaveSubscribe is Unsubscribe, OnLeaveControlplane is ClearActiveSets.
HookLabel(t, prev) ==
  CASE prev = "subscribed"   -> "unsubscribe"
    [] prev = "controlplane" -> "clearSets"
    [] OTHER                 -> job[t].ret

\* Errors of Claim are dropped, but for the first claim of activate.
Claim(t) ==
  /\ pc[t] = "claim"
  /\ LET m == job[t].claims IN
       \/ ClaimNoop(m) /\ Goto(t, job[t].ret) /\ UNCHANGED <<job, faults>>
       \/ /\ ClaimPersists(m)
          /\ job' = [job EXCEPT ![t].left = mode] /\ Goto(t, HookLabel(t, mode))
          /\ UNCHANGED faults
       \/ /\ ClaimRollsBack(m) /\ Fails
          /\ job' = [job EXCEPT ![t].after = IF m = "controlplane" THEN "done" ELSE @]
          /\ Goto(t, job[t].ret)
  /\ UNCHANGED <<subVars, ownVars, crashes, requests>>

ClearActiveSets(t) ==
  /\ pc[t] = "clearSets"
  /\ (active' = {} /\ UNCHANGED faults) \/ (UNCHANGED active /\ Fails)
  /\ Goto(t, job[t].ret)
  /\ UNCHANGED <<ownerVars, subVars, running, cpMu, job, crashes, requests>>

\* The handler claims m and goes on at l.
ThenClaim(t, m, l) ==
  /\ job' = [job EXCEPT ![t].claims = m, ![t].ret = l]
  /\ Goto(t, "claim")

-----------------------------------------------------------------------------
(* subscribe.Manager *)

\* Subscribe and Unsubscribe set enabled in one section of m.mu ...
SetSchedule(t) ==
  /\ pc[t] \in {"subscribe", "unsubscribe"}
  /\ SetEnabled(pc[t] = "subscribe")
  /\ Goto(t, "save")
  /\ UNCHANGED <<ownerVars, ownVars, job, counts>>

\* ... and save() reads it back in another.
SaveRead(t) ==
  /\ pc[t] = "save"
  /\ job' = [job EXCEPT ![t].snap = enabled]
  /\ Goto(t, "saveTmp")
  /\ UNCHANGED <<ownerVars, subVars, ownVars, counts>>

\* The hook goes on after an error of save, the handlers report it.
SaveFails(t) ==
  /\ IF job[t].left # "none" THEN Goto(t, job[t].ret) /\ UNCHANGED job ELSE Finish(t)
  /\ UNCHANGED subVars

Save(t) ==
  /\ \/ /\ pc[t] = "saveTmp"
        /\ \/ WriteTmp(job[t].snap) /\ Goto(t, "saveRename") /\ UNCHANGED <<job, faults>>
           \/ SaveFails(t) /\ Fails
     \/ /\ pc[t] = "saveRename"
        /\ \/ RenameTmp /\ Goto(t, job[t].ret) /\ UNCHANGED <<job, faults>>
           \/ subTmp = "absent" /\ SaveFails(t) /\ UNCHANGED faults
           \/ SaveFails(t) /\ Fails
  /\ UNCHANGED <<ownerVars, ownVars, crashes, requests>>

\* Refresh, of its own or inside POST /v1/subscribe, which goes on to claim
\* whatever the fetch has brought.
Refresh(t) ==
  /\ pc[t] = "refresh"
  /\ LET l == IF job[t].op = "post" THEN "postClaim" ELSE "done" IN
       /\ job' = [job EXCEPT ![t].ret = l]
       /\ Goto(t, IF enabled THEN "tick" ELSE l)
  /\ UNCHANGED <<ownerVars, subVars, ownVars, counts>>

\* Variant: the early return keeps the fetch lock.
TickReturn_Locked(t) == UNCHANGED subVars

\* Every return of Tick drops the lock.
TickReturn(t) == UnlockFetch

TickLock(t) ==
  /\ pc[t] = "tick"
  /\ LockFetch
  /\ Goto(t, "tickCheck")
  /\ UNCHANGED <<ownerVars, ownVars, job, counts>>

TickCheck(t) ==
  /\ pc[t] = "tickCheck"
  /\ \/ enabled /\ Goto(t, "tickSha") /\ UNCHANGED subVars
     \/ ~enabled /\ Goto(t, job[t].ret) /\ TickReturn(t)
  /\ UNCHANGED <<ownerVars, ownVars, job, counts>>

TickSha(t) ==
  /\ pc[t] = "tickSha"
  /\ job' = [job EXCEPT ![t].sha = running]
  /\ Goto(t, "tickFetch")
  /\ UNCHANGED <<ownerVars, subVars, ownVars, counts>>

\* 304, or a body with the hash read before the fetch, changes nothing.
TickFetch(t) ==
  /\ pc[t] = "tickFetch"
  /\ \/ job[t].sha # Fetched /\ Goto(t, "tickApply") /\ UNCHANGED subVars
     \/ /\ job[t].sha = Fetched \/ "fetch" \in Faults
        /\ Goto(t, job[t].ret) /\ TickReturn(t)
  /\ UNCHANGED <<ownerVars, ownVars, job, counts>>

\* Neither enabled nor the owner is looked at again.
TickApply(t) ==
  /\ pc[t] = "tickApply"
  /\ ApplyOk(Fetched) \/ ApplyFails
  /\ Goto(t, job[t].ret) /\ TickReturn(t)
  /\ UNCHANGED <<ownerVars, active, cpMu, job, counts>>

Tick(t) == TickLock(t) \/ TickCheck(t) \/ TickSha(t) \/ TickFetch(t) \/ TickApply(t)

\* The Run loop: it waits for the trigger while disabled, for the trigger or
\* the timer while enabled.
RunLoop ==
  /\ \/ /\ pc[Sched] = "runTop" /\ enabled
        /\ Goto(Sched, "tick") /\ job' = [job EXCEPT ![Sched].ret = "runInner"]
        /\ UNCHANGED subVars
     \/ pc[Sched] = "runTop" /\ ~enabled /\ Goto(Sched, "runWait") /\ UNCHANGED <<subVars, job>>
     \/ pc[Sched] = "runWait" /\ TakeTrigger /\ Goto(Sched, "runTop") /\ UNCHANGED job
     \/ /\ pc[Sched] = "runInner"
        /\ Goto(Sched, IF enabled THEN "runSleep" ELSE "runTop")
        /\ UNCHANGED <<subVars, job>>
     \/ pc[Sched] = "runSleep" /\ TakeTrigger /\ Goto(Sched, "runTop") /\ UNCHANGED job
     \/ pc[Sched] = "runSleep" /\ Goto(Sched, "tick") /\ UNCHANGED <<subVars, job>>
  /\ UNCHANGED <<ownerVars, ownVars, counts>>

-----------------------------------------------------------------------------
(* The handlers of the management API *)

FirstLabel(o) ==
  CASE o = "put" -> "push"           [] o = "post" -> "subscribe"
    [] o = "delete" -> "unsubscribe" [] o = "refresh" -> "refresh"
    [] o = "activate" -> "wasOwner"  [] o = "deactivate" -> "deaLoad"

\* Where save, or Tick, returns to in the handler of o.
FirstReturn(o) ==
  CASE o = "post" -> "refresh" [] o = "delete" -> "checkOwner" [] OTHER -> "done"

Begin(h, o, s) ==
  /\ pc[h] = "idle" /\ pc[Main] = "serving"
  /\ requests < MaxRequests /\ requests' = requests + 1
  /\ o \in {"activate", "deactivate"} <=> s # "none"
  /\ job' = [job EXCEPT ![h] = [NoJob EXCEPT !.op = o, !.set = s, !.ret = FirstReturn(o)]]
  /\ Goto(h, FirstLabel(o))
  /\ UNCHANGED <<ownerVars, subVars, ownVars, faults, crashes>>

\* PUT /v1/config: apply, then claim direct.
Push(t) ==
  /\ pc[t] = "push"
  /\ \/ ApplyOk(Pushed) /\ ThenClaim(t, "direct", "done")
     \/ ApplyFails /\ Finish(t)
  /\ UNCHANGED <<ownerVars, subVars, active, cpMu, counts>>

PostClaim(t) ==
  /\ pc[t] = "postClaim"
  /\ ThenClaim(t, "subscribed", "done")
  /\ UNCHANGED <<ownerVars, subVars, ownVars, counts>>

\* DELETE /v1/subscribe displaces the owner only when that is the schedule.
CheckOwner(t) ==
  /\ pc[t] = "checkOwner"
  /\ IF mode = "subscribed" THEN ThenClaim(t, "idle", "done") ELSE Finish(t)
  /\ UNCHANGED <<ownerVars, subVars, ownVars, counts>>

Done(t) ==
  /\ pc[t] = "done"
  /\ Finish(t)
  /\ UNCHANGED <<ownerVars, subVars, ownVars, counts>>
-----------------------------------------------------------------------------
(* The control plane: claimOwnership, activate, deactivate, rematerialize *)

\* claimOwnership(m), going on at l: nothing when m is the owner already.
ThenOwn(t, m, l) ==
  /\ job' = [job EXCEPT ![t].claims = m, ![t].ret = "recLoad", ![t].after = l]
  /\ Goto(t, "cpFrom")

ClaimFrom(t) ==
  /\ pc[t] = "cpFrom"
  /\ Goto(t, IF mode = job[t].claims THEN job[t].after ELSE "claim")
  /\ UNCHANGED <<ownerVars, subVars, ownVars, job, counts>>

\* recordOwnerTransition loads state.json and saves it with the log entry.
RecordTransition(t) ==
  /\ \/ /\ pc[t] = "recLoad"
        /\ job' = [job EXCEPT ![t].act = active] /\ Goto(t, "recSave")
        /\ UNCHANGED <<active, faults>>
     \/ /\ pc[t] = "recSave"
        /\ (active' = job[t].act /\ UNCHANGED faults) \/ (UNCHANGED active /\ Fails)
        /\ Goto(t, job[t].after) /\ UNCHANGED job
  /\ UNCHANGED <<ownerVars, subVars, running, cpMu, crashes, requests>>

WasOwner(t) ==
  /\ pc[t] = "wasOwner"
  /\ job' = [job EXCEPT ![t].was = (mode = "controlplane"), ![t].claims = "controlplane",
                        ![t].ret = "recLoad", ![t].after = "actLoad"]
  /\ Goto(t, "cpFrom")
  /\ UNCHANGED <<ownerVars, subVars, ownVars, counts>>

\* LoadState of activate and of deactivate; a set that is (not) active already
\* needs no save.
LoadActive(t) ==
  /\ pc[t] \in {"actLoad", "deaLoad"}
  /\ job' = [job EXCEPT ![t].act = active, ![t].prev = active]
  /\ Goto(t, IF pc[t] = "actLoad"
             THEN IF job[t].set \in active THEN "remat" ELSE "actSave"
             ELSE IF job[t].set \in active THEN "deaSave" ELSE "done")
  /\ UNCHANGED <<ownerVars, subVars, ownVars, counts>>

Activate(t) ==
  /\ pc[t] = "actSave"
  /\ \/ active' = job[t].act \cup {job[t].set} /\ Goto(t, "remat") /\ UNCHANGED faults
     \/ UNCHANGED active /\ Goto(t, "rollback") /\ Fails
  /\ UNCHANGED <<ownerVars, subVars, running, cpMu, job, crashes, requests>>

\* deactivateSetByName: without a set left the control plane gives up ownership
\* and the box keeps the last configuration.
Deactivate(t) ==
  /\ pc[t] = "deaSave"
  /\ LET left == job[t].act \ {job[t].set} IN
       \/ /\ active' = left
          /\ IF left = {} THEN ThenOwn(t, "idle", "done") ELSE Goto(t, "remat") /\ UNCHANGED job
          /\ UNCHANGED faults
       \/ UNCHANGED active /\ Finish(t) /\ Fails
  /\ UNCHANGED <<ownerVars, subVars, running, cpMu, crashes, requests>>

\* rematerialize under Service.mu: the owner is checked, active_sets loaded, the
\* configuration built and applied.
Rematerialize(t) ==
  /\ \/ /\ pc[t] = "remat" /\ ~cpMu
        /\ \/ mode = "controlplane" /\ cpMu' = TRUE /\ Goto(t, "rematLoad")
           \/ mode # "controlplane" /\ Goto(t, "done") /\ UNCHANGED cpMu
        /\ UNCHANGED job
     \/ /\ pc[t] = "rematLoad"
        /\ job' = [job EXCEPT ![t].act = active]
        /\ \/ active # {} /\ Goto(t, "build") /\ UNCHANGED cpMu
           \/ active = {} /\ Goto(t, "done") /\ cpMu' = FALSE
  /\ UNCHANGED <<ownerVars, subVars, active, running, counts>>

\* materialize.Build and Apply; the owner is not looked at again.
Build(t) ==
  /\ pc[t] = "build"
  /\ \/ ApplyOk(Built(job[t].act)) /\ job' = [job EXCEPT ![t].ok = TRUE]
     \/ ApplyFails /\ job' = [job EXCEPT ![t].ok = FALSE]
  /\ Goto(t, "matLoad")
  /\ UNCHANGED <<ownerVars, subVars, active, cpMu, counts>>

\* recordMaterializeResult loads and saves state.json, and rematerialize
\* returns; only activate and deactivate act on its error.
RecordMaterialize(t) ==
  /\ \/ /\ pc[t] = "matLoad"
        /\ job' = [job EXCEPT ![t].act = active] /\ Goto(t, "matSave")
        /\ UNCHANGED <<active, cpMu, faults>>
     \/ /\ pc[t] = "matSave"
        /\ (active' = job[t].act /\ UNCHANGED faults) \/ (UNCHANGED active /\ Fails)
        /\ cpMu' = FALSE
        /\ Goto(t, IF ~job[t].ok /\ job[t].op # "none" THEN "undo" ELSE "done")
        /\ UNCHANGED job
  /\ UNCHANGED <<ownerVars, subVars, running, crashes, requests>>

\* Variant: the set stays active although its configuration was refused.
Undo_Skipped(t) ==
  /\ pc[t] = "undo"
  /\ Goto(t, IF job[t].op = "activate" THEN "rollback" ELSE "done")
  /\ UNCHANGED <<ownerVars, subVars, ownVars, job, counts>>

\* The previous active_sets are put back.
Undo(t) ==
  /\ pc[t] = "undo"
  /\ (active' = job[t].prev /\ UNCHANGED faults) \/ (UNCHANGED active /\ Fails)
  /\ Goto(t, IF job[t].op = "activate" THEN "rollback" ELSE "done")
  /\ UNCHANGED <<ownerVars, subVars, running, cpMu, job, crashes, requests>>

\* An activate that took ownership and failed gives it up again.
RollbackFirstActivate(t) ==
  /\ pc[t] = "rollback"
  /\ IF job[t].was \/ job[t].prev # {}
     THEN Goto(t, "done") /\ UNCHANGED job
     ELSE ThenOwn(t, "idle", "done")
  /\ UNCHANGED <<ownerVars, subVars, ownVars, counts>>

\* Service.Run: the eligibility of some user has changed.
EligibilityTick ==
  /\ Ticker \in Tickers /\ pc[Ticker] = "idle" /\ mode = "controlplane"
  /\ requests < MaxRequests /\ requests' = requests + 1
  /\ Goto(Ticker, "remat")
  /\ UNCHANGED <<ownerVars, subVars, ownVars, job, faults, crashes>>

-----------------------------------------------------------------------------
(* Boot and crash *)

\* Variant: stale active_sets are left in place.
Reconcile_NoClear ==
  /\ pc[Main] = "reconcile"
  /\ \/ /\ mode = "controlplane" /\ active = {}
        /\ ThenOwn(Main, "idle", "done")
     \/ /\ mode = "controlplane" /\ active # {}
        /\ Goto(Main, "remat") /\ UNCHANGED job
     \/ mode # "controlplane" /\ Finish(Main)
  /\ UNCHANGED <<ownerVars, subVars, ownVars, counts>>

\* reconcileOwnershipOnBoot, before the API is served.
Reconcile ==
  /\ pc[Main] = "reconcile"
  /\ \/ /\ mode # "controlplane" /\ active # {}
        /\ job' = [job EXCEPT ![Main].ret = "done"] /\ Goto(Main, "clearSets")
     \/ /\ mode = "controlplane" /\ active = {}
        /\ ThenOwn(Main, "idle", "done")
     \/ /\ mode = "controlplane" /\ active # {}
        /\ Goto(Main, "remat") /\ UNCHANGED job
     \/ mode # "controlplane" /\ active = {} /\ Finish(Main)
  /\ UNCHANGED <<ownerVars, subVars, ownVars, counts>>

\* The process dies and is started again; BootLastGood brings the box back.
Crash ==
  /\ crashes < MaxCrashes /\ crashes' = crashes + 1
  /\ OpenOwner
  /\ (Bootstrap(TRUE) /\ UNCHANGED faults) \/ (subFile = "absent" /\ Bootstrap(FALSE) /\ Fails)
  /\ cpMu' = FALSE
  /\ pc' = FirstLabels /\ job' = [t \in Threads |-> NoJob]
  /\ UNCHANGED <<active, running, requests>>

-----------------------------------------------------------------------------
Observe ==
  overlap' = (overlap \/ (pc'[Sched] \in Fetching /\ \E h \in Handlers : pc'[h] # "idle"))

Lock(t) == (pc[t] = "tick" \/ pc[t] = "remat") /\ (TickLock(t) \/ Rematerialize(t)) /\ Observe

Step(t) ==
  /\ \/ Claim(t) \/ ClearActiveSets(t)
     \/ SetSchedule(t) \/ SaveRead(t) \/ Save(t) \/ Refresh(t) \/ Tick(t)
     \/ Push(t) \/ PostClaim(t) \/ CheckOwner(t) \/ Done(t)
     \/ ClaimFrom(t) \/ RecordTransition(t) \/ WasOwner(t) \/ LoadActive(t)
     \/ Activate(t) \/ Deactivate(t) \/ Rematerialize(t) \/ Build(t)
     \/ RecordMaterialize(t) \/ Undo(t) \/ RollbackFirstActivate(t)
  /\ Observe

Requests == \E h \in Handlers, o \in Ops, s \in Sets \cup {"none"} : Begin(h, o, s)

Next ==
  \/ \E t \in Threads : Step(t)
  \/ (RunLoop \/ Reconcile \/ EligibilityTick \/ Requests \/ Crash) /\ Observe

Spec == Init /\ [][Next]_vars

\* Goroutines run; a Go mutex is handed to a goroutine that keeps waiting for
\* it; the timer of the schedule fires.  Clients, users and faults need not act.
Fairness ==
  /\ \A t \in Handlers \cup {Sched, Main} \cup Tickers : WF_vars(Step(t)) /\ SF_vars(Lock(t))
  /\ WF_vars(RunLoop /\ Observe) /\ WF_vars(Reconcile /\ Observe)

FairSpec == Spec /\ Fairness

-----------------------------------------------------------------------------
(* Properties *)

Quiet == pc[Main] = "serving" /\ \A t \in Handlers \cup {Ticker} : pc[t] = "idle"

\* Requests come one at a time, nothing crashes and every write succeeds.
Sequential ==
  Cardinality(Handlers) = 1 /\ Tickers = {} /\ ~YamlPull /\ faults = 0 /\ crashes = 0

\* Requests that come one at a time, beside the running schedule, leave no half
\* state: the schedule is on exactly when it is the owner, sets are active
\* exactly when the control plane is, and the files say what the memory says.
NoHalfState ==
  Sequential /\ Quiet =>
    /\ mode = "subscribed" <=> enabled
    /\ mode = "controlplane" <=> active # {}
    /\ ownerFile = mode /\ subFile \in IF enabled THEN {"on"} ELSE {"off", "absent"}

\* As long as no fetch is under way during a request, the box runs what the owner
\* wrote: the pushed configuration under direct, that of the active sets under
\* controlplane, also after an apply that failed.
OwnerWrote ==
  Sequential /\ Quiet /\ ~overlap =>
    /\ mode = "direct" => running = Pushed
    /\ mode = "controlplane" => running = Built(active)

\* The owner survives a restart at any point: a claim that was not persisted was
\* never visible.
ModeDurable == [][crashes' # crashes => mode' = mode]_vars

\* Whatever a crash has interrupted, the API is not served before active_sets
\* and the owner agree (failing writes aside).
BootRepairs ==
  [][pc[Main] # "serving" /\ pc'[Main] = "serving" /\ faults' = 0
       => (mode' = "controlplane" <=> active' # {})]_vars

\* No wake-up is lost: an enabled schedule comes to fetch, however Subscribe,
\* Unsubscribe and the loop interleave (failing writes aside).
ScheduleRuns ==
  enabled ~> ~enabled \/ faults > 0 \/ pc[Sched] \in Fetching

\* Every request is answered: neither lock is kept, and no order of fetches and
\* rematerializations blocks for ever.
RequestsEnd == \A h \in Handlers : pc[h] # "idle" ~> pc[h] = "idle"

=============================================================================
