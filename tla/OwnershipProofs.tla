-------------------------- MODULE OwnershipProofs --------------------------
(***************************************************************************)
(* Proofs about Ownership, for every value of its constants.               *)
(*                                                                         *)
(* Persisted  the mode in memory is the mode in config-owner.json;         *)
(* LoopInv    where the three background goroutines can be, and what they  *)
(*            keep: none of them ever runs a handler's steps;              *)
(* BootInv    what Main has found and left while the API is not served;    *)
(* HandlerInv what the one handler of a sequential client owes at each of  *)
(*            its control points: the schedule, the active sets and the    *)
(*            files on one side, the running configuration (Runs) on the   *)
(*            other.                                                       *)
(***************************************************************************)
EXTENDS Ownership, FiniteSetTheorems, TLAPS

\* A request that makes a set active names one.
SetNamed == \A t \in Threads :
  /\ job[t].ret \notin {"wasOwner", "actLoad", "actSave"}
  /\ job[t].after \notin {"wasOwner", "actSave"}
  /\ pc[t] \in {"wasOwner", "actLoad", "actSave"} \/ job[t].after = "actLoad" => job[t].set \in Sets

Persisted == ownerFile = mode

-----------------------------------------------------------------------------
(* The background goroutines *)

MatLabels    == {"remat", "rematLoad", "build", "matLoad", "matSave"}
TickLabels   == {"tick"} \cup Fetching
SchedLabels  == {"runTop", "runWait", "runInner", "runSleep"} \cup TickLabels
TickerLabels == MatLabels \cup {"idle", "done"}
MainLabels   == MatLabels \cup
  {"reconcile", "clearSets", "cpFrom", "claim", "recLoad", "recSave", "done", "serving"}

LoopInv ==
  /\ pc[Sched] \in SchedLabels
  /\ pc[Sched] \in TickLabels \cup {"runInner", "runSleep"} => job[Sched].ret = "runInner"
  /\ pc[Ticker] \in TickerLabels /\ job[Ticker].op = "none"
  /\ pc[Main] \in MainLabels /\ job[Main].op = "none"

-----------------------------------------------------------------------------
(* Boot *)

\* Main gives up an ownership without a set, clears sets without an owner, or
\* rematerializes; the ticker can only rematerialize beside it.
BootInv == pc[Main] # "serving" =>
  /\ \A h \in Handlers : pc[h] = "idle"
  /\ pc[Main] \in {"cpFrom", "claim"} =>
       /\ job[Main].claims = "idle" /\ job[Main].ret = "recLoad" /\ job[Main].after = "done"
       /\ mode = "controlplane" /\ (faults = 0 => active = {})
  /\ pc[Main] = "clearSets" =>
       /\ mode # "controlplane"
       /\ job[Main].ret = "done" \/ (job[Main].ret = "recLoad" /\ job[Main].after = "done")
  /\ pc[Main] \in {"recLoad", "recSave"} =>
       /\ job[Main].after = "done"
       /\ faults = 0 => mode # "controlplane" /\ active = {}
       /\ faults = 0 /\ pc[Main] = "recSave" => job[Main].act = {}
  /\ faults = 0 => \A t \in {Main, Ticker} :
       /\ (t = Main /\ pc[t] \in MatLabels) \/ pc[t] \in {"build", "matLoad", "matSave"} =>
            mode = "controlplane" /\ active # {}
       /\ pc[t] = "matSave" => job[t].act = active
  /\ faults = 0 /\ pc[Ticker] = "rematLoad" => mode = "controlplane" \/ active = {}
  /\ faults = 0 /\ pc[Main] = "done" => (mode = "controlplane" <=> active # {})

-----------------------------------------------------------------------------
(* One client at a time *)

OneClient == Cardinality(Handlers) = 1 /\ Tickers = {} /\ ~YamlPull

\* The three halves of a state that must fit together.
SubFits  == mode = "subscribed" <=> enabled
SetsFit  == mode = "controlplane" <=> active # {}
FileFits == subFile \in IF enabled THEN {"on"} ELSE {"off", "absent"}
Whole    == SubFits /\ SetsFit /\ FileFits

\* The hook that leaves the schedule, inside a claim of PUT, DELETE or activate.
Leaving(j) ==
  /\ mode # "subscribed"
  /\ \/ j.op \in {"put", "delete"} /\ j.ret = "done" /\ SetsFit
     \/ /\ j.op = "activate" /\ j.ret = "recLoad" /\ j.after = "actLoad" /\ ~j.was
        /\ mode = "controlplane" /\ active = {}

\* The schedule's part of a request: subscribe, unsubscribe, save, fetch, and what follows.
ScheduleInv(p, j) ==
  /\ p = "subscribe" => j.op = "post" /\ j.ret = "refresh" /\ Whole
  /\ p = "unsubscribe" =>
       FileFits /\ (Leaving(j) \/ (j.op = "delete" /\ j.ret = "checkOwner" /\ Whole))
  /\ p \in {"save", "saveTmp", "saveRename"} =>
       /\ p = "saveTmp" => j.snap = enabled
       /\ p = "saveRename" => subTmp = IF enabled THEN "on" ELSE "off"
       /\ \/ j.op = "post" /\ j.ret = "refresh" /\ enabled /\ SetsFit
          \/ j.op = "delete" /\ j.ret = "checkOwner" /\ ~enabled /\ SetsFit
          \/ Leaving(j) /\ ~enabled
  /\ p \in {"refresh"} \cup TickLabels =>
       /\ FileFits /\ SetsFit
       /\ \/ j.op = "refresh" /\ j.ret = "done" /\ SubFits
          \/ j.op = "post" /\ enabled /\ (p \in TickLabels => j.ret = "postClaim")
  /\ p \in {"tickSha", "tickFetch", "tickApply"} => enabled
  /\ p = "postClaim"  => j.op = "post" /\ enabled /\ FileFits /\ SetsFit
  /\ p = "checkOwner" => j.op = "delete" /\ ~enabled /\ FileFits /\ SetsFit

\* The claims, and the hook that clears the active sets.
ClaimInv(p, j) ==
  /\ p = "claim" =>
       /\ FileFits
       /\ \/ j.op = "put" /\ j.claims = "direct" /\ j.ret = "done" /\ Whole
          \/ j.op = "post" /\ j.claims = "subscribed" /\ j.ret = "done" /\ enabled /\ SetsFit
          \/ /\ j.op = "delete" /\ j.claims = "idle" /\ j.ret = "done"
             /\ mode = "subscribed" /\ ~enabled /\ SetsFit
          \/ /\ j.op = "activate" /\ j.claims = "controlplane" /\ j.ret = "recLoad"
             /\ j.after = "actLoad" /\ ~j.was /\ mode # "controlplane" /\ Whole
          \/ /\ j.op \in {"activate", "deactivate"} /\ j.claims = "idle" /\ j.ret = "recLoad"
             /\ j.after = "done" /\ mode = "controlplane" /\ active = {} /\ SubFits
  /\ p = "clearSets" =>
       /\ FileFits /\ SubFits /\ mode # "controlplane"
       /\ j.ret = "done" \/ (j.ret = "recLoad" /\ j.after = "done")

\* activate and deactivate, from the first look at the owner to the last.
SetsInv(p, j) ==
  /\ p = "cpFrom" =>
       /\ FileFits /\ SubFits /\ j.ret = "recLoad"
       /\ \/ /\ j.op = "activate" /\ j.claims = "controlplane" /\ j.after = "actLoad" /\ SetsFit
             /\ j.was <=> mode = "controlplane"
          \/ /\ j.op \in {"activate", "deactivate"} /\ j.claims = "idle" /\ j.after = "done"
             /\ mode = "controlplane" /\ active = {}
  /\ p \in {"recLoad", "recSave"} =>
       /\ FileFits /\ SubFits /\ active = {}
       /\ p = "recSave" => j.act = {}
       /\ \/ j.op = "activate" /\ j.after = "actLoad" /\ ~j.was /\ mode = "controlplane"
          \/ j.after = "done" /\ mode # "controlplane"
  /\ p \in {"actLoad", "actSave"} =>
       /\ FileFits /\ SubFits /\ mode = "controlplane" /\ j.op = "activate"
       /\ j.was <=> active # {}
       /\ p = "actSave" => j.act = active /\ j.prev = active
  /\ p = "deaSave" =>
       /\ Whole /\ j.op = "deactivate" /\ mode = "controlplane"
       /\ j.act = active /\ j.prev = active
  /\ p \in MatLabels \cup {"undo"} =>
       /\ Whole /\ mode = "controlplane" /\ j.op \in {"activate", "deactivate"}
       /\ p \in {"build", "matSave"} => j.act = active
       /\ j.op = "deactivate" \/ j.was => j.prev # {}
       /\ j.op = "activate" /\ ~j.was => j.prev = {}
  /\ p = "rollback" =>
       /\ FileFits /\ SubFits /\ mode = "controlplane" /\ j.op = "activate"
       /\ active = j.prev /\ (j.was <=> j.prev # {})

HandlerInv(h) ==
  /\ pc[h] \in {"idle", "push", "wasOwner", "deaLoad", "done"} => Whole
  /\ pc[h] = "push" => job[h].op = "put"
  /\ pc[h] = "wasOwner" => job[h].op = "activate"
  /\ pc[h] = "deaLoad" => job[h].op = "deactivate"
  /\ ScheduleInv(pc[h], job[h]) /\ ClaimInv(pc[h], job[h]) /\ SetsInv(pc[h], job[h])

SeqInv == OneClient /\ faults = 0 /\ crashes = 0 =>
  /\ pc[Ticker] = "idle" /\ pc[Main] \in {"reconcile", "serving"}
  /\ pc[Main] = "reconcile" => mode = "idle" /\ active = {}
  /\ \A h \in Handlers : HandlerInv(h)

-----------------------------------------------------------------------------
(* ... and the configuration that runs *)

\* What the owner wrote is what runs.
Wrote ==
  /\ mode = "direct" => running = Pushed
  /\ mode = "controlplane" => running = Built(active)

\* The control points at which it does not: between an apply, or a save of the active sets,
\* and the claim or the apply that follows it.  There the sets it was built from are known.
RunsInv(h) ==
  LET p == pc[h]
      j == job[h]
      was == j.op = "deactivate" \/ j.was
  IN
  /\ p \in {"idle", "push", "subscribe", "refresh", "checkOwner", "clearSets", "wasOwner",
            "deaLoad", "deaSave", "done"} \cup TickLabels => Wrote
  /\ p \in {"unsubscribe", "save", "saveTmp", "saveRename"} /\ j.op # "activate" => Wrote
  /\ p = "claim" /\ j.claims = "direct" => running = Pushed
  /\ p \in {"cpFrom", "claim"} /\ j.claims = "controlplane" => Wrote
  /\ p \in {"recLoad", "recSave"} /\ j.after = "done" => Wrote
  /\ p = "actLoad" /\ was => Wrote
  /\ p \in {"actSave", "remat", "rematLoad", "build", "undo", "rollback"} /\ was =>
       running = Built(j.prev)
  /\ p \in {"matLoad", "matSave"} =>
       /\ j.ok => running = Built(active)
       /\ ~j.ok /\ was => running = Built(j.prev)

\* The schedule fetches only while it is the owner, as long as no request runs beside it.
FetchInv ==
  /\ pc[Sched] \in Fetching => \A h \in Handlers : pc[h] = "idle"
  /\ pc[Sched] \in {"tickSha", "tickFetch", "tickApply"} => enabled

RunInv == OneClient /\ faults = 0 /\ crashes = 0 /\ ~overlap =>
  FetchInv /\ \A h \in Handlers : RunsInv(h)

-----------------------------------------------------------------------------
(* Types *)

LEMMA ThreadsFacts ==
  /\ Handlers \subseteq Threads /\ Sched \in Threads /\ Ticker \in Threads /\ Main \in Threads
  /\ \A h \in Handlers : h \notin {Sched, Ticker, Main}
  /\ Sched # Ticker /\ Ticker # Main /\ Main # Sched
BY OwnershipAssumption DEF Threads

\* Finish resets the locals.
LEMMA FinishTypes ==
  ASSUME TypeOK, NEW t \in Threads, Finish(t)
  PROVE  pc' \in [Threads -> Labels] /\ job' \in [Threads -> Job]
<1>1. NoJob \in Job
  BY DEF NoJob, Job, Modes, Labels, NoContent, Content
<1>2. Ends(t) \in Labels
  BY DEF Ends, Labels
<1> QED
  BY <1>1, <1>2 DEF Finish, Goto, TypeOK

\* An update of one of a goroutine's locals keeps the type, ...
LEMMA JobUpdate ==
  ASSUME NEW j \in [Threads -> Job], NEW t \in Threads
  PROVE  /\ \A m \in Modes : [j EXCEPT ![t].left = m] \in [Threads -> Job]
         /\ \A m \in Modes : [j EXCEPT ![t].claims = m] \in [Threads -> Job]
         /\ \A l \in Labels : [j EXCEPT ![t].ret = l] \in [Threads -> Job]
         /\ \A l \in Labels : [j EXCEPT ![t].after = l] \in [Threads -> Job]
         /\ \A b \in BOOLEAN : [j EXCEPT ![t].was = b] \in [Threads -> Job]
         /\ \A b \in BOOLEAN : [j EXCEPT ![t].snap = b] \in [Threads -> Job]
         /\ \A b \in BOOLEAN : [j EXCEPT ![t].ok = b] \in [Threads -> Job]
         /\ \A c \in Content : [j EXCEPT ![t].sha = c] \in [Threads -> Job]
         /\ \A S \in SUBSET Sets : [j EXCEPT ![t].act = S] \in [Threads -> Job]
         /\ \A S \in SUBSET Sets : [j EXCEPT ![t].prev = S] \in [Threads -> Job]
<1>1. ASSUME NEW m \in Modes \cup {"none"} PROVE [j EXCEPT ![t].left = m] \in [Threads -> Job]
  BY DEF Job
<1>2. ASSUME NEW m \in Modes PROVE [j EXCEPT ![t].claims = m] \in [Threads -> Job]
  BY DEF Job
<1>3. ASSUME NEW l \in Labels PROVE [j EXCEPT ![t].ret = l] \in [Threads -> Job]
  BY DEF Job
<1>4. ASSUME NEW l \in Labels PROVE [j EXCEPT ![t].after = l] \in [Threads -> Job]
  BY DEF Job
<1>5. ASSUME NEW b \in BOOLEAN
      PROVE  /\ [j EXCEPT ![t].was = b] \in [Threads -> Job]
             /\ [j EXCEPT ![t].snap = b] \in [Threads -> Job]
             /\ [j EXCEPT ![t].ok = b] \in [Threads -> Job]
  <2>1. [j EXCEPT ![t].was = b] \in [Threads -> Job]
    BY DEF Job
  <2>2. [j EXCEPT ![t].snap = b] \in [Threads -> Job]
    BY DEF Job
  <2>3. [j EXCEPT ![t].ok = b] \in [Threads -> Job]
    BY DEF Job
  <2> QED
    BY <2>1, <2>2, <2>3
<1>6. ASSUME NEW c \in Content PROVE [j EXCEPT ![t].sha = c] \in [Threads -> Job]
  BY DEF Job
<1>7. ASSUME NEW S \in SUBSET Sets
      PROVE  /\ [j EXCEPT ![t].act = S] \in [Threads -> Job]
             /\ [j EXCEPT ![t].prev = S] \in [Threads -> Job]
  <2>1. [j EXCEPT ![t].act = S] \in [Threads -> Job]
    BY DEF Job
  <2>2. [j EXCEPT ![t].prev = S] \in [Threads -> Job]
    BY DEF Job
  <2> QED
    BY <2>1, <2>2
<1> QED
  BY <1>1, <1>2, <1>3, <1>4, <1>5, <1>6, <1>7

\* ... and so do the updates of several.
LEMMA JobUpdates ==
  ASSUME NEW j \in [Threads -> Job], NEW t \in Threads
  PROVE  /\ \A m \in Modes, l \in Labels :
              [j EXCEPT ![t].claims = m, ![t].ret = l] \in [Threads -> Job]
         /\ \A m \in Modes, l, k \in Labels :
              [j EXCEPT ![t].claims = m, ![t].ret = l, ![t].after = k] \in [Threads -> Job]
         /\ \A b \in BOOLEAN, m \in Modes, l, k \in Labels :
              [j EXCEPT ![t].was = b, ![t].claims = m, ![t].ret = l, ![t].after = k]
                \in [Threads -> Job]
         /\ \A S \in SUBSET Sets :
              [j EXCEPT ![t].act = S, ![t].prev = S] \in [Threads -> Job]
<1>1. ASSUME NEW m \in Modes, NEW l \in Labels
      PROVE  [j EXCEPT ![t].claims = m, ![t].ret = l] \in [Threads -> Job]
  <2> DEFINE j1 == [j EXCEPT ![t].claims = m]
             j2 == [j1 EXCEPT ![t].ret = l]
  <2>1. j1 \in [Threads -> Job]
    BY JobUpdate
  <2>2. [j EXCEPT ![t].claims = m, ![t].ret = l] = j2
    OBVIOUS
  <2> HIDE DEF j1
  <2>3. j2 \in [Threads -> Job]
    BY <2>1, JobUpdate
  <2> QED
    BY <2>2, <2>3
<1>2. ASSUME NEW m \in Modes, NEW l \in Labels, NEW k \in Labels
      PROVE  [j EXCEPT ![t].claims = m, ![t].ret = l, ![t].after = k] \in [Threads -> Job]
  <2> DEFINE j2 == [j EXCEPT ![t].claims = m, ![t].ret = l]
             j3 == [j2 EXCEPT ![t].after = k]
  <2>1. j2 \in [Threads -> Job]
    BY <1>1
  <2>2. [j EXCEPT ![t].claims = m, ![t].ret = l, ![t].after = k] = j3
    OBVIOUS
  <2> HIDE DEF j2
  <2>3. j3 \in [Threads -> Job]
    BY <2>1, JobUpdate
  <2> QED
    BY <2>2, <2>3
<1>3. ASSUME NEW b \in BOOLEAN, NEW m \in Modes, NEW l \in Labels, NEW k \in Labels
      PROVE  [j EXCEPT ![t].was = b, ![t].claims = m, ![t].ret = l, ![t].after = k]
               \in [Threads -> Job]
  <2> DEFINE j1 == [j EXCEPT ![t].was = b]
             j2 == [j1 EXCEPT ![t].claims = m]
             j3 == [j2 EXCEPT ![t].ret = l]
             j4 == [j3 EXCEPT ![t].after = k]
  <2>1. j1 \in [Threads -> Job]
    BY JobUpdate
  <2>2. [j EXCEPT ![t].was = b, ![t].claims = m, ![t].ret = l, ![t].after = k] = j4
    OBVIOUS
  <2> HIDE DEF j1
  <2>3. j2 \in [Threads -> Job]
    BY <2>1, JobUpdate
  <2> HIDE DEF j2
  <2>4. j3 \in [Threads -> Job]
    BY <2>3, JobUpdate
  <2> HIDE DEF j3
  <2>5. j4 \in [Threads -> Job]
    BY <2>4, JobUpdate
  <2> QED
    BY <2>2, <2>5
<1>4. ASSUME NEW S \in SUBSET Sets
      PROVE  [j EXCEPT ![t].act = S, ![t].prev = S] \in [Threads -> Job]
  <2> DEFINE j1 == [j EXCEPT ![t].act = S]
             j2 == [j1 EXCEPT ![t].prev = S]
  <2>1. j1 \in [Threads -> Job]
    BY JobUpdate
  <2>2. [j EXCEPT ![t].act = S, ![t].prev = S] = j2
    OBVIOUS
  <2> HIDE DEF j1
  <2>3. j2 \in [Threads -> Job]
    BY <2>1, JobUpdate
  <2> QED
    BY <2>2, <2>3
<1> QED
  BY <1>1, <1>2, <1>3, <1>4

\* The updates that the steps below make.
LEMMA Locals ==
  ASSUME TypeOK, NEW t \in Threads
  PROVE  /\ job' = job => job' \in [Threads -> Job]
         /\ \A m \in Modes : job' = [job EXCEPT ![t].left = m] => job' \in [Threads -> Job]
         /\ \A l \in Labels : job' = [job EXCEPT ![t].ret = l] => job' \in [Threads -> Job]
         /\ \A l \in Labels : job' = [job EXCEPT ![t].after = l] => job' \in [Threads -> Job]
         /\ \A b \in BOOLEAN : job' = [job EXCEPT ![t].snap = b] => job' \in [Threads -> Job]
         /\ \A b \in BOOLEAN : job' = [job EXCEPT ![t].ok = b] => job' \in [Threads -> Job]
         /\ \A c \in Content : job' = [job EXCEPT ![t].sha = c] => job' \in [Threads -> Job]
         /\ \A S \in SUBSET Sets : job' = [job EXCEPT ![t].act = S] => job' \in [Threads -> Job]
         /\ \A S \in SUBSET Sets :
              job' = [job EXCEPT ![t].act = S, ![t].prev = S] => job' \in [Threads -> Job]
         /\ \A m \in Modes, l \in Labels :
              job' = [job EXCEPT ![t].claims = m, ![t].ret = l] => job' \in [Threads -> Job]
         /\ \A m \in Modes, l, k \in Labels :
              job' = [job EXCEPT ![t].claims = m, ![t].ret = l, ![t].after = k]
                => job' \in [Threads -> Job]
         /\ \A b \in BOOLEAN, m \in Modes, l, k \in Labels :
              job' = [job EXCEPT ![t].was = b, ![t].claims = m, ![t].ret = l, ![t].after = k]
                => job' \in [Threads -> Job]
<1>1. job \in [Threads -> Job]
  BY DEF TypeOK
<1>2. /\ \A m \in Modes : [job EXCEPT ![t].left = m] \in [Threads -> Job]
      /\ \A l \in Labels : [job EXCEPT ![t].ret = l] \in [Threads -> Job]
      /\ \A l \in Labels : [job EXCEPT ![t].after = l] \in [Threads -> Job]
      /\ \A b \in BOOLEAN : [job EXCEPT ![t].snap = b] \in [Threads -> Job]
      /\ \A b \in BOOLEAN : [job EXCEPT ![t].ok = b] \in [Threads -> Job]
      /\ \A c \in Content : [job EXCEPT ![t].sha = c] \in [Threads -> Job]
      /\ \A S \in SUBSET Sets : [job EXCEPT ![t].act = S] \in [Threads -> Job]
  BY <1>1, JobUpdate, Zenon
<1>3. /\ \A S \in SUBSET Sets : [job EXCEPT ![t].act = S, ![t].prev = S] \in [Threads -> Job]
      /\ \A m \in Modes, l \in Labels :
           [job EXCEPT ![t].claims = m, ![t].ret = l] \in [Threads -> Job]
      /\ \A m \in Modes, l, k \in Labels :
           [job EXCEPT ![t].claims = m, ![t].ret = l, ![t].after = k] \in [Threads -> Job]
      /\ \A b \in BOOLEAN, m \in Modes, l, k \in Labels :
           [job EXCEPT ![t].was = b, ![t].claims = m, ![t].ret = l, ![t].after = k]
             \in [Threads -> Job]
  BY <1>1, JobUpdates, Zenon
<1>4. /\ job' = job => job' \in [Threads -> Job]
      /\ \A m \in Modes : job' = [job EXCEPT ![t].left = m] => job' \in [Threads -> Job]
      /\ \A l \in Labels : job' = [job EXCEPT ![t].ret = l] => job' \in [Threads -> Job]
      /\ \A l \in Labels : job' = [job EXCEPT ![t].after = l] => job' \in [Threads -> Job]
      /\ \A b \in BOOLEAN : job' = [job EXCEPT ![t].snap = b] => job' \in [Threads -> Job]
      /\ \A b \in BOOLEAN : job' = [job EXCEPT ![t].ok = b] => job' \in [Threads -> Job]
      /\ \A c \in Content : job' = [job EXCEPT ![t].sha = c] => job' \in [Threads -> Job]
      /\ \A S \in SUBSET Sets : job' = [job EXCEPT ![t].act = S] => job' \in [Threads -> Job]
  BY <1>1, <1>2
<1>5. ASSUME NEW S \in SUBSET Sets, job' = [job EXCEPT ![t].act = S, ![t].prev = S]
      PROVE  job' \in [Threads -> Job]
  <2> DEFINE x == [job EXCEPT ![t].act = S, ![t].prev = S]
  <2>1. x \in [Threads -> Job]
    BY <1>3
  <2>2. job' = x
    BY <1>5
  <2> HIDE DEF x
  <2> QED
    BY <2>1, <2>2
<1>6. ASSUME NEW m \in Modes, NEW l \in Labels,
             job' = [job EXCEPT ![t].claims = m, ![t].ret = l]
      PROVE  job' \in [Threads -> Job]
  <2> DEFINE x == [job EXCEPT ![t].claims = m, ![t].ret = l]
  <2>1. x \in [Threads -> Job]
    BY <1>3
  <2>2. job' = x
    BY <1>6
  <2> HIDE DEF x
  <2> QED
    BY <2>1, <2>2
<1>7. ASSUME NEW m \in Modes, NEW l \in Labels, NEW k \in Labels,
             job' = [job EXCEPT ![t].claims = m, ![t].ret = l, ![t].after = k]
      PROVE  job' \in [Threads -> Job]
  <2> DEFINE x == [job EXCEPT ![t].claims = m, ![t].ret = l, ![t].after = k]
  <2>1. x \in [Threads -> Job]
    BY <1>3
  <2>2. job' = x
    BY <1>7
  <2> HIDE DEF x
  <2> QED
    BY <2>1, <2>2
<1>8. ASSUME NEW b \in BOOLEAN, NEW m \in Modes, NEW l \in Labels, NEW k \in Labels,
             job' = [job EXCEPT ![t].was = b, ![t].claims = m, ![t].ret = l, ![t].after = k]
      PROVE  job' \in [Threads -> Job]
  <2> DEFINE x == [job EXCEPT ![t].was = b, ![t].claims = m, ![t].ret = l, ![t].after = k]
  <2>1. x \in [Threads -> Job]
    BY <1>3
  <2>2. job' = x
    BY <1>8
  <2> HIDE DEF x
  <2> QED
    BY <2>1, <2>2
<1> QED
  BY <1>4, <1>5, <1>6, <1>7, <1>8, Zenon

\* What a goroutine's locals hold.
LEMMA JobFields ==
  ASSUME TypeOK, NEW t \in Threads
  PROVE  /\ pc[t] \in Labels /\ job[t].op \in Operations \cup {"none"}
         /\ job[t].claims \in Modes /\ job[t].ret \in Labels /\ job[t].after \in Labels
         /\ job[t].act \subseteq Sets /\ job[t].prev \subseteq Sets
         /\ job[t].set \in Sets \cup {"none"} /\ job[t].snap \in BOOLEAN
BY DEF TypeOK, Job

\* A step goes to a label.
LEMMA GotoTypes ==
  ASSUME TypeOK, NEW t \in Threads, NEW l \in Labels, Goto(t, l)
  PROVE  pc' \in [Threads -> Labels]
<1>1. pc \in [Threads -> Labels]
  BY DEF TypeOK
<1> QED
  BY <1>1 DEF Goto

\* The labels that the steps below go to.
LEMMA LabelNames ==
  /\ "postClaim" \in Labels /\ "done" \in Labels /\ "save" \in Labels /\ "tick" \in Labels
  /\ "claim" \in Labels /\ "saveTmp" \in Labels /\ "saveRename" \in Labels
  /\ "recLoad" \in Labels /\ "recSave" \in Labels /\ "cpFrom" \in Labels
  /\ "remat" \in Labels /\ "actLoad" \in Labels /\ "actSave" \in Labels
  /\ "deaSave" \in Labels /\ "matLoad" \in Labels /\ "matSave" \in Labels
  /\ "tickCheck" \in Labels /\ "tickSha" \in Labels /\ "tickFetch" \in Labels
  /\ "tickApply" \in Labels /\ "rematLoad" \in Labels /\ "build" \in Labels
  /\ "undo" \in Labels /\ "rollback" \in Labels /\ "runWait" \in Labels
  /\ "runTop" \in Labels /\ "runSleep" \in Labels /\ "runInner" \in Labels
  /\ "clearSets" \in Labels
BY DEF Labels, Fetching, Building

\* Only a claim changes the owner while the process lives.
LEMMA OwnerSteps ==
  ASSUME Next
  PROVE  ownerVars' = ownerVars \/ (\E t \in Threads : Claim(t)) \/ Crash
BY DEF Next, Step, ClearActiveSets, SetSchedule, SaveRead, Save, Refresh, Tick, TickLock, TickCheck,
   TickSha, TickFetch, TickApply, Push, PostClaim, CheckOwner, Done, ClaimFrom, RecordTransition,
   WasOwner, LoadActive, Activate, Deactivate, Rematerialize, Build, RecordMaterialize, Undo,
   RollbackFirstActivate, RunLoop, Reconcile, EligibilityTick, Requests, Begin

\* The steps of a goroutine in a handler, in the loops or at boot keep the types of the owner's
\* and of the schedule's state, ...
LEMMA StateTypes ==
  ASSUME TypeOK, Next
  PROVE  OwnerTypeOK' /\ SubTypeOK'
<1>1. OwnerTypeOK'
  <2> QED
    BY OwnerSteps, JobFields DEF TypeOK, OwnerTypeOK, ownerVars, Claim, ClaimNoop, ClaimPersists,
       ClaimRollsBack, Crash, OpenOwner
<1>2. SubTypeOK'
  <2>1. \/ subVars' = subVars \/ Crash \/ RunLoop
        \/ \E t \in Threads : SetSchedule(t) \/ Save(t) \/ Tick(t)
    BY DEF Next, Step, Claim, ClearActiveSets, SaveRead, Refresh, Push, PostClaim, CheckOwner, Done,
       ClaimFrom, RecordTransition, WasOwner, LoadActive, Activate, Deactivate, Rematerialize,
       Build, RecordMaterialize, Undo, RollbackFirstActivate, Reconcile, EligibilityTick, Requests,
       Begin
  <2>2. subVars' = subVars \/ (\E b \in BOOLEAN : SetEnabled(b) \/ WriteTmp(b)) \/ RenameTmp
        \/ TakeTrigger \/ LockFetch \/ UnlockFetch \/ (\E b \in BOOLEAN : Bootstrap(b))
    BY <2>1, JobFields DEF Crash, RunLoop, SetSchedule, Save, SaveFails, Tick, TickLock, TickCheck,
       TickSha, TickFetch, TickApply, TickReturn
  <2> QED
    BY <2>2, YamlAssumption DEF TypeOK, SubTypeOK, subVars, SetEnabled, WriteTmp, RenameTmp,
       TakeTrigger, LockFetch, UnlockFetch, Bootstrap, BootEnabled, BootFile, Files
<1> QED
  BY <1>1, <1>2

\* ... of the goroutines' control points and locals, ...
LEMMA ThreadTypes ==
  ASSUME TypeOK, Next
  PROVE  pc' \in [Threads -> Labels] /\ job' \in [Threads -> Job]
<1>0. pc \in [Threads -> Labels] /\ job \in [Threads -> Job] /\ active \in SUBSET Sets
      /\ running \in Content /\ mode \in Modes /\ enabled \in BOOLEAN
  BY DEF TypeOK, OwnerTypeOK, SubTypeOK
<1>a. {"idle", "subscribed", "direct", "controlplane"} = Modes
  BY DEF Modes
<1>1. ASSUME NEW t \in Threads, Step(t)
      PROVE  pc' \in [Threads -> Labels] /\ job' \in [Threads -> Job]
  <2>a. job[t].ret \in Labels /\ job[t].after \in Labels /\ job[t].claims \in Modes
    BY JobFields
  <2>b. job' = job => job' \in [Threads -> Job]
    BY <1>0
  <2>c. Finish(t) => pc' \in [Threads -> Labels] /\ job' \in [Threads -> Job]
    BY FinishTypes
  <2>d. \A m \in Modes, l \in Labels : ThenClaim(t, m, l) =>
          pc' \in [Threads -> Labels] /\ job' \in [Threads -> Job]
    BY <1>0, Locals, GotoTypes, LabelNames DEF ThenClaim
  <2>e. ASSUME NEW m \in Modes, NEW l \in Labels, ThenOwn(t, m, l)
        PROVE  pc' \in [Threads -> Labels] /\ job' \in [Threads -> Job]
    BY <2>e, Locals, GotoTypes, LabelNames DEF ThenOwn
  <2>1. CASE Claim(t)
    <3>1. HookLabel(t, mode) \in Labels
      BY <2>a DEF HookLabel, Labels
    <3>2. pc' \in [Threads -> Labels]
      BY <2>1, <2>a, <3>1, GotoTypes DEF Claim
    <3>3. \/ job' = job \/ job' = [job EXCEPT ![t].left = mode]
          \/ \E l \in Labels : job' = [job EXCEPT ![t].after = l]
      BY <2>1, <2>a, LabelNames DEF Claim
    <3> QED
      BY <1>0, <3>2, <3>3, Locals
  <2>2. CASE ClearActiveSets(t) \/ SetSchedule(t) \/ Refresh(t) \/ ClaimFrom(t)
    <3>1. \/ job' = job
          \/ \E l \in {"postClaim", "done"} : job' = [job EXCEPT ![t].ret = l]
      BY <2>2 DEF ClearActiveSets, SetSchedule, Refresh, ClaimFrom
    <3>2. \E l \in {job[t].ret, job[t].after, "save", "tick", "postClaim", "done", "claim"} :
             Goto(t, l)
      BY <2>2 DEF ClearActiveSets, SetSchedule, Refresh, ClaimFrom
    <3>3. pc' \in [Threads -> Labels]
      BY <2>a, <3>2, GotoTypes, LabelNames
    <3> QED
      BY <3>1, <3>3, Locals, LabelNames
  <2>3. CASE SaveRead(t) \/ RecordTransition(t) \/ WasOwner(t) \/ LoadActive(t) \/ Build(t)
    <3>1. \/ job' = job \/ job' = [job EXCEPT ![t].snap = enabled]
          \/ job' = [job EXCEPT ![t].act = active]
          \/ job' = [job EXCEPT ![t].act = active, ![t].prev = active]
          \/ \E b \in BOOLEAN : job' = [job EXCEPT ![t].ok = b]
          \/ job' = [job EXCEPT ![t].was = (mode = "controlplane"), ![t].claims = "controlplane",
                                ![t].ret = "recLoad", ![t].after = "actLoad"]
      BY <2>3 DEF SaveRead, RecordTransition, WasOwner, LoadActive, Build
    <3>2. \E l \in {job[t].after, "saveTmp", "recSave", "cpFrom", "remat", "actSave", "deaSave",
                     "done", "matLoad"} : Goto(t, l)
      BY <2>3 DEF SaveRead, RecordTransition, WasOwner, LoadActive, Build
    <3>3. pc' \in [Threads -> Labels]
      BY <2>a, <3>2, GotoTypes, LabelNames
    <3>4. (mode = "controlplane") \in BOOLEAN /\ "controlplane" \in Modes
      BY <1>a
    <3> QED
      <4>1. job' \in [Threads -> Job]
        <5>1. CASE job' = [job EXCEPT ![t].was = (mode = "controlplane"), ![t].claims = "controlplane",
                                      ![t].ret = "recLoad", ![t].after = "actLoad"]
          BY <3>4, <5>1, Locals, LabelNames, Zenon
        <5>2. CASE \/ job' = job \/ job' = [job EXCEPT ![t].snap = enabled]
                   \/ job' = [job EXCEPT ![t].act = active]
                   \/ job' = [job EXCEPT ![t].act = active, ![t].prev = active]
                   \/ \E b \in BOOLEAN : job' = [job EXCEPT ![t].ok = b]
          BY <1>0, <5>2, Locals, Zenon
        <5> QED
          BY <3>1, <5>1, <5>2
      <4> QED
        BY <3>3, <4>1
  <2>4. CASE Save(t)
    <3>1. Finish(t) \/ (job' = job /\ (Goto(t, job[t].ret) \/ Goto(t, "saveRename")))
      BY <2>4 DEF Save, SaveFails
    <3> QED
      BY <1>0, <2>a, <2>c, <3>1, GotoTypes, LabelNames
  <2>5. CASE Tick(t)
    <3>1. job' = job \/ job' = [job EXCEPT ![t].sha = running]
      BY <2>5 DEF Tick, TickLock, TickCheck, TickSha, TickFetch, TickApply
    <3>2. \E l \in {job[t].ret, "tickCheck", "tickSha", "tickFetch", "tickApply"} : Goto(t, l)
      BY <2>5 DEF Tick, TickLock, TickCheck, TickSha, TickFetch, TickApply
    <3>3. pc' \in [Threads -> Labels]
      BY <2>a, <3>2, GotoTypes, LabelNames
    <3> QED
      BY <1>0, <3>1, <3>3, Locals
  <2>6. CASE Push(t) \/ PostClaim(t) \/ CheckOwner(t) \/ Done(t)
    <3> QED
      BY <1>a, <2>6, <2>c, <2>d, LabelNames DEF Push, PostClaim, CheckOwner, Done
  <2>7. CASE Activate(t) \/ Undo(t)
    <3>1. job' = job /\ \E l \in {"remat", "rollback", "done"} : Goto(t, l)
      BY <2>7 DEF Activate, Undo
    <3> QED
      BY <1>0, <3>1, GotoTypes, LabelNames
  <2>8. CASE Deactivate(t) \/ RollbackFirstActivate(t)
    <3>1. \/ Finish(t) \/ ThenOwn(t, "idle", "done")
          \/ job' = job /\ \E l \in {"remat", "done"} : Goto(t, l)
      BY <2>8 DEF Deactivate, RollbackFirstActivate
    <3> QED
      BY <1>0, <1>a, <2>c, <2>e, <3>1, LabelNames, GotoTypes
  <2>9. CASE Rematerialize(t) \/ RecordMaterialize(t)
    <3>1. job' = job \/ job' = [job EXCEPT ![t].act = active]
      BY <2>9 DEF Rematerialize, RecordMaterialize
    <3>2. \E l \in {"rematLoad", "done", "build", "matSave", "undo"} : Goto(t, l)
      BY <2>9 DEF Rematerialize, RecordMaterialize
    <3>3. pc' \in [Threads -> Labels]
      BY <3>2, GotoTypes, LabelNames
    <3> QED
      BY <1>0, <3>1, <3>3, Locals
  <2> QED
    BY <1>1, <2>1, <2>2, <2>3, <2>4, <2>5, <2>6, <2>7, <2>8, <2>9 DEF Step
<1>2. CASE RunLoop
  <2>1. /\ job' = job \/ job' = [job EXCEPT ![Sched].ret = "runInner"]
        /\ \E l \in {"tick", "runWait", "runTop", "runSleep"} : Goto(Sched, l)
    BY <1>2 DEF RunLoop
  <2>2. pc' \in [Threads -> Labels]
    BY <2>1, ThreadsFacts, GotoTypes, LabelNames
  <2> QED
    BY <2>1, <2>2, ThreadsFacts, Locals, LabelNames
<1>3. CASE Reconcile
  <2>1. \/ Finish(Main) \/ ThenOwn(Main, "idle", "done")
        \/ job' = job /\ Goto(Main, "remat")
        \/ job' = [job EXCEPT ![Main].ret = "done"] /\ Goto(Main, "clearSets")
    BY <1>3 DEF Reconcile
  <2>2. "idle" \in Modes
    BY DEF Modes
  <2>3. ASSUME ThenOwn(Main, "idle", "done")
        PROVE  pc' \in [Threads -> Labels] /\ job' \in [Threads -> Job]
    <3>1. pc' \in [Threads -> Labels]
      BY <2>3, ThreadsFacts, GotoTypes, LabelNames DEF ThenOwn
    <3>2. job' \in [Threads -> Job]
      BY <2>2, <2>3, ThreadsFacts, Locals, LabelNames DEF ThenOwn
    <3> QED
      BY <3>1, <3>2
  <2>4. Finish(Main) => pc' \in [Threads -> Labels] /\ job' \in [Threads -> Job]
    BY ThreadsFacts, FinishTypes
  <2>5. pc' \in [Threads -> Labels]
    BY <2>1, <2>3, <2>4, ThreadsFacts, GotoTypes, LabelNames
  <2>6. job' \in [Threads -> Job]
    BY <2>1, <2>3, <2>4, ThreadsFacts, Locals, LabelNames
  <2> QED
    BY <2>5, <2>6
<1>4. CASE EligibilityTick
  BY <1>0, <1>4, ThreadsFacts, GotoTypes DEF EligibilityTick, Labels
<1>5. ASSUME NEW h \in Handlers, NEW o \in Ops, NEW s \in Sets \cup {"none"}, Begin(h, o, s)
      PROVE  pc' \in [Threads -> Labels] /\ job' \in [Threads -> Job]
  <2>1. o \in Operations /\ h \in Threads
    BY OwnershipAssumption, ThreadsFacts
  <2>2. FirstLabel(o) \in Labels /\ FirstReturn(o) \in Labels
    BY <2>1 DEF Operations, FirstLabel, FirstReturn, Labels
  <2>3. [NoJob EXCEPT !.op = o, !.set = s, !.ret = FirstReturn(o)] \in Job
    BY <2>1, <2>2 DEF NoJob, Job, Modes, Labels, NoContent, Content
  <2> QED
    BY <1>0, <1>5, <2>1, <2>2, <2>3, GotoTypes DEF Begin
<1>6. CASE Crash
  <2>1. NoJob \in Job
    BY DEF NoJob, Job, Modes, Labels, NoContent, Content
  <2> QED
    BY <1>6, <2>1 DEF Crash, FirstLabels, Labels
<1> QED
  BY <1>1, <1>2, <1>3, <1>4, <1>5, <1>6 DEF Next, Requests

-----------------------------------------------------------------------------
(* What a step does to the goroutines *)

\* The shape of the goroutines' state, for the updates of single fields.
LEMMA Shape ==
  ASSUME TypeOK
  PROVE  /\ DOMAIN pc = Threads /\ DOMAIN job = Threads
         /\ \A t \in Threads :
              /\ "op" \in DOMAIN job[t] /\ "set" \in DOMAIN job[t] /\ "claims" \in DOMAIN job[t]
              /\ "left" \in DOMAIN job[t] /\ "ret" \in DOMAIN job[t] /\ "after" \in DOMAIN job[t]
              /\ "snap" \in DOMAIN job[t] /\ "act" \in DOMAIN job[t] /\ "prev" \in DOMAIN job[t]
              /\ "was" \in DOMAIN job[t] /\ "ok" \in DOMAIN job[t] /\ "sha" \in DOMAIN job[t]
BY DEF TypeOK, Job

\* A goroutine's step leaves the others where they are.
LEMMA Frame ==
  ASSUME TypeOK, NEW t \in Threads, Step(t), NEW u \in Threads, u # t
  PROVE  pc'[u] = pc[u] /\ job'[u] = job[u]
<1>1. CASE Claim(t) \/ ClearActiveSets(t) \/ SetSchedule(t) \/ SaveRead(t) \/ Refresh(t)
  BY <1>1, Shape DEF Claim, ClearActiveSets, SetSchedule, SaveRead, Refresh, Goto
<1>2. CASE Save(t) \/ Tick(t)
  BY <1>2, Shape DEF Save, SaveFails, Tick, TickLock, TickCheck, TickSha, TickFetch, TickApply,
     Finish, Goto
<1>3. CASE Push(t) \/ PostClaim(t) \/ CheckOwner(t) \/ Done(t) \/ ClaimFrom(t)
  BY <1>3, Shape DEF Push, PostClaim, CheckOwner, Done, ClaimFrom, ThenClaim, Finish, Goto
<1>4. CASE RecordTransition(t) \/ WasOwner(t) \/ LoadActive(t) \/ Activate(t) \/ Deactivate(t)
  BY <1>4, Shape DEF RecordTransition, WasOwner, LoadActive, Activate, Deactivate, ThenOwn,
     Finish, Goto
<1>5. CASE \/ Rematerialize(t) \/ Build(t) \/ RecordMaterialize(t) \/ Undo(t)
           \/ RollbackFirstActivate(t)
  BY <1>5, Shape DEF Rematerialize, Build, RecordMaterialize, Undo, RollbackFirstActivate,
     ThenOwn, Goto
<1> QED
  BY <1>1, <1>2, <1>3, <1>4, <1>5 DEF Step

-----------------------------------------------------------------------------
(* The types *)

LEMMA SetNamedStep ==
  ASSUME TypeOK, SetNamed, Next
  PROVE  SetNamed'
<1> USE DEF SetNamed
<1>1. ASSUME NEW t \in Threads, Step(t), NEW u \in Threads
      PROVE  /\ job'[u].ret \notin {"wasOwner", "actLoad", "actSave"}
             /\ job'[u].after \notin {"wasOwner", "actSave"}
             /\ pc'[u] \in {"wasOwner", "actLoad", "actSave"} \/ job'[u].after = "actLoad" =>
                  job'[u].set \in Sets
  <2>1. CASE u # t
    BY <1>1, <2>1, Frame
  <2>2. CASE u = t
    <3> DEFINE Named == /\ job'[t].ret \notin {"wasOwner", "actLoad", "actSave"}
                        /\ job'[t].after \notin {"wasOwner", "actSave"}
                        /\ pc'[t] \in {"wasOwner", "actLoad", "actSave"} \/ job'[t].after = "actLoad" =>
                             job'[t].set \in Sets
    <3>1. CASE Claim(t) \/ ClearActiveSets(t) \/ SetSchedule(t) \/ SaveRead(t) \/ Refresh(t)
      BY <3>1, Shape DEF Claim, ClearActiveSets, SetSchedule, SaveRead, Refresh, Goto, HookLabel
    <3>2. CASE Save(t)
      BY <3>2, Shape DEF Save, SaveFails, Finish, Goto, Ends, NoJob
    <3>3. CASE Tick(t)
      BY <3>3, Shape DEF Tick, TickLock, TickCheck, TickSha, TickFetch, TickApply, Goto
    <3>4. CASE Push(t) \/ PostClaim(t) \/ CheckOwner(t) \/ Done(t) \/ ClaimFrom(t)
      BY <3>4, Shape DEF Push, PostClaim, CheckOwner, Done, ClaimFrom, ThenClaim, Finish, Goto, Ends,
         NoJob
    <3>5. CASE RecordTransition(t) \/ WasOwner(t) \/ LoadActive(t)
      BY <3>5, Shape DEF RecordTransition, WasOwner, LoadActive, Goto
    <3>6. CASE Activate(t) \/ Deactivate(t)
      BY <3>6, Shape DEF Activate, Deactivate, ThenOwn, Finish, Goto, Ends, NoJob
    <3>7. CASE Rematerialize(t) \/ Build(t) \/ RecordMaterialize(t)
      BY <3>7, Shape DEF Rematerialize, Build, RecordMaterialize, Goto
    <3>8. CASE Undo(t) \/ RollbackFirstActivate(t)
      BY <3>8, Shape DEF Undo, RollbackFirstActivate, ThenOwn, Goto
    <3> QED
      BY <1>1, <2>2, <3>1, <3>2, <3>3, <3>4, <3>5, <3>6, <3>7, <3>8 DEF Step
  <2> QED
    BY <2>1, <2>2
<1>2. CASE RunLoop
  BY <1>2, Shape, ThreadsFacts DEF RunLoop, Goto
<1>3. CASE Reconcile
  <2>1. Finish(Main) => SetNamed'
    BY Shape, ThreadsFacts DEF Finish, Goto, Ends, NoJob
  <2> QED
    BY <1>3, <2>1, Shape, ThreadsFacts DEF Reconcile, ThenOwn, Goto
<1>4. CASE EligibilityTick
  BY <1>4, Shape, ThreadsFacts DEF EligibilityTick, Goto
<1>5. ASSUME NEW h \in Handlers, NEW o \in Ops, NEW s \in Sets \cup {"none"}, Begin(h, o, s)
      PROVE  SetNamed'
  <2>1. o \in Operations /\ h \in Threads
    BY OwnershipAssumption, ThreadsFacts
  <2>2. /\ FirstReturn(o) \notin {"wasOwner", "actLoad", "actSave"}
        /\ FirstLabel(o) \in {"wasOwner", "actLoad", "actSave"} => s \in Sets
    BY <1>5, <2>1 DEF Operations, FirstReturn, FirstLabel, Begin
  <2>3. /\ job'[h].ret = FirstReturn(o) /\ job'[h].after = "idle" /\ job'[h].set = s
        /\ pc'[h] = FirstLabel(o)
        /\ \A u \in Threads : u # h => pc'[u] = pc[u] /\ job'[u] = job[u]
    BY <1>5, <2>1, Shape DEF Begin, NoJob, Goto
  <2> QED
    BY <2>2, <2>3
<1>6. CASE Crash
  BY <1>6 DEF Crash, FirstLabels, NoJob
<1> QED
  BY <1>1, <1>2, <1>3, <1>4, <1>5, <1>6 DEF Next, Requests

\* A goroutine's step may be a write that fails, and counts nothing else.
LEMMA StepCounts ==
  ASSUME NEW t \in Threads, Step(t)
  PROVE  (UNCHANGED faults \/ Fails) /\ UNCHANGED <<crashes, requests>>
<1>1. UNCHANGED faults \/ Fails
  BY DEF Step, Claim, ClearActiveSets, SetSchedule, SaveRead, Save, Refresh, Tick, TickLock,
     TickCheck, TickSha, TickFetch, TickApply, Push, PostClaim, CheckOwner, Done, ClaimFrom,
     RecordTransition, WasOwner, LoadActive, Activate, Deactivate, Rematerialize, Build,
     RecordMaterialize, Undo, RollbackFirstActivate, counts
<1>2. UNCHANGED <<crashes, requests>>
  BY DEF Step, Claim, ClearActiveSets, SetSchedule, SaveRead, Save, Refresh, Tick, TickLock,
     TickCheck, TickSha, TickFetch, TickApply, Push, PostClaim, CheckOwner, Done, ClaimFrom,
     RecordTransition, WasOwner, LoadActive, Activate, Deactivate, Rematerialize, Build,
     RecordMaterialize, Undo, RollbackFirstActivate, counts
<1> QED
  BY <1>1, <1>2

LEMMA TypeStep ==
  ASSUME TypeOK, SetNamed, Next
  PROVE  TypeOK'
<1>1. active' \in SUBSET Sets /\ running' \in Content
  <2>0. active \subseteq Sets /\ running \in Content /\ \A t \in Threads :
          /\ job[t].act \subseteq Sets /\ job[t].prev \subseteq Sets
          /\ pc[t] = "actSave" => job[t].set \in Sets
    BY JobFields DEF TypeOK, SetNamed
  <2>1. \/ UNCHANGED <<active, running>>
        \/ active' = {} /\ UNCHANGED running
        \/ \E t \in Threads : active' \in {job[t].act, job[t].prev, job[t].act \ {job[t].set}}
                              /\ UNCHANGED running
        \/ \E t \in Threads : /\ pc[t] = "actSave" /\ active' = job[t].act \cup {job[t].set}
                              /\ UNCHANGED running
        \/ \E t \in Threads : running' \in {Fetched, Pushed, Built(job[t].act)} /\ UNCHANGED active
    <3>1. ASSUME NEW t \in Threads, Step(t)
          PROVE  \/ UNCHANGED <<active, running>>
                 \/ active' = {} /\ UNCHANGED running
                 \/ active' \in {job[t].act, job[t].prev, job[t].act \ {job[t].set}} /\ UNCHANGED running
                 \/ pc[t] = "actSave" /\ active' = job[t].act \cup {job[t].set} /\ UNCHANGED running
                 \/ running' \in {Fetched, Pushed, Built(job[t].act)} /\ UNCHANGED active
      BY <3>1 DEF Step, Claim, ClearActiveSets, SetSchedule, SaveRead, Save, Refresh, Tick, TickLock,
         TickCheck, TickSha, TickFetch, TickApply, Push, PostClaim, CheckOwner, Done, ClaimFrom,
         RecordTransition, WasOwner, LoadActive, Activate, Deactivate, Rematerialize, Build,
         RecordMaterialize, Undo, RollbackFirstActivate, ApplyOk, ApplyFails, ownVars
    <3>2. RunLoop \/ Reconcile \/ EligibilityTick \/ Requests \/ Crash => UNCHANGED <<active, running>>
      BY DEF RunLoop, Reconcile, EligibilityTick, Requests, Begin, Crash, ownVars
    <3> QED
      BY <3>1, <3>2 DEF Next
  <2>2. \A S \in SUBSET Sets : Built(S) \in Content
    BY DEF Built, Content
  <2>3. Fetched \in Content /\ Pushed \in Content
    BY DEF Fetched, Pushed, Content
  <2> QED
    BY <2>0, <2>1, <2>2, <2>3
<1>2. cpMu' \in BOOLEAN /\ overlap' \in BOOLEAN
  <2>1. cpMu' \in {cpMu, TRUE, FALSE}
    BY DEF Next, Step, Claim, ClearActiveSets, SetSchedule, SaveRead, Save, Refresh, Tick, TickLock,
         TickCheck, TickSha, TickFetch, TickApply, Push, PostClaim, CheckOwner, Done, ClaimFrom,
         RecordTransition, WasOwner, LoadActive, Activate, Deactivate, Rematerialize, Build,
         RecordMaterialize, Undo, RollbackFirstActivate, RunLoop, Reconcile, EligibilityTick, Requests,
         Begin, Crash, ownVars
  <2>2. Observe
    BY DEF Next, Step
  <2> QED
    BY <2>1, <2>2 DEF TypeOK, Observe
<1>3. faults' \in 0..MaxFaults /\ crashes' \in 0..MaxCrashes /\ requests' \in 0..MaxRequests
  <2>0. /\ MaxFaults \in Nat /\ MaxCrashes \in Nat /\ MaxRequests \in Nat
        /\ faults \in 0..MaxFaults /\ crashes \in 0..MaxCrashes /\ requests \in 0..MaxRequests
    BY OwnershipAssumption DEF TypeOK
  <2>2. CASE RunLoop \/ Reconcile
    BY <2>0, <2>2 DEF RunLoop, Reconcile, counts
  <2>3. CASE EligibilityTick \/ Requests \/ Crash
    <3>1. \/ UNCHANGED <<faults, crashes>> /\ requests < MaxRequests /\ requests' = requests + 1
          \/ /\ crashes < MaxCrashes /\ crashes' = crashes + 1 /\ UNCHANGED requests
             /\ UNCHANGED faults \/ (faults < MaxFaults /\ faults' = faults + 1)
      BY <2>3 DEF EligibilityTick, Requests, Begin, Crash, Fails
    <3> QED
      BY <2>0, <3>1
  <2>4. CASE \E t \in Threads : Step(t)
    BY <2>0, <2>4, StepCounts DEF Fails
  <2> QED
    BY <2>2, <2>3, <2>4 DEF Next
<1> QED
  BY <1>1, <1>2, <1>3, StateTypes, ThreadTypes DEF TypeOK

\* Every reachable state of the goroutines and of what they share has its type.
THEOREM TypeCorrect == Spec => [](TypeOK /\ SetNamed)
<1>1. Init => TypeOK /\ SetNamed
  <2> SUFFICES ASSUME Init PROVE TypeOK /\ SetNamed
    OBVIOUS
  <2>1. OwnerTypeOK /\ SubTypeOK
    BY YamlAssumption DEF Init, OwnerInit, SubInit, OwnerTypeOK, SubTypeOK, Modes, Files, BootEnabled,
       BootFile
  <2>2. NoJob \in Job
    BY DEF NoJob, Job, Modes, Labels, NoContent, Content
  <2>3. FirstLabels \in [Threads -> Labels]
    BY DEF FirstLabels, Labels
  <2>4. NoContent \in Content
    BY DEF NoContent, Content
  <2>5. SetNamed
    BY DEF Init, SetNamed, FirstLabels, NoJob
  <2>6. pc \in [Threads -> Labels] /\ job \in [Threads -> Job]
    BY <2>2, <2>3 DEF Init
  <2>7. faults \in 0..MaxFaults /\ crashes \in 0..MaxCrashes /\ requests \in 0..MaxRequests
    BY OwnershipAssumption DEF Init
  <2>8. active \subseteq Sets /\ running \in Content /\ cpMu \in BOOLEAN /\ overlap \in BOOLEAN
    BY <2>4 DEF Init
  <2> QED
    BY <2>1, <2>5, <2>6, <2>7, <2>8 DEF TypeOK
<1>2. TypeOK /\ SetNamed /\ [Next]_vars => (TypeOK /\ SetNamed)'
  <2>1. CASE Next
    BY <2>1, SetNamedStep, TypeStep
  <2>2. CASE UNCHANGED vars
    <3>1. TypeOK => TypeOK'
      BY <2>2 DEF vars, ownerVars, subVars, ownVars, counts, TypeOK, OwnerTypeOK, SubTypeOK
    <3>2. SetNamed => SetNamed'
      BY <2>2 DEF vars, SetNamed
    <3> QED
      BY <3>1, <3>2
  <2> QED
    BY <2>1, <2>2
<1> QED
  BY <1>1, <1>2, PTL DEF Spec

-----------------------------------------------------------------------------
(* The owner is durable *)

\* The registry never shows a mode that config-owner.json does not hold: a crash, at whatever
\* point of a request, leaves the owner as it was.
THEOREM DurableOwner == Spec => []Persisted /\ ModeDurable
<1>1. Init => Persisted
  BY DEF Init, OwnerInit, Persisted
<1>2. Persisted /\ [Next]_vars => Persisted'
  <2>1. ASSUME Persisted, Next PROVE Persisted'
    BY <2>1, OwnerSteps DEF Persisted, ownerVars, Claim, ClaimNoop, ClaimPersists, ClaimRollsBack,
       Crash, OpenOwner
  <2>2. ASSUME Persisted, UNCHANGED vars PROVE Persisted'
    BY <2>2 DEF Persisted, vars, ownerVars
  <2> QED
    BY <2>1, <2>2
<1>3. TypeOK /\ Persisted /\ [Next]_vars => [crashes' # crashes => mode' = mode]_vars
  <2>1. ASSUME TypeOK, Persisted, Next, crashes' # crashes PROVE mode' = mode
    <3>1. Crash
      BY <2>1, StepCounts DEF Next, RunLoop, Reconcile, EligibilityTick, Requests, Begin, counts
    <3> QED
      BY <2>1, <3>1 DEF Crash, OpenOwner, Persisted
  <2> QED
    BY <2>1
<1> QED
  BY <1>1, <1>2, <1>3, TypeCorrect, PTL DEF Spec, ModeDurable

-----------------------------------------------------------------------------
(* Boot *)

\* The steps that each background goroutine takes.
LEMMA LoopSteps ==
  ASSUME LoopInv
  PROVE  /\ Step(Sched) => Tick(Sched)
         /\ Step(Ticker) => \/ Rematerialize(Ticker) \/ Build(Ticker) \/ RecordMaterialize(Ticker)
                            \/ Done(Ticker)
         /\ Step(Main) => \/ Claim(Main) \/ ClearActiveSets(Main) \/ ClaimFrom(Main)
                          \/ RecordTransition(Main) \/ Rematerialize(Main) \/ Build(Main)
                          \/ RecordMaterialize(Main) \/ Done(Main)
         /\ \A t \in Threads : Step(t) => pc[t] \notin {"idle", "serving"}
<1> USE DEF LoopInv, SchedLabels, TickLabels, TickerLabels, MainLabels, MatLabels, Fetching
<1>1. Step(Sched) => Tick(Sched)
  BY DEF Step, Claim, ClearActiveSets, SetSchedule, SaveRead, Save, Refresh, Push, PostClaim,
     CheckOwner, Done, ClaimFrom, RecordTransition, WasOwner, LoadActive, Activate, Deactivate,
     Rematerialize, Build, RecordMaterialize, Undo, RollbackFirstActivate
<1>2. Step(Ticker) => \/ Rematerialize(Ticker) \/ Build(Ticker) \/ RecordMaterialize(Ticker)
                      \/ Done(Ticker)
  BY DEF Step, Claim, ClearActiveSets, SetSchedule, SaveRead, Save, Refresh, Tick, TickLock, TickCheck,
     TickSha, TickFetch, TickApply, Push, PostClaim, CheckOwner, ClaimFrom, RecordTransition,
     WasOwner, LoadActive, Activate, Deactivate, Undo, RollbackFirstActivate
<1>3. Step(Main) => \/ Claim(Main) \/ ClearActiveSets(Main) \/ ClaimFrom(Main)
                    \/ RecordTransition(Main) \/ Rematerialize(Main) \/ Build(Main)
                    \/ RecordMaterialize(Main) \/ Done(Main)
  BY DEF Step, SetSchedule, SaveRead, Save, Refresh, Tick, TickLock, TickCheck, TickSha, TickFetch,
     TickApply, Push, PostClaim, CheckOwner, WasOwner, LoadActive, Activate, Deactivate, Undo,
     RollbackFirstActivate
<1>4. ASSUME NEW t \in Threads, Step(t) PROVE pc[t] \notin {"idle", "serving"}
  BY <1>4 DEF Step, Claim, ClearActiveSets, SetSchedule, SaveRead, Save, Refresh, Tick, TickLock,
     TickCheck, TickSha, TickFetch, TickApply, Push, PostClaim, CheckOwner, Done, ClaimFrom,
     RecordTransition, WasOwner, LoadActive, Activate, Deactivate, Rematerialize, Build,
     RecordMaterialize, Undo, RollbackFirstActivate
<1> QED
  BY <1>1, <1>2, <1>3, <1>4

\* The background goroutines stay where they belong.
LEMMA LoopStep ==
  ASSUME TypeOK, LoopInv, BootInv, Next
  PROVE  LoopInv'
<1> USE DEF SchedLabels, TickLabels, TickerLabels, MainLabels, MatLabels, Fetching
<1>1. ASSUME NEW t \in Threads, Step(t) PROVE LoopInv'
  <2>1. CASE t = Sched
    <3>1. pc'[Sched] \in SchedLabels /\ job'[Sched].ret = "runInner"
      <4>1. job[Sched].ret = "runInner" /\ Tick(Sched)
        BY <1>1, <2>1, LoopSteps DEF LoopInv, Tick, TickLock, TickCheck, TickSha, TickFetch, TickApply
      <4>2. job'[Sched].ret = job[Sched].ret
        BY <4>1, Shape, ThreadsFacts DEF Tick, TickLock, TickCheck, TickSha, TickFetch, TickApply
      <4>3. pc'[Sched] \in SchedLabels
        BY <4>1, Shape, ThreadsFacts DEF Tick, TickLock, TickCheck, TickSha, TickFetch, TickApply,
           Goto
      <4> QED
        BY <4>1, <4>2, <4>3
    <3> QED
      BY <1>1, <2>1, <3>1, Frame, ThreadsFacts DEF LoopInv
  <2>2. CASE t = Ticker
    <3>1. pc'[Ticker] \in TickerLabels /\ job'[Ticker].op = "none"
      <4>1. CASE Rematerialize(Ticker) \/ Build(Ticker)
        BY <4>1, Shape, ThreadsFacts DEF LoopInv, Rematerialize, Build, Goto
      <4>2. CASE RecordMaterialize(Ticker) \/ Done(Ticker)
        BY <4>2, Shape, ThreadsFacts DEF LoopInv, RecordMaterialize, Done, Finish, Ends, NoJob, Goto
      <4> QED
        BY <1>1, <2>2, <4>1, <4>2, LoopSteps
    <3> QED
      BY <1>1, <2>2, <3>1, Frame, ThreadsFacts DEF LoopInv
  <2>3. CASE t = Main
    <3>1. pc'[Main] \in MainLabels /\ job'[Main].op = "none"
      <4>1. CASE Claim(Main) \/ ClaimFrom(Main) \/ ClearActiveSets(Main)
        BY <4>1, Shape, ThreadsFacts DEF LoopInv, BootInv, Claim, ClaimFrom, ClearActiveSets,
           HookLabel, Goto
      <4>2. CASE RecordTransition(Main)
        BY <4>2, Shape, ThreadsFacts DEF LoopInv, BootInv, RecordTransition, Goto
      <4>3. CASE \/ Rematerialize(Main) \/ Build(Main) \/ RecordMaterialize(Main) \/ Done(Main)
        BY <4>3, Shape, ThreadsFacts DEF LoopInv, Rematerialize, Build, RecordMaterialize, Done,
           Finish, Ends, NoJob, Goto
      <4> QED
        BY <1>1, <2>3, <4>1, <4>2, <4>3, LoopSteps
    <3> QED
      BY <1>1, <2>3, <3>1, Frame, ThreadsFacts DEF LoopInv
  <2>4. CASE t \in Handlers
    BY <1>1, <2>4, Frame, ThreadsFacts DEF LoopInv
  <2> QED
    BY <2>1, <2>2, <2>3, <2>4 DEF Threads
<1>2. CASE RunLoop
  <2>1. pc'[Sched] \in SchedLabels
        /\ (pc'[Sched] \in TickLabels \cup {"runInner", "runSleep"} => job'[Sched].ret = "runInner")
    BY <1>2, Shape, ThreadsFacts DEF LoopInv, RunLoop, Goto
  <2>2. \A t \in Threads : t # Sched => pc'[t] = pc[t] /\ job'[t] = job[t]
    BY <1>2, Shape, ThreadsFacts DEF RunLoop, Goto
  <2> QED
    BY <2>1, <2>2, ThreadsFacts DEF LoopInv
<1>3. CASE Reconcile
  <2>1. pc'[Main] \in MainLabels /\ job'[Main].op = "none"
    BY <1>3, Shape, ThreadsFacts DEF LoopInv, Reconcile, ThenOwn, Finish, Ends, NoJob, Goto
  <2>2. \A t \in Threads : t # Main => pc'[t] = pc[t] /\ job'[t] = job[t]
    BY <1>3, Shape, ThreadsFacts DEF Reconcile, ThenOwn, Finish, Goto
  <2> QED
    BY <2>1, <2>2, ThreadsFacts DEF LoopInv
<1>4. CASE EligibilityTick
  BY <1>4, Shape, ThreadsFacts DEF LoopInv, EligibilityTick, Goto
<1>5. CASE Requests
  <2>1. \A t \in Threads : t \notin Handlers => pc'[t] = pc[t] /\ job'[t] = job[t]
    BY <1>5, Shape, ThreadsFacts DEF Requests, Begin, Goto
  <2> QED
    BY <2>1, ThreadsFacts DEF LoopInv
<1>6. CASE Crash
  BY <1>6, ThreadsFacts DEF LoopInv, Crash, FirstLabels, NoJob
<1> QED
  BY <1>1, <1>2, <1>3, <1>4, <1>5, <1>6 DEF Next

\* Until Main serves the API, nothing but Main changes the owner or the active sets, ...
LEMMA BootFrame ==
  ASSUME TypeOK, LoopInv, BootInv, Next, pc[Main] # "serving", ~Crash
  PROVE  \/ \E t \in {Main, Ticker} : Step(t)
         \/ Reconcile
         \/ /\ UNCHANGED <<mode, active>> /\ faults' = faults
            /\ \A t \in Threads \ {Sched, Ticker} : pc'[t] = pc[t] /\ job'[t] = job[t]
            /\ job'[Ticker] = job[Ticker] /\ pc'[Ticker] \in {pc[Ticker], "remat"}
<1>1. ASSUME NEW h \in Handlers PROVE ~Step(h)
  BY LoopSteps, ThreadsFacts DEF BootInv
<1>2. CASE Step(Sched)
  <2>1. UNCHANGED <<mode, active, faults>>
    BY <1>2, LoopSteps DEF Tick, TickLock, TickCheck, TickSha, TickFetch, TickApply, ownerVars,
       ownVars, counts
  <2> QED
    BY <1>2, <2>1, Frame, ThreadsFacts
<1>3. CASE RunLoop
  BY <1>3, Shape, ThreadsFacts DEF RunLoop, Goto, ownerVars, ownVars, counts
<1>4. CASE EligibilityTick
  BY <1>4, Shape, ThreadsFacts DEF EligibilityTick, Goto, ownerVars, ownVars
<1>5. ~Requests
  BY DEF Requests, Begin
<1> QED
  BY <1>1, <1>2, <1>3, <1>4, <1>5 DEF Next, Threads

\* ... the ticker only rebuilds what is active, ...
LEMMA BootTicker ==
  ASSUME TypeOK, LoopInv, BootInv, pc[Main] # "serving", Step(Ticker)
  PROVE  /\ UNCHANGED mode /\ (faults' = 0 => faults = 0 /\ UNCHANGED active)
         /\ \A t \in Threads \ {Ticker} : pc'[t] = pc[t] /\ job'[t] = job[t]
         /\ faults' = 0 => /\ pc'[Ticker] \in {"build", "matLoad", "matSave"} =>
                                mode = "controlplane" /\ active # {}
                           /\ pc'[Ticker] = "matSave" => job'[Ticker].act = active
                           /\ pc'[Ticker] = "rematLoad" => mode = "controlplane" \/ active = {}
<1>0. faults \in Nat
  BY OwnershipAssumption DEF TypeOK
<1>1. \A t \in Threads \ {Ticker} : pc'[t] = pc[t] /\ job'[t] = job[t]
  BY Frame, ThreadsFacts
<1>2. CASE Rematerialize(Ticker)
  BY <1>0, <1>1, <1>2, Shape, ThreadsFacts DEF BootInv, Rematerialize, Goto, ownerVars, counts
<1>3. CASE Build(Ticker)
  BY <1>0, <1>1, <1>3, Shape, ThreadsFacts DEF BootInv, Build, Goto, ownerVars, counts
<1>4. CASE RecordMaterialize(Ticker)
  BY <1>0, <1>1, <1>4, Shape, ThreadsFacts DEF BootInv, LoopInv, RecordMaterialize, Goto, ownerVars,
     Fails
<1>5. CASE Done(Ticker)
  BY <1>0, <1>1, <1>5, Shape, ThreadsFacts DEF Done, Finish, Ends, Goto, ownerVars, ownVars, counts
<1> QED
  BY <1>2, <1>3, <1>4, <1>5, LoopSteps

\* ... and Main makes the owner and the active sets agree.
LEMMA BootMain ==
  ASSUME TypeOK, LoopInv, BootInv, Step(Main) \/ Reconcile
  PROVE  BootInv'
<1>0. faults \in Nat /\ (Fails => faults' # 0)
  BY OwnershipAssumption DEF TypeOK, Fails
<1>1. \A t \in Threads \ {Main} : pc'[t] = pc[t] /\ job'[t] = job[t]
  <2>1. CASE Step(Main)
    BY <2>1, Frame, ThreadsFacts
  <2>2. CASE Reconcile
    BY <2>2, Shape, ThreadsFacts DEF Reconcile, ThenOwn, Finish, Goto
  <2> QED
    BY <2>1, <2>2
<1>2. pc[Main] # "serving"
  BY LoopSteps, ThreadsFacts DEF Reconcile
<1>3. CASE Claim(Main)
  BY <1>0, <1>1, <1>2, <1>3, Shape, ThreadsFacts DEF LoopInv, BootInv, Claim, ClaimNoop,
     ClaimPersists, ClaimRollsBack, HookLabel, Goto, ownerVars, ownVars, MatLabels
<1>4. CASE ClearActiveSets(Main)
  BY <1>0, <1>1, <1>2, <1>4, Shape, ThreadsFacts DEF LoopInv, BootInv, ClearActiveSets, Goto,
     ownerVars, MatLabels
<1>5. CASE ClaimFrom(Main)
  BY <1>0, <1>1, <1>2, <1>5, Shape, ThreadsFacts DEF LoopInv, BootInv, ClaimFrom, Goto,
     ownerVars, ownVars, counts, MatLabels
<1>6. CASE RecordTransition(Main)
  BY <1>0, <1>1, <1>2, <1>6, Shape, ThreadsFacts DEF LoopInv, BootInv, RecordTransition, Goto,
     ownerVars, MatLabels
<1>7. CASE Rematerialize(Main)
  BY <1>0, <1>1, <1>2, <1>7, Shape, ThreadsFacts DEF LoopInv, BootInv, Rematerialize, Goto,
     ownerVars, counts, MatLabels
<1>8. CASE Build(Main)
  BY <1>0, <1>1, <1>2, <1>8, Shape, ThreadsFacts DEF LoopInv, BootInv, Build, Goto,
     ownerVars, counts, MatLabels
<1>9. CASE RecordMaterialize(Main)
  BY <1>0, <1>1, <1>2, <1>9, Shape, ThreadsFacts DEF LoopInv, BootInv, RecordMaterialize, Goto,
     ownerVars, MatLabels
<1>10. CASE Done(Main)
  BY <1>0, <1>1, <1>2, <1>10, Shape, ThreadsFacts DEF BootInv, Done, Finish, Ends, Goto,
     ownerVars, ownVars, counts, MatLabels
<1>11. CASE Reconcile
  BY <1>0, <1>1, <1>2, <1>11, Shape, ThreadsFacts DEF LoopInv, BootInv, Reconcile, ThenOwn, Finish,
     Ends, Goto, ownerVars, ownVars, counts, MatLabels
<1> QED
  BY <1>3, <1>4, <1>5, <1>6, <1>7, <1>8, <1>9, <1>10, <1>11, LoopSteps

LEMMA BootStep ==
  ASSUME TypeOK, LoopInv, BootInv, Next
  PROVE  BootInv'
<1>1. CASE pc[Main] = "serving"
  <2>1. pc'[Main] = "serving" \/ Crash
    <3>1. ASSUME NEW t \in Threads, Step(t) PROVE pc'[Main] = "serving"
      BY <1>1, <3>1, LoopSteps, Frame, ThreadsFacts
    <3>2. RunLoop \/ EligibilityTick \/ Requests => pc'[Main] = "serving"
      BY <1>1, Shape, ThreadsFacts DEF RunLoop, EligibilityTick, Requests, Begin, Goto
    <3>3. ~Reconcile
      BY <1>1 DEF Reconcile
    <3> QED
      BY <3>1, <3>2, <3>3 DEF Next
  <2> QED
    BY <2>1, ThreadsFacts DEF Crash, BootInv, FirstLabels, MatLabels
<1>2. CASE Crash
  BY <1>2, ThreadsFacts DEF Crash, BootInv, FirstLabels, MatLabels
<1>3. CASE pc[Main] # "serving" /\ Step(Ticker)
  BY <1>3, BootTicker, ThreadsFacts DEF BootInv, MatLabels
<1>4. CASE Step(Main) \/ Reconcile
  BY <1>4, BootMain
<1>5. CASE /\ pc[Main] # "serving" /\ UNCHANGED <<mode, active>> /\ faults' = faults
           /\ \A t \in Threads \ {Sched, Ticker} : pc'[t] = pc[t] /\ job'[t] = job[t]
           /\ job'[Ticker] = job[Ticker] /\ pc'[Ticker] \in {pc[Ticker], "remat"}
  BY <1>5, ThreadsFacts DEF BootInv, MatLabels
<1> QED
  BY <1>1, <1>2, <1>3, <1>4, <1>5, BootFrame

LEMMA LoopInit ==
  ASSUME Init
  PROVE  LoopInv /\ BootInv
<1>1. /\ pc[Main] = "reconcile" /\ pc[Sched] = "runTop" /\ pc[Ticker] = "idle"
      /\ \A h \in Handlers : pc[h] = "idle"
      /\ job[Ticker].op = "none" /\ job[Main].op = "none"
  BY ThreadsFacts DEF Init, FirstLabels, NoJob
<1>2. LoopInv
  BY <1>1 DEF LoopInv, SchedLabels, TickLabels, Fetching, TickerLabels, MainLabels
<1>3. BootInv
  BY <1>1, ThreadsFacts DEF BootInv, MatLabels
<1> QED
  BY <1>2, <1>3

\* The API is not served before the active sets and the owner agree, whatever a crash has
\* interrupted: reconcileOwnershipOnBoot repairs what a claim, a hook, an activate or a
\* deactivate has left half done.  Failing writes aside.
THEOREM RepairedAtBoot == Spec => BootRepairs
<1>1. Init => LoopInv /\ BootInv
  BY LoopInit
<1>2. TypeOK /\ LoopInv /\ BootInv /\ [Next]_vars => (LoopInv /\ BootInv)'
  <2>1. CASE Next
    BY <2>1, LoopStep, BootStep
  <2>2. CASE UNCHANGED vars
    BY <2>2 DEF vars, ownerVars, ownVars, counts, LoopInv, BootInv
  <2> QED
    BY <2>1, <2>2
<1>3. TypeOK /\ LoopInv /\ BootInv /\ [Next]_vars =>
        [pc[Main] # "serving" /\ pc'[Main] = "serving" /\ faults' = 0
           => (mode' = "controlplane" <=> active' # {})]_vars
  <2> SUFFICES ASSUME TypeOK, LoopInv, BootInv, Next,
                      pc[Main] # "serving", pc'[Main] = "serving", faults' = 0
               PROVE  mode' = "controlplane" <=> active' # {}
    OBVIOUS
  <2>1. Step(Main) \/ Reconcile
    BY BootFrame, BootTicker, ThreadsFacts DEF Crash, FirstLabels
  <2>2. \/ Done(Main) 
        \/ Reconcile /\ Finish(Main) /\ mode # "controlplane" /\ active = {}
    <3>1. CASE Reconcile
      BY <3>1, Shape, ThreadsFacts DEF Reconcile, ThenOwn, Goto
    <3>2. CASE Claim(Main) \/ ClearActiveSets(Main) \/ ClaimFrom(Main) \/ RecordTransition(Main)
      BY <3>2, Shape, ThreadsFacts DEF BootInv, Claim, ClearActiveSets, ClaimFrom,
         RecordTransition, HookLabel, Goto
    <3>3. CASE Rematerialize(Main) \/ Build(Main) \/ RecordMaterialize(Main)
      BY <3>3, Shape, ThreadsFacts DEF Rematerialize, Build, RecordMaterialize, Goto
    <3> QED
      BY <2>1, <3>1, <3>2, <3>3, LoopSteps
  <2>3. UNCHANGED <<mode, active, faults>>
    BY <2>2 DEF Done, Reconcile, ownerVars, ownVars, counts
  <2> QED
    BY <2>2, <2>3 DEF BootInv, Done
<1> QED
  BY <1>1, <1>2, <1>3, TypeCorrect, PTL DEF Spec, BootRepairs

-----------------------------------------------------------------------------
(* One client at a time: no half state *)

\* While every write succeeds, each step of the one handler leaves what the next one relies on.
LEMMA HandlerStep ==
  ASSUME TypeOK, NEW h \in Handlers, HandlerInv(h), Step(h), ~Fails
  PROVE  HandlerInv(h)'
<1> USE Shape, ThreadsFacts DEF HandlerInv, ScheduleInv, ClaimInv, SetsInv, Leaving,
     Whole, SubFits, SetsFit, FileFits, MatLabels, TickLabels, Fetching
<1>1. CASE Claim(h)
  BY <1>1 DEF Claim, ClaimNoop, ClaimPersists, ClaimRollsBack, HookLabel, ownVars, subVars, ownerVars, Goto
<1>2. CASE ClearActiveSets(h)
  BY <1>2 DEF ClearActiveSets, subVars, ownerVars, Goto
<1>3. CASE SetSchedule(h)
  BY <1>3 DEF SetSchedule, SetEnabled, ownVars, ownerVars, Goto
<1>4. CASE SaveRead(h)
  BY <1>4 DEF SaveRead, ownVars, subVars, ownerVars, Goto
<1>5. CASE Save(h)
  BY <1>5 DEF Save, SaveFails, WriteTmp, RenameTmp, ownVars, ownerVars, Goto
<1>6. CASE Refresh(h)
  BY <1>6 DEF Refresh, ownVars, subVars, ownerVars, Goto
<1>7. CASE Tick(h)
  BY <1>7 DEF Tick, TickLock, TickCheck, TickSha, TickFetch, TickApply, TickReturn, LockFetch, UnlockFetch, ownVars, subVars, ownerVars, Goto
<1>8. CASE Push(h)
  BY <1>8 DEF Push, ThenClaim, ApplyFails, Finish, Ends, NoJob, subVars, ownerVars, Goto
<1>9. CASE PostClaim(h)
  BY <1>9 DEF PostClaim, ThenClaim, ownVars, subVars, ownerVars, Goto
<1>10. CASE CheckOwner(h)
  BY <1>10 DEF CheckOwner, ThenClaim, Finish, Ends, NoJob, ownVars, subVars, ownerVars, Goto
<1>11. CASE Done(h)
  BY <1>11 DEF Done, Finish, Ends, NoJob, ownVars, subVars, ownerVars, Goto
<1>12. CASE ClaimFrom(h)
  BY <1>12 DEF ClaimFrom, ownVars, subVars, ownerVars, Goto
<1>13. CASE RecordTransition(h)
  BY <1>13 DEF RecordTransition, subVars, ownerVars, Goto
<1>14. CASE WasOwner(h)
  BY <1>14 DEF WasOwner, ownVars, subVars, ownerVars, Goto
<1>15. CASE LoadActive(h)
  BY <1>15 DEF LoadActive, ownVars, subVars, ownerVars, Goto
<1>16. CASE Activate(h)
  BY <1>16 DEF Activate, subVars, ownerVars, Goto
<1>17. CASE Deactivate(h)
  BY <1>17 DEF Deactivate, ThenOwn, Finish, Ends, NoJob, subVars, ownerVars, Goto
<1>18. CASE Rematerialize(h)
  BY <1>18 DEF Rematerialize, subVars, ownerVars, Goto
<1>19. CASE Build(h)
  BY <1>19 DEF Build, subVars, ownerVars, Goto
<1>20. CASE RecordMaterialize(h)
  BY <1>20 DEF RecordMaterialize, subVars, ownerVars, Goto
<1>21. CASE Undo(h)
  BY <1>21 DEF Undo, subVars, ownerVars, Goto
<1>22. CASE RollbackFirstActivate(h)
  BY <1>22 DEF RollbackFirstActivate, ThenOwn, ownVars, subVars, ownerVars, Goto
<1> QED
  BY <1>1, <1>2, <1>3, <1>4, <1>5, <1>6, <1>7, <1>8, <1>9, <1>10, <1>11, <1>12, <1>13, <1>14, <1>15, <1>16, <1>17, <1>18, <1>19, <1>20, <1>21, <1>22 DEF Step

\* The only handler there is.
LEMMA TheHandler ==
  ASSUME OneClient
  PROVE  \E h \in Handlers : Handlers = {h} /\ Threads = {h, Sched, Ticker, Main}
<1>1. \E h : Handlers = {h}
  BY OwnershipAssumption, FS_Singleton DEF OneClient
<1> QED
  BY <1>1 DEF Threads

\* Beside one client, the goroutines of the control plane take no step but Main's at boot, and the
\* schedule's only touch the trigger, the fetch lock and the running configuration.
LEMMA SeqSteps ==
  ASSUME TypeOK, LoopInv, SeqInv, Next, OneClient, faults' = 0, crashes' = 0,
         NEW h \in Handlers, Handlers = {h}
  PROVE  /\ faults = 0 /\ crashes = 0 /\ ~Fails
         /\ \/ Step(h) /\ \A t \in Threads \ {h} : pc'[t] = pc[t] /\ job'[t] = job[t]
            \/ /\ Step(Sched) \/ RunLoop
               /\ UNCHANGED <<mode, ownerFile, active, enabled, subFile, subTmp>>
               /\ \A t \in Threads \ {Sched} : pc'[t] = pc[t] /\ job'[t] = job[t]
            \/ /\ Reconcile /\ mode = "idle" /\ UNCHANGED <<ownerVars, subVars, ownVars>>
               /\ pc'[Main] = "serving" /\ \A t \in Threads \ {Main} : pc'[t] = pc[t] /\ job'[t] = job[t]
            \/ Requests
<1>1. faults = 0 /\ crashes = 0 /\ ~Fails /\ ~Crash
  <2>1. faults \in Nat /\ crashes \in Nat
    BY OwnershipAssumption DEF TypeOK
  <2>2. ~Fails /\ ~Crash
    <3>1. (Fails => faults' = faults + 1) /\ (Crash => crashes' = crashes + 1)
      BY DEF Fails, Crash
    <3> QED
      BY <2>1, <3>1
  <2>3. UNCHANGED <<faults, crashes>>
    BY <2>2, StepCounts DEF Next, RunLoop, Reconcile, EligibilityTick, Requests, Begin, counts
  <2> QED
    BY <2>2, <2>3
<1>2. pc[Ticker] = "idle" /\ pc[Main] \in {"reconcile", "serving"} /\ Tickers = {}
      /\ (pc[Main] = "reconcile" => mode = "idle" /\ active = {})
  BY <1>1 DEF SeqInv, OneClient
<1>3. ~Step(Ticker) /\ ~Step(Main) /\ ~EligibilityTick
  <2>1. ~Step(Main)
    BY <1>2, LoopSteps DEF Claim, ClearActiveSets, ClaimFrom, RecordTransition, Rematerialize, Build,
       RecordMaterialize, Done
  <2> QED
    BY <1>2, <2>1, LoopSteps, ThreadsFacts DEF EligibilityTick
<1>4. CASE Step(h)
  BY <1>1, <1>4, Frame, ThreadsFacts
<1>5. CASE Step(Sched)
  <2>1. UNCHANGED <<mode, ownerFile, active, enabled, subFile, subTmp>>
    BY <1>5, LoopSteps DEF Tick, TickLock, TickCheck, TickSha, TickFetch, TickApply, TickReturn,
       LockFetch, UnlockFetch, ownerVars, ownVars, subVars
  <2> QED
    BY <1>1, <1>5, <2>1, Frame, ThreadsFacts
<1>6. CASE RunLoop
  <2>1. UNCHANGED <<mode, ownerFile, active, enabled, subFile, subTmp>>
    BY <1>6 DEF RunLoop, TakeTrigger, ownerVars, ownVars, subVars
  <2>2. \A t \in Threads \ {Sched} : pc'[t] = pc[t] /\ job'[t] = job[t]
    BY <1>6, Shape, ThreadsFacts DEF RunLoop, Goto
  <2> QED
    BY <1>1, <1>6, <2>1, <2>2
<1>7. CASE Reconcile
  <2>1. mode = "idle" /\ Finish(Main)
    BY <1>2, <1>7 DEF Reconcile
  <2>2. UNCHANGED <<ownerVars, subVars, ownVars>>
    BY <1>7 DEF Reconcile
  <2> QED
    BY <1>1, <1>7, <2>1, <2>2, Shape, ThreadsFacts DEF Finish, Ends, Goto
<1> QED
  BY <1>1, <1>3, <1>4, <1>5, <1>6, <1>7 DEF Next, Threads

\* A request begins where the last one has left everything whole.
LEMMA BeginStep ==
  ASSUME TypeOK, NEW h \in Handlers, NEW o \in Ops, NEW s \in Sets \cup {"none"}, Begin(h, o, s)
  PROVE  /\ UNCHANGED <<mode, ownerFile, active, running, enabled, subFile, subTmp>>
         /\ pc[h] = "idle" /\ pc[Main] = "serving"
         /\ \A t \in Threads \ {h} : pc'[t] = pc[t] /\ job'[t] = job[t]
         /\ job'[h].op = o /\ job'[h].ret = FirstReturn(o)
         /\ \/ o = "put" /\ pc'[h] = "push"
            \/ o = "post" /\ pc'[h] = "subscribe"
            \/ o = "delete" /\ pc'[h] = "unsubscribe"
            \/ o = "refresh" /\ pc'[h] = "refresh"
            \/ o = "activate" /\ pc'[h] = "wasOwner"
            \/ o = "deactivate" /\ pc'[h] = "deaLoad"
<1>1. o \in Operations
  BY OwnershipAssumption
<1>2. /\ job'[h].op = o /\ job'[h].ret = FirstReturn(o) /\ pc'[h] = FirstLabel(o)
      /\ \A t \in Threads \ {h} : pc'[t] = pc[t] /\ job'[t] = job[t]
  BY Shape, ThreadsFacts DEF Begin, NoJob, Goto
<1>3. /\ UNCHANGED <<mode, ownerFile, active, running, enabled, subFile, subTmp>>
      /\ pc[h] = "idle" /\ pc[Main] = "serving"
  BY DEF Begin, ownerVars, subVars, ownVars
<1>4. \/ o = "put" /\ pc'[h] = "push"
      \/ o = "post" /\ pc'[h] = "subscribe"
      \/ o = "delete" /\ pc'[h] = "unsubscribe"
      \/ o = "refresh" /\ pc'[h] = "refresh"
      \/ o = "activate" /\ pc'[h] = "wasOwner"
      \/ o = "deactivate" /\ pc'[h] = "deaLoad"
  BY <1>1, <1>2 DEF Operations, FirstLabel
<1> QED
  BY <1>2, <1>3, <1>4

LEMMA SeqStep ==
  ASSUME TypeOK, LoopInv, BootInv, SeqInv, Next
  PROVE  SeqInv'
<1> SUFFICES ASSUME OneClient, faults' = 0, crashes' = 0
             PROVE  /\ pc'[Ticker] = "idle" /\ pc'[Main] \in {"reconcile", "serving"}
                    /\ pc'[Main] = "reconcile" => mode' = "idle" /\ active' = {}
                    /\ \A h \in Handlers : HandlerInv(h)'
  BY DEF SeqInv, OneClient
<1>1. PICK h \in Handlers : Handlers = {h} /\ Threads = {h, Sched, Ticker, Main}
  BY TheHandler
<1>2. faults = 0 /\ crashes = 0 /\ ~Fails
  BY <1>1, SeqSteps
<1>3. /\ pc[Ticker] = "idle" /\ pc[Main] \in {"reconcile", "serving"} /\ HandlerInv(h)
      /\ pc[Main] = "reconcile" => mode = "idle" /\ active = {} /\ pc[h] = "idle"
  BY <1>2 DEF SeqInv, BootInv
<1>4. CASE Step(h) /\ \A t \in Threads \ {h} : pc'[t] = pc[t] /\ job'[t] = job[t]
  <2>1. HandlerInv(h)'
    BY <1>2, <1>3, <1>4, HandlerStep
  <2>2. pc[Main] # "reconcile"
    BY <1>3, <1>4, LoopSteps, ThreadsFacts
  <2> QED
    BY <1>1, <1>3, <1>4, <2>1, <2>2, ThreadsFacts
<1>5. CASE /\ UNCHANGED <<mode, ownerFile, active, enabled, subFile, subTmp>>
           /\ \A t \in Threads \ {Sched} : pc'[t] = pc[t] /\ job'[t] = job[t]
  <2>1. HandlerInv(h)'
    BY <1>3, <1>5, ThreadsFacts DEF HandlerInv, ScheduleInv, ClaimInv, SetsInv, Leaving, Whole, SubFits,
       SetsFit, FileFits, MatLabels, TickLabels, Fetching
  <2> QED
    BY <1>1, <1>3, <1>5, <2>1, ThreadsFacts
<1>6. CASE /\ Reconcile /\ mode = "idle" /\ UNCHANGED <<ownerVars, subVars, ownVars>>
           /\ pc'[Main] = "serving" /\ \A t \in Threads \ {Main} : pc'[t] = pc[t] /\ job'[t] = job[t]
  <2>1. HandlerInv(h)'
    BY <1>3, <1>6, ThreadsFacts DEF HandlerInv, ScheduleInv, ClaimInv, SetsInv, Leaving, Whole, SubFits,
       SetsFit, FileFits, MatLabels, TickLabels, Fetching, ownerVars, subVars, ownVars
  <2> QED
    BY <1>1, <1>3, <1>6, <2>1, ThreadsFacts
<1>7. CASE Requests
  <2>1. PICK o \in Ops, s \in Sets \cup {"none"} : Begin(h, o, s)
    BY <1>1, <1>7 DEF Requests
  <2>2. HandlerInv(h)'
    BY <1>3, <2>1, BeginStep DEF HandlerInv, FirstReturn, ScheduleInv, ClaimInv, SetsInv, Leaving,
       Whole, SubFits, SetsFit, FileFits, MatLabels, TickLabels, Fetching
  <2> QED
    BY <1>1, <1>3, <2>1, <2>2, BeginStep, ThreadsFacts
<1> QED
  BY <1>1, <1>4, <1>5, <1>6, <1>7, SeqSteps

LEMMA SeqAlways == Spec => [](LoopInv /\ BootInv /\ SeqInv)
<1>1. Init => SeqInv
  <2> SUFFICES ASSUME Init, OneClient
               PROVE  /\ pc[Ticker] = "idle" /\ pc[Main] = "reconcile" /\ mode = "idle" /\ active = {}
                      /\ \A h \in Handlers : HandlerInv(h)
    BY DEF SeqInv
  <2>1. /\ pc[Ticker] = "idle" /\ pc[Main] = "reconcile" /\ mode = "idle" /\ active = {}
        /\ \A h \in Handlers : pc[h] = "idle"
    BY ThreadsFacts DEF Init, FirstLabels, OwnerInit
  <2>2. Whole
    BY DEF Init, OwnerInit, SubInit, OneClient, BootEnabled, BootFile, Whole, SubFits, SetsFit, FileFits
  <2> QED
    BY <2>1, <2>2 DEF HandlerInv, ScheduleInv, ClaimInv, SetsInv, MatLabels, TickLabels, Fetching
<1>2. Init => LoopInv /\ BootInv
  BY LoopInit
<1>3. TypeOK /\ LoopInv /\ BootInv /\ SeqInv /\ [Next]_vars => (LoopInv /\ BootInv /\ SeqInv)'
  <2>1. CASE Next
    BY <2>1, LoopStep, BootStep, SeqStep
  <2>2. CASE UNCHANGED vars
    BY <2>2 DEF vars, ownerVars, subVars, ownVars, counts, LoopInv, BootInv, SeqInv, HandlerInv, ScheduleInv,
       ClaimInv, SetsInv, Leaving, Whole, SubFits, SetsFit, FileFits
  <2> QED
    BY <2>1, <2>2
<1> QED
  BY <1>1, <1>2, <1>3, TypeCorrect, PTL DEF Spec

\* Requests that come one at a time, beside the running schedule, leave no half state: the hooks
\* and the saves of a request bring the owner, the schedule, its file and the active sets together
\* again, also when an apply or a fetch has failed.
THEOREM WholeBetweenRequests == Spec => []NoHalfState
<1>1. TypeOK /\ Persisted /\ SeqInv => NoHalfState
  <2> SUFFICES ASSUME TypeOK, Persisted, SeqInv, Sequential, Quiet
               PROVE  Whole /\ ownerFile = mode
    BY DEF NoHalfState, Whole, SubFits, SetsFit, FileFits
  <2>1. OneClient /\ faults = 0 /\ crashes = 0
    BY DEF Sequential, OneClient
  <2>2. PICK h \in Handlers : Handlers = {h}
    BY <2>1, TheHandler
  <2>3. HandlerInv(h) /\ pc[h] = "idle"
    BY <2>1 DEF SeqInv, Quiet
  <2> QED
    BY <2>3 DEF HandlerInv, Persisted
<1>2. Spec => []Persisted
  BY DurableOwner, PTL
<1> QED
  BY <1>1, <1>2, SeqAlways, TypeCorrect, PTL

-----------------------------------------------------------------------------
(* One client at a time: the owner's configuration runs *)

\* Each step of the one handler leaves the running configuration as the next one expects it.
LEMMA HandlerRuns ==
  ASSUME TypeOK, NEW h \in Handlers, HandlerInv(h), RunsInv(h), Step(h), ~Fails
  PROVE  RunsInv(h)'
<1> USE Shape, ThreadsFacts DEF HandlerInv, ScheduleInv, ClaimInv, SetsInv, Leaving,
     Whole, SubFits, SetsFit, FileFits, MatLabels, TickLabels, Fetching, RunsInv, Wrote
<1>1. CASE Claim(h)
  BY <1>1 DEF Claim, ClaimNoop, ClaimPersists, ClaimRollsBack, HookLabel, ownVars, subVars, ownerVars, Goto
<1>2. CASE ClearActiveSets(h)
  BY <1>2 DEF ClearActiveSets, subVars, ownerVars, ownVars, Goto
<1>3. CASE SetSchedule(h)
  BY <1>3 DEF SetSchedule, SetEnabled, ownVars, ownerVars, Goto
<1>4. CASE SaveRead(h)
  BY <1>4 DEF SaveRead, ownVars, subVars, ownerVars, Goto
<1>5. CASE Save(h)
  BY <1>5 DEF Save, SaveFails, WriteTmp, RenameTmp, ownVars, ownerVars, Goto
<1>6. CASE Refresh(h)
  BY <1>6 DEF Refresh, ownVars, subVars, ownerVars, Goto
<1>7. CASE Tick(h)
  BY <1>7 DEF Tick, TickLock, TickCheck, TickSha, TickFetch, TickApply, TickReturn, LockFetch, UnlockFetch, ownVars, subVars, ownerVars, ApplyOk, ApplyFails, Goto
<1>8. CASE Push(h)
  BY <1>8 DEF Push, ThenClaim, Finish, Ends, NoJob, subVars, ownerVars, ownVars, ApplyOk, ApplyFails, Goto
<1>9. CASE PostClaim(h)
  BY <1>9 DEF PostClaim, ThenClaim, ownVars, subVars, ownerVars, Goto
<1>10. CASE CheckOwner(h)
  BY <1>10 DEF CheckOwner, ThenClaim, Finish, Ends, NoJob, ownVars, subVars, ownerVars, Goto
<1>11. CASE Done(h)
  BY <1>11 DEF Done, Finish, Ends, NoJob, ownVars, subVars, ownerVars, Goto
<1>12. CASE ClaimFrom(h)
  BY <1>12 DEF ClaimFrom, ownVars, subVars, ownerVars, Goto
<1>13. CASE RecordTransition(h)
  BY <1>13 DEF RecordTransition, subVars, ownerVars, ownVars, Goto
<1>14. CASE WasOwner(h)
  BY <1>14 DEF WasOwner, ownVars, subVars, ownerVars, Goto
<1>15. CASE LoadActive(h)
  BY <1>15 DEF LoadActive, ownVars, subVars, ownerVars, Goto
<1>16. CASE Activate(h)
  BY <1>16 DEF Activate, subVars, ownerVars, ownVars, Goto
<1>17. CASE Deactivate(h)
  BY <1>17 DEF Deactivate, ThenOwn, Finish, Ends, NoJob, subVars, ownerVars, ownVars, Goto
<1>18. CASE Rematerialize(h)
  BY <1>18 DEF Rematerialize, subVars, ownerVars, ownVars, Goto
<1>19. CASE Build(h)
  BY <1>19 DEF Build, subVars, ownerVars, ownVars, ApplyOk, ApplyFails, Goto
<1>20. CASE RecordMaterialize(h)
  BY <1>20 DEF RecordMaterialize, subVars, ownerVars, ownVars, Goto
<1>21. CASE Undo(h)
  BY <1>21 DEF Undo, subVars, ownerVars, ownVars, Goto
<1>22. CASE RollbackFirstActivate(h)
  BY <1>22 DEF RollbackFirstActivate, ThenOwn, ownVars, subVars, ownerVars, Goto
<1> QED
  BY <1>1, <1>2, <1>3, <1>4, <1>5, <1>6, <1>7, <1>8, <1>9, <1>10, <1>11, <1>12, <1>13, <1>14, <1>15, <1>16, <1>17, <1>18, <1>19, <1>20, <1>21, <1>22 DEF Step

LEMMA RunStep ==
  ASSUME TypeOK, LoopInv, BootInv, SeqInv, RunInv, Next
  PROVE  RunInv'
<1> SUFFICES ASSUME OneClient, faults' = 0, crashes' = 0, ~overlap'
             PROVE  FetchInv' /\ \A h \in Handlers : RunsInv(h)'
  BY DEF RunInv, OneClient
<1>1. PICK h \in Handlers : Handlers = {h} /\ Threads = {h, Sched, Ticker, Main}
  BY TheHandler
<1>2. /\ faults = 0 /\ crashes = 0 /\ ~Fails /\ ~overlap
      /\ pc'[Sched] \in Fetching => \A g \in Handlers : pc'[g] = "idle"
  <2>1. Observe
    BY DEF Next, Step
  <2> QED
    BY <1>1, <2>1, SeqSteps DEF Observe, TypeOK
<1>3. /\ HandlerInv(h) /\ FetchInv /\ RunsInv(h)
      /\ pc[Main] = "reconcile" => pc[h] = "idle" /\ mode = "idle"
  BY <1>2 DEF SeqInv, RunInv, BootInv
<1>4. CASE Step(h) /\ \A t \in Threads \ {h} : pc'[t] = pc[t] /\ job'[t] = job[t]
  <2>1. RunsInv(h)'
    BY <1>2, <1>3, <1>4, HandlerRuns
  <2>2. pc[Sched] \notin Fetching /\ pc'[Sched] = pc[Sched]
    BY <1>3, <1>4, LoopSteps, ThreadsFacts DEF FetchInv
  <2> QED
    BY <1>1, <2>1, <2>2 DEF FetchInv, Fetching
<1>5. CASE /\ Step(Sched) \/ RunLoop
           /\ UNCHANGED <<mode, ownerFile, active, enabled, subFile, subTmp>>
           /\ \A t \in Threads \ {Sched} : pc'[t] = pc[t] /\ job'[t] = job[t]
  <2>1. pc'[Sched] \in {"tickSha", "tickFetch", "tickApply"} => enabled
    <3>1. CASE Step(Sched)
      <4>1. Tick(Sched)
        BY <3>1, LoopSteps
      <4>2. pc[Sched] \in TickLabels => job[Sched].ret = "runInner"
        BY DEF LoopInv
      <4>3. pc[Sched] \in {"tickSha", "tickFetch", "tickApply"} => enabled
        BY <1>3 DEF FetchInv
      <4> QED
        BY <4>1, <4>2, <4>3, Shape, ThreadsFacts DEF Tick, TickLock, TickCheck, TickSha, TickFetch,
           TickApply, Goto, TickLabels, Fetching
    <3>2. CASE RunLoop
      BY <3>2, Shape, ThreadsFacts DEF RunLoop, Goto
    <3> QED
      BY <1>5, <3>1, <3>2
  <2>2. \/ UNCHANGED running
        \/ running' = Fetched /\ pc[Sched] = "tickApply"
    BY <1>5, LoopSteps DEF Tick, TickLock, TickCheck, TickSha, TickFetch, TickApply, ApplyOk,
       ApplyFails, RunLoop, ownVars
  <2>3. CASE UNCHANGED running
    <3>1. RunsInv(h)'
      BY <1>3, <1>5, <2>3, ThreadsFacts DEF RunsInv, Wrote, TickLabels, Fetching
    <3> QED
      BY <1>1, <1>2, <1>5, <2>1, <3>1 DEF FetchInv
  <2>4. CASE pc[Sched] = "tickApply"
    <3>1. pc[h] = "idle" /\ pc'[h] = "idle" /\ enabled
      BY <1>3, <1>5, <2>4, ThreadsFacts DEF FetchInv, Fetching
    <3>2. mode = "subscribed"
      BY <1>3, <3>1 DEF HandlerInv, Whole, SubFits
    <3>3. RunsInv(h)'
      BY <1>5, <3>1, <3>2 DEF RunsInv, Wrote
    <3> QED
      BY <1>1, <1>2, <1>5, <2>1, <3>3 DEF FetchInv
  <2> QED
    BY <2>2, <2>3, <2>4
<1>6. CASE /\ Reconcile /\ mode = "idle" /\ UNCHANGED <<ownerVars, subVars, ownVars>>
           /\ pc'[Main] = "serving" /\ \A t \in Threads \ {Main} : pc'[t] = pc[t] /\ job'[t] = job[t]
  <2>1. pc'[Sched] = pc[Sched] /\ pc'[h] = pc[h] /\ pc[h] = "idle" /\ enabled' = enabled /\ mode' = "idle"
    BY <1>3, <1>6, ThreadsFacts DEF Reconcile, subVars, ownerVars
  <2> QED
    BY <1>1, <1>2, <1>3, <2>1 DEF FetchInv, RunsInv, Wrote, TickLabels, Fetching
<1>7. CASE Requests
  <2>1. PICK o \in Ops, s \in Sets \cup {"none"} : Begin(h, o, s)
    BY <1>1, <1>7 DEF Requests
  <2>2. Wrote'
    BY <1>3, <2>1, BeginStep DEF RunsInv, Wrote
  <2>3. RunsInv(h)'
    BY <2>1, <2>2, BeginStep DEF RunsInv, TickLabels, Fetching
  <2>4. pc'[h] # "idle"
    BY <2>1, BeginStep
  <2> QED
    BY <1>1, <1>2, <2>3, <2>4 DEF FetchInv, Fetching
<1> QED
  BY <1>1, <1>4, <1>5, <1>6, <1>7, SeqSteps

\* As long as no scheduled fetch is under way during a request, the box runs what the owner wrote:
\* the pushed configuration under direct, that of the active sets under controlplane, also after an
\* apply that failed and was undone.
THEOREM OwnerRuns == Spec => []OwnerWrote
<1>1. Init => RunInv
  <2>1. Init => /\ pc[Sched] = "runTop" /\ mode = "idle"
                /\ \A h \in Handlers : pc[h] = "idle"
    BY ThreadsFacts DEF Init, FirstLabels, OwnerInit
  <2> QED
    BY <2>1 DEF RunInv, FetchInv, RunsInv, Wrote, TickLabels, Fetching
<1>2. TypeOK /\ LoopInv /\ BootInv /\ SeqInv /\ RunInv /\ [Next]_vars => RunInv'
  <2>1. CASE Next
    BY <2>1, RunStep
  <2>2. CASE UNCHANGED vars
    BY <2>2 DEF vars, ownerVars, subVars, ownVars, counts, RunInv, FetchInv, RunsInv, Wrote
  <2> QED
    BY <2>1, <2>2
<1>3. RunInv => OwnerWrote
  <2> SUFFICES ASSUME RunInv, Sequential, Quiet, ~overlap PROVE Wrote
    BY DEF OwnerWrote, Wrote
  <2>1. OneClient /\ faults = 0 /\ crashes = 0
    BY DEF Sequential, OneClient
  <2>2. PICK h \in Handlers : Handlers = {h}
    BY <2>1, TheHandler
  <2>3. RunsInv(h) /\ pc[h] = "idle"
    BY <2>1 DEF RunInv, Quiet
  <2> QED
    BY <2>3 DEF RunsInv
<1> QED
  BY <1>1, <1>2, <1>3, SeqAlways, TypeCorrect, PTL DEF Spec

=============================================================================
