------------------------------- MODULE Agent --------------------------------
(***************************************************************************)
(* The agent's own credentials and its heartbeat: package auth (the        *)
(* bootstrap token of agent.yaml, the managed tokens, credentials.json),   *)
(* package heartbeat (Configure, Disable, save, Run, tick,                 *)
(* heartbeat-state.json) and the handlers of api that call them.           *)
(*                                                                         *)
(* auth.Store holds its lock while it writes, so Create, Delete and        *)
(* DisableBootstrap are one step; Rotate is two critical sections.  The    *)
(* Pusher's lock covers its memory and not the file: save reads, writes a  *)
(* temporary file and renames it.  A token is a number, a heartbeat Spec a *)
(* model value; LastUsed, names, the payload and the last result of a post *)
(* are left out, and so is a state file without "present", which this code *)
(* never writes.  Definitions marked "Variant:" are wrong versions of the  *)
(* one that follows; no specification uses them.                           *)
(***************************************************************************)
EXTENDS Integers, FiniteSets

CONSTANTS
  Clients,     \* goroutines of the HTTP server
  Operation,   \* the requests each client makes
  Specs,       \* heartbeat specs with a URL
  NoSpec,      \* the spec without one
  Seed,        \* heartbeat of agent.yaml: a spec, or NoSpec
  NoFile,      \* heartbeat-state.json before its first write
  MaxTokens,   \* bound: managed tokens ever created
  MaxRequests, \* bound: requests
  MaxFaults,   \* bound: failed writes
  MaxCrashes   \* bound: restarts of the process

VARIABLES
  boot, tokens,     \* auth.Store: bootstrapEnabled, ids of the managed tokens
  credFile,         \* credentials.json
  born,             \* ids given out
  enabled, spec,    \* heartbeat.Pusher
  outbound,         \* Pusher.token; 0 is the token of agent.yaml
  hbFile, hbTmp,    \* heartbeat-state.json and its temporary file
  trigger,          \* the trigger channel holds a value
  loop,             \* Pusher.Run: where it is, and the spec of its tick
  pc, job,          \* where each client's request is, and its locals
  given, gone,      \* history: tokens answered to a client; tokens removed for good
  off, failed,      \* history: a DELETE or PUT was answered; the last one with an error
  requests, faults, crashes

authVars == <<boot, tokens, credFile, born, given, gone>>
hbVars   == <<enabled, spec, hbFile, hbTmp, trigger, off, failed>>
counts   == <<requests, faults, crashes>>
vars     == <<authVars, hbVars, outbound, loop, pc, job, counts>>

Tokens     == 1..MaxTokens
Operations == {"create", "delete", "rotate", "revoke", "disableBootstrap", "put", "off"}
Saved(e, s) == [enabled |-> e, spec |-> s]
NoJob      == [token |-> 0, saved |-> Saved(FALSE, NoSpec), off |-> FALSE]

\* What the Pusher holds, and its file: nothing is enabled without a spec.
HbStates ==
  {f \in [enabled : BOOLEAN, spec : Specs \cup {NoSpec}] : f.enabled => f.spec # NoSpec}

ASSUME AgentAssumption ==
  /\ Operation \in [Clients -> SUBSET Operations]
  /\ NoSpec \notin Specs /\ Seed \in Specs \cup {NoSpec}
  /\ {MaxTokens, MaxRequests, MaxFaults, MaxCrashes} \subseteq Nat

-----------------------------------------------------------------------------
(* auth.Store. *)

\* CountActive: how many credentials authenticate.
Active(b, ts) == Cardinality(ts) + (IF b THEN 1 ELSE 0)

\* saveLocked
Save(ok, b, ts) ==
  /\ credFile' = IF ok THEN [boot |-> b, tokens |-> ts] ELSE credFile
  /\ IF ok THEN UNCHANGED faults ELSE faults < MaxFaults /\ faults' = faults + 1

Answer(c)    == pc' = [pc EXCEPT ![c] = "idle"] /\ job' = [job EXCEPT ![c] = NoJob]
Goto(c, l, j) == pc' = [pc EXCEPT ![c] = l] /\ job' = [job EXCEPT ![c] = j]

\* requireAuth: a request needs a credential that is accepted.
Request(c, op) ==
  /\ pc[c] = "idle" /\ op \in Operation[c]
  /\ Active(boot, tokens) > 0
  /\ requests < MaxRequests /\ requests' = requests + 1
  /\ UNCHANGED crashes

\* Create: appends and saves; a failed save takes the token back.
Create(ok) ==
  /\ born < MaxTokens /\ born' = born + 1
  /\ tokens' = IF ok THEN tokens \cup {born'} ELSE tokens
  /\ Save(ok, boot, tokens \cup {born'})
  /\ UNCHANGED <<boot, gone>>

HandleAuthCreate(c) == \E ok \in BOOLEAN :
  /\ Request(c, "create") /\ Create(ok) /\ Answer(c)
  /\ given' = IF ok THEN given \cup {born'} ELSE given
  /\ UNCHANGED <<hbVars, outbound, loop>>

\* Variant: the last credential may go.
Delete_NoGuard(t, ok) ==
  /\ t \in tokens
  /\ tokens' = tokens \ {t}
  /\ Save(ok, boot, tokens')
  /\ gone' = IF ok THEN gone \cup {t} ELSE gone

\* Delete: refused for the last credential; a failed save is reported and memory keeps
\* the removal.
Delete(t, ok) ==
  /\ t \in tokens
  /\ boot \/ Cardinality(tokens) - 1 >= 1
  /\ tokens' = tokens \ {t}
  /\ Save(ok, boot, tokens')
  /\ gone' = IF ok THEN gone \cup {t} ELSE gone

HandleAuthDelete(c) == \E t \in Tokens, ok \in BOOLEAN :
  /\ Request(c, "delete") /\ Delete(t, ok) /\ Answer(c)
  /\ UNCHANGED <<boot, born, given, hbVars, outbound, loop>>

\* handleAuthRotate, the first critical section of Rotate: a token is created.
HandleAuthRotate(c) == \E op \in {"rotate", "revoke"}, ok \in BOOLEAN :
  /\ Request(c, op) /\ Create(ok)
  /\ IF ok THEN Goto(c, op, [NoJob EXCEPT !.token = born']) ELSE Answer(c)
  /\ UNCHANGED <<given, hbVars, outbound, loop>>

\* Variant: the others are revoked in memory only.
RotateRevoke_Memory(c) ==
  /\ pc[c] = "revoke"
  /\ tokens' = tokens \cap {job[c].token}
  /\ gone' = gone \cup (tokens \ {job[c].token})
  /\ UNCHANGED <<credFile, faults>>
  /\ Goto(c, "rotate", job[c])
  /\ UNCHANGED <<boot, born, given, hbVars, outbound, loop, requests, crashes>>

\* The second: with revoke_others only its own token is kept, if it still is there; the
\* error of the save is dropped.
RotateRevoke(c) == \E ok \in BOOLEAN :
  /\ pc[c] = "revoke"
  /\ tokens' = tokens \cap {job[c].token}
  /\ gone' = IF ok THEN gone \cup (tokens \ {job[c].token}) ELSE gone
  /\ Save(ok, boot, tokens')
  /\ Goto(c, "rotate", job[c])
  /\ UNCHANGED <<boot, born, given, hbVars, outbound, loop, requests, crashes>>

\* The handler then gives the token to the heartbeat and answers.
RotateAnswer(c) ==
  /\ pc[c] = "rotate"
  /\ outbound' = job[c].token
  /\ given' = given \cup {job[c].token}
  /\ Answer(c)
  /\ UNCHANGED <<boot, tokens, credFile, born, gone, hbVars, loop, counts>>

\* DisableBootstrap: refused without a managed token; memory keeps it off when the save fails.
HandleAuthBootstrapDisable(c) == \E ok \in BOOLEAN :
  /\ Request(c, "disableBootstrap")
  /\ boot /\ tokens # {}
  /\ boot' = FALSE
  /\ Save(ok, FALSE, tokens)
  /\ Answer(c)
  /\ UNCHANGED <<tokens, born, given, gone, hbVars, outbound, loop>>

-----------------------------------------------------------------------------
(* heartbeat.Pusher. *)

\* Configure and Disable up to their save: PUT with a spec, PUT with enabled false, DELETE.
\* off names what the client will have been told once the request is answered.
Set(c, e, s, isOff) ==
  /\ enabled' = e /\ spec' = s
  /\ off' = FALSE
  /\ Goto(c, "save", [NoJob EXCEPT !.off = isOff])
  /\ UNCHANGED <<hbFile, hbTmp, trigger, failed, authVars, outbound, loop, faults>>

HandleHeartbeatPut(c) == \E e \in BOOLEAN, s \in Specs \cup {NoSpec} :
  /\ Request(c, "put")
  /\ e => s # NoSpec
  /\ Set(c, e, s, ~e)

HandleHeartbeatDelete(c) == Request(c, "off") /\ Set(c, FALSE, spec, TRUE)

SaveRead(c) ==
  /\ pc[c] = "save"
  /\ Goto(c, "tmp", [job[c] EXCEPT !.saved = Saved(enabled, spec)])
  /\ UNCHANGED <<authVars, hbVars, outbound, loop, counts>>

SaveTmp(c) ==
  /\ pc[c] = "tmp"
  /\ hbTmp' = job[c].saved
  /\ Goto(c, "rename", job[c])
  /\ UNCHANGED <<enabled, spec, hbFile, trigger, off, failed, authVars, outbound, loop, counts>>

\* A write that fails ends the request with an error and without a kick.
SaveFails(c) ==
  /\ pc[c] \in {"tmp", "rename"}
  /\ faults < MaxFaults /\ faults' = faults + 1
  /\ failed' = TRUE
  /\ Answer(c)
  /\ UNCHANGED <<enabled, spec, hbFile, hbTmp, trigger, off, authVars, outbound, loop, requests, crashes>>

\* Variant: the loop is not woken.
SaveRename_NoKick(c) ==
  /\ pc[c] = "rename" /\ hbTmp # NoFile
  /\ hbFile' = hbTmp /\ hbTmp' = NoFile
  /\ failed' = FALSE /\ off' = job[c].off
  /\ Answer(c)
  /\ UNCHANGED <<enabled, spec, trigger, authVars, outbound, loop, counts>>

\* The rename, kick (which needs room in the channel) and the answer.
SaveRename(c) ==
  /\ pc[c] = "rename" /\ hbTmp # NoFile
  /\ hbFile' = hbTmp /\ hbTmp' = NoFile
  /\ trigger' = TRUE
  /\ failed' = FALSE /\ off' = job[c].off
  /\ Answer(c)
  /\ UNCHANGED <<enabled, spec, authVars, outbound, loop, counts>>

Loop(l, s) == loop' = [pc |-> l, spec |-> s]

\* Run: disabled, it waits for the trigger; enabled, it ticks.
RunTop ==
  /\ loop.pc = "top"
  /\ Loop(IF enabled THEN "tick" ELSE "wait", NoSpec)
  /\ UNCHANGED <<authVars, hbVars, outbound, pc, job, counts>>

\* tick takes its own snapshot, and returns when the heartbeat was disabled meanwhile.
Tick ==
  /\ loop.pc = "tick"
  /\ IF enabled THEN Loop("post", spec) ELSE Loop("timer", NoSpec)
  /\ UNCHANGED <<authVars, hbVars, outbound, pc, job, counts>>

Post ==
  /\ loop.pc = "post" /\ Loop("timer", NoSpec)
  /\ UNCHANGED <<authVars, hbVars, outbound, pc, job, counts>>

\* The trigger ends either wait.
TakeTrigger ==
  /\ loop.pc \in {"wait", "timer"} /\ trigger
  /\ trigger' = FALSE /\ Loop("top", NoSpec)
  /\ UNCHANGED <<enabled, spec, hbFile, hbTmp, off, failed, authVars, outbound, pc, job, counts>>

Timer ==
  /\ loop.pc = "timer" /\ Loop("top", NoSpec)
  /\ UNCHANGED <<authVars, hbVars, outbound, pc, job, counts>>

-----------------------------------------------------------------------------

\* Variant: agent.yaml wins.
Seeded_YAMLWins(file) ==
  IF Seed # NoSpec THEN {[mem |-> Saved(TRUE, Seed), file |-> Saved(TRUE, Seed), kick |-> TRUE]}
  ELSE {[mem |-> Saved(FALSE, NoSpec), file |-> NoFile, kick |-> FALSE]}

\* BootstrapFromYAML: a state file wins over agent.yaml, whose seed is configured and saved
\* like a PUT, and may fail to be written.
Seeded(file) ==
  IF file # NoFile THEN {[mem |-> file, file |-> file, kick |-> FALSE]}
  ELSE IF Seed = NoSpec THEN {[mem |-> Saved(FALSE, NoSpec), file |-> NoFile, kick |-> FALSE]}
  ELSE {[mem |-> Saved(TRUE, Seed), file |-> Saved(TRUE, Seed), kick |-> TRUE],
        [mem |-> Saved(TRUE, Seed), file |-> NoFile, kick |-> FALSE]}

Init ==
  /\ boot = TRUE /\ tokens = {} /\ credFile = [boot |-> TRUE, tokens |-> {}] /\ born = 0
  /\ \E s \in Seeded(NoFile) :
       /\ enabled = s.mem.enabled /\ spec = s.mem.spec /\ hbFile = s.file /\ trigger = s.kick
  /\ hbTmp = NoFile /\ outbound = 0 /\ loop = [pc |-> "top", spec |-> NoSpec]
  /\ pc = [c \in Clients |-> "idle"] /\ job = [c \in Clients |-> NoJob]
  /\ given = {} /\ gone = {} /\ off = FALSE /\ failed = FALSE
  /\ requests = 0 /\ faults = 0 /\ crashes = 0

\* The process dies and starts again: Open and New read the files.
Crash ==
  /\ crashes < MaxCrashes /\ crashes' = crashes + 1
  /\ boot' = credFile.boot /\ tokens' = credFile.tokens
  /\ \E s \in Seeded(hbFile) :
       /\ enabled' = s.mem.enabled /\ spec' = s.mem.spec /\ hbFile' = s.file /\ trigger' = s.kick
  /\ outbound' = 0 /\ loop' = [pc |-> "top", spec |-> NoSpec] /\ failed' = FALSE
  /\ pc' = [c \in Clients |-> "idle"] /\ job' = [c \in Clients |-> NoJob]
  /\ UNCHANGED <<credFile, born, given, gone, hbTmp, off, requests, faults>>

Continue(c) ==
  \/ RotateRevoke(c) \/ RotateAnswer(c)
  \/ SaveRead(c) \/ SaveTmp(c) \/ SaveFails(c) \/ SaveRename(c)

RunStep == RunTop \/ Tick \/ Post \/ TakeTrigger \/ Timer

Next ==
  \/ \E c \in Clients :
       \/ HandleAuthCreate(c) \/ HandleAuthDelete(c) \/ HandleAuthRotate(c)
       \/ HandleAuthBootstrapDisable(c) \/ HandleHeartbeatPut(c) \/ HandleHeartbeatDelete(c)
       \/ Continue(c)
  \/ RunStep \/ Crash

Spec == Init /\ [][Next]_vars

\* Goroutines run on, timers fire and a post ends (its client has a timeout).
FairSpec == Spec /\ WF_vars(RunStep) /\ \A c \in Clients : WF_vars(Continue(c))

-----------------------------------------------------------------------------
(* Properties. *)

TypeOK ==
  /\ boot \in BOOLEAN /\ born \in 0..MaxTokens
  /\ tokens \subseteq 1..born /\ credFile \in [boot : BOOLEAN, tokens : SUBSET (1..born)]
  /\ Saved(enabled, spec) \in HbStates /\ {hbFile, hbTmp} \subseteq HbStates \cup {NoFile}
  /\ outbound \in 0..born /\ trigger \in BOOLEAN /\ off \in BOOLEAN /\ failed \in BOOLEAN
  /\ loop \in [pc : {"top", "wait", "tick", "post", "timer"}, spec : Specs \cup {NoSpec}]
  /\ pc \in [Clients -> {"idle", "rotate", "revoke", "save", "tmp", "rename"}]
  /\ job \in [Clients -> [token : 0..born, saved : HbStates, off : BOOLEAN]]
  /\ \A c \in Clients : pc[c] \in {"rotate", "revoke"} => job[c].token # 0
  /\ given \cup gone \subseteq 1..born
  /\ requests \in 0..MaxRequests /\ faults \in 0..MaxFaults /\ crashes \in 0..MaxCrashes

\* Somebody can always log in, now and after a restart (ErrLastCredential, ErrNeedManaged,
\* 05-api: "409 if last credential").
NoLockout == Active(boot, tokens) > 0 /\ Active(credFile.boot, credFile.tokens) > 0

\* What a client was told of tokens survives failed writes and restarts: a token handed out
\* and accepted now is accepted after a restart, one whose removal was written never is
\* again.  (Rotate hides a failed write of the removal: store.go:248.)
AnswersHold ==
  /\ gone \cap (tokens \cup credFile.tokens) = {}
  /\ given \cap tokens \subseteq credFile.tokens

\* A heartbeat that was switched off by REST stays off until the next PUT: neither a restart
\* nor the seed of agent.yaml switches it on (08-pull-heartbeat).
OffStaysOff == off => ~enabled /\ hbFile # NoFile /\ ~hbFile.enabled

\* An enabled heartbeat posts again and again with the spec it has, whenever it was enabled or
\* changed: no kick is lost.  (The kick of a request that was answered with an error is.)
KeepsPosting == \A s \in Specs :
  <>[](enabled /\ spec = s /\ ~failed) => []<>(loop.pc = "post" /\ loop.spec = s)

=============================================================================
