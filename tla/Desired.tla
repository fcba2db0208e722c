------------------------------ MODULE Desired ------------------------------
(***************************************************************************)
(* The desired state of the control plane and how it reaches the box: the  *)
(* inbound sets, the WireGuard hub, the documents (dns, route, outbounds,  *)
(* reality, ssl), the block commits that edit several of them at once, and *)
(* rematerialize, which builds one configuration of them and applies it.   *)
(*                                                                         *)
(* A handler edits one JSON file at a time, each edit a load and a save    *)
(* with nothing slow in between: such an edit is one step here.  What      *)
(* takes long, and lets other goroutines in, is rematerialize (under       *)
(* Service.mu, in two steps: read and build, then apply) and the           *)
(* background goroutine of a commit.  Claims of the other owners are the   *)
(* subject of Ownership; here the owner is "idle" or "controlplane".       *)
(* Definitions marked "Variant:" are wrong versions of the one that        *)
(* follows; no specification uses them.                                    *)
(***************************************************************************)
EXTENDS Integers, Sequences, FiniteSets, SequencesExt

CONSTANTS
  Clients,     \* goroutines of the HTTP server
  Boot,        \* the goroutine that starts the control plane
  Names,       \* names of inbound sets
  PortOrder,   \* the listen ports, in the order suggestListenPort tries them
  Docs,        \* the documents a block may replace
  Versions,    \* contents of a document
  NUsers,      \* users are numbered in the order of users.json
  Deleted,     \* the body {"deleted": true} of a tombstone
  Hosts,       \* WireGuard host indices
  SetBodies,   \* the sets clients install (port 0: the server picks one)
  HubBodies,   \* the WireGuard settings clients send
  Batches,     \* the blocks of the commits clients post
  Seeds,       \* the sets installed and active at the start
  Ops,         \* the requests clients make
  Faults,      \* "apply": the box may refuse a configuration
  MaxCommits,  \* bound: commits accepted
  MaxRequests, \* bound: requests
  MaxCrashes   \* bound: restarts of the process

VARIABLES
  sets,        \* sets.json, by name
  active,      \* state.json: active_sets
  hub,         \* wg_hub.json
  docs,        \* config_fragments.json, reality.json, ssl_profiles.json
  users,       \* users.json: eligibility and WireGuard host index
  owner,       \* configowner mode
  heads,       \* heads.json: the body of every block, in place of its hash
  commits,     \* commits/<id>.json
  pending,     \* commits/_meta.json: pending_id (0: none)
  running,     \* the configuration of the running box
  sMu,         \* who holds Service.mu
  pc, job,     \* where each goroutine is, and its locals
  erred,       \* an error was reported since a configuration was last built
  requests, crashes

stores == <<sets, active, hub, docs, users, owner, heads, commits, pending>>
vars   == <<stores, running, sMu, pc, job, erred, requests, crashes>>

Users     == 1..NUsers
Commits   == 1..MaxCommits
Threads   == Clients \cup Commits \cup {Boot}
Ports     == Range(PortOrder)
Networks  == {"tcp", "udp"}
NoUser    == 0
Default   == "default"
Wg        == "wg"
Free      == 0
Statuses  == {"none", "accepted", "applying", "applied", "failed"}
Operations == {"create", "put", "delete", "activate", "deactivate", "fromPresets", "fromDemux",
               "wg", "doc", "user", "sub", "commit", "stage"}

\* ok: the checks of validateSet other than the port.
SetBody   == [port : Ports \cup {0}, nets : SUBSET Networks \ {{}}, demux : BOOLEAN, ok : BOOLEAN]
Hub       == [on : BOOLEAN, port : Ports, exit : Users \cup {NoUser}]
IsSets(ss) == DOMAIN ss \subseteq Names /\ ss \in [DOMAIN ss -> SetBody] /\ \A n \in DOMAIN ss : ss[n].port # 0
\* No two of the sets listen on the same port of the same network.
Apart(ss) == \A m, n \in DOMAIN ss : m # n /\ ss[m].port = ss[n].port => ss[m].nets \cap ss[n].nets = {}
IsBlocks(b) == /\ DOMAIN b \subseteq Names \cup Docs \cup {Wg}
               /\ \A i \in DOMAIN b : \/ i \in Names /\ b[i] \in SetBody \cup {Deleted}
                                      \/ i \in Docs /\ b[i] \in Versions \cup {Deleted}
                                      \/ i = Wg /\ b[i] \in Hub
Config    == [sets : {<<>>} \cup UNION {[S -> SetBody] : S \in SUBSET Names}, docs : [Docs -> Versions \cup {Default}],
              wg : Hub, peers : SUBSET (Users \X Hosts)]

NoHub    == [on |-> FALSE, port |-> PortOrder[1], exit |-> NoUser]
NoConfig == [sets |-> <<>>, docs |-> [d \in Docs |-> Default], wg |-> NoHub, peers |-> {}]

\* kind: whose rematerialize this is; prev, was: active_sets and ownership before the
\* request; names: the sets it activated; cfg: the configuration built; id: its commit;
\* blocks, todo, heads: of a POST of a commit.
NoJob == [kind |-> "none", prev |-> {}, was |-> FALSE, names |-> {}, cfg |-> NoConfig,
          id |-> 0, blocks |-> <<>>, todo |-> {}, heads |-> <<>>]

NoCommit == [status |-> "none", blocks |-> <<>>, prev |-> {}]

ASSUME DesiredAssumption ==
  /\ Boot \notin Clients /\ Cardinality(Names) > 0 /\ Free \notin Threads
  /\ (Clients \cup {Boot}) \cap Commits = {} /\ Names \cap (Docs \cup {Wg}) = {} /\ Wg \notin Docs
  /\ {NUsers, MaxCommits, MaxRequests, MaxCrashes} \subseteq Nat
  /\ IsFiniteSet(Hosts) /\ Hosts \subseteq Nat \ {0}
  /\ PortOrder \in Seq(Nat \ {0}) /\ Len(PortOrder) > 0
  /\ SetBodies \subseteq SetBody /\ HubBodies \subseteq Hub
  /\ \A b \in Batches : IsBlocks(b) /\ DOMAIN b # {}
  /\ Ops \subseteq Operations /\ Faults \subseteq {"apply"} /\ \A s \in Seeds : IsSets(s) /\ Apart(s)

-----------------------------------------------------------------------------
(* Ports and validation. *)

\* portNetworks of a set read back from sets.json.
PortNetworks(b) == b.nets

\* portNetworks of a set BuildInstall has just made: its template holds a []string, the
\* type switch expects a []any, and the set counts as using both networks.
FreshNetworks(b) == IF b.demux THEN Networks ELSE b.nets

\* portFreeForNetworks
PortFree(ss, p, need) == \A n \in DOMAIN ss : ss[n].port # p \/ PortNetworks(ss[n]) \cap need = {}

\* suggestListenPort: the first candidate free for every network, 0 when none is.
SuggestListenPort(ss, need) ==
  LET fit == {i \in DOMAIN PortOrder : PortFree(ss, PortOrder[i], need)}
  IN  IF fit = {} THEN 0 ELSE PortOrder[CHOOSE i \in fit : \A j \in fit : i <= j]

\* Variant: the port is compared with the sets of the same networks only.
ValidateSet_SameKind(ss, n, b) ==
  b.ok /\ b.port # 0 /\ \A o \in DOMAIN ss \ {n} : ss[o].port # b.port \/ PortNetworks(ss[o]) # b.nets

\* validateSet, for a set of which fresh are the networks.
ValidateSet(ss, n, b) ==
  b.ok /\ b.port # 0
  /\ \A o \in DOMAIN ss \ {n} : ss[o].port # b.port \/ PortNetworks(ss[o]) \cap FreshNetworks(b) = {}

Without(f, S) == [x \in DOMAIN f \ S |-> f[x]]
With(f, x, v) == [y \in DOMAIN f \cup {x} |-> IF y = x THEN v ELSE f[y]]

\* validateWgListenPort looks at the active sets and not at their networks.
ValidateWgListenPort(h) ==
  h.on => \A n \in active \cap DOMAIN sets : sets[n].port # h.port

-----------------------------------------------------------------------------
(* WireGuard host indices: ensureWgUserCreds over a group of users. *)

WgConflict(us, group) ==
  \/ \E u, v \in group : u # v /\ us[u].idx # 0 /\ us[u].idx = us[v].idx
  \/ Cardinality({u \in group : us[u].idx = 0}) > Cardinality(Hosts \ {us[u].idx : u \in group})

\* The users without an index take the free ones in order.
EnsureWgUserCreds(us, group) ==
  LET new  == {u \in group : us[u].idx = 0}
      free == Hosts \ {us[u].idx : u \in group}
      Nth(S, x) == Cardinality({y \in S : y < x})
  IN  [u \in Users |-> IF u \in new
                       THEN [us[u] EXCEPT !.idx = CHOOSE h \in free : Nth(free, h) = Nth(new, u)]
                       ELSE us[u]]

EligibleUsers == {u \in Users : users[u].eligible}

-----------------------------------------------------------------------------
(* What rematerialize builds. *)

Live(act, h) == act # {} \/ h.on

\* Build of the active sets, the hub and the documents; us: users with their indices.
Build(act, us) ==
  [sets  |-> [n \in act |-> sets[n]],
   docs  |-> docs,
   wg    |-> IF hub.on THEN hub ELSE NoHub,
   peers |-> IF hub.on THEN {<<u, us[u].idx>> : u \in EligibleUsers} ELSE {}]

\* BuildWireGuardEndpoint fails when the exit user has no peer.
BuildFails == hub.on /\ hub.exit # NoUser /\ hub.exit \notin EligibleUsers

\* The box binds every listener or does not start.
Startable(c) ==
  /\ \A m, n \in DOMAIN c.sets :
       m = n \/ c.sets[m].port # c.sets[n].port \/ PortNetworks(c.sets[m]) \cap PortNetworks(c.sets[n]) = {}
  /\ c.wg.on => \A n \in DOMAIN c.sets : c.sets[n].port # c.wg.port \/ "udp" \notin PortNetworks(c.sets[n])

-----------------------------------------------------------------------------
(* Requests that edit one store and rematerialize. *)

Goto(t, l, j) == pc' = [pc EXCEPT ![t] = l] /\ job' = [job EXCEPT ![t] = j]

\* A request is served once the control plane has booted.
Request(t, op) ==
  /\ t \in Clients /\ op \in Ops /\ pc[t] = "idle" /\ pc[Boot] = "idle" /\ requests < MaxRequests
  /\ requests' = requests + 1
  /\ UNCHANGED <<running, sMu, crashes>>

Answer(t)    == Goto(t, "idle", NoJob)
Then(t, j)   == Goto(t, "remat", j) /\ UNCHANGED erred
Job(k)       == [NoJob EXCEPT !.kind = k]

HandleSetsCreate(t) == \E n \in Names, b \in SetBodies :
  /\ Request(t, "create")
  /\ n \notin DOMAIN sets /\ ValidateSet(sets, n, b) /\ ~b.demux
  /\ sets' = With(sets, n, b) /\ Answer(t)
  /\ UNCHANGED <<active, hub, docs, users, owner, heads, commits, pending, erred>>

\* Variant: an active set is edited and not rebuilt.
HandleSetsPut_NoRemat(t) == \E n \in DOMAIN sets, b \in SetBodies :
  /\ Request(t, "put")
  /\ ValidateSet(sets, n, b) /\ ~b.demux
  /\ sets' = With(sets, n, b) /\ Answer(t)
  /\ UNCHANGED <<active, hub, docs, users, owner, heads, commits, pending, erred>>

\* handleSetsPut rebuilds when the set is active.
HandleSetsPut(t) == \E n \in DOMAIN sets, b \in SetBodies :
  /\ Request(t, "put")
  /\ ValidateSet(sets, n, b) /\ ~b.demux
  /\ sets' = With(sets, n, b)
  /\ IF n \in active THEN Then(t, Job("edit")) ELSE Answer(t) /\ UNCHANGED erred
  /\ UNCHANGED <<active, hub, docs, users, owner, heads, commits, pending>>

\* handleSetsDelete answers 409 for an active set.
HandleSetsDelete(t) == \E n \in DOMAIN sets \ active :
  /\ Request(t, "delete")
  /\ sets' = Without(sets, {n}) /\ Answer(t)
  /\ UNCHANGED <<active, hub, docs, users, owner, heads, commits, pending, erred>>

\* scrubStaleActiveSets
Scrubbed(ss) == active \cap DOMAIN ss

\* handleSetsActivate, activateSetByNameOpt: claim, scrub, add the name.
HandleSetsActivate(t) == \E n \in DOMAIN sets :
  /\ Request(t, "activate")
  /\ owner' = "controlplane"
  /\ active' = Scrubbed(sets) \cup {n}
  /\ Then(t, [Job("activate") EXCEPT !.prev = Scrubbed(sets), !.was = (owner = "controlplane"), !.names = {n}])
  /\ UNCHANGED <<sets, hub, docs, users, heads, commits, pending>>

\* Variant: the owner is given up although the WireGuard hub still runs.
HandleSetsDeactivate_Idle(t) == \E n \in active :
  /\ Request(t, "deactivate")
  /\ active' = active \ {n}
  /\ IF active' # {} THEN Then(t, [Job("deactivate") EXCEPT !.prev = active]) /\ UNCHANGED owner
     ELSE owner' = "idle" /\ Answer(t) /\ UNCHANGED erred
  /\ UNCHANGED <<sets, hub, docs, users, heads, commits, pending>>

\* deactivateSetByNameOpt with rematerialize; the last set goes with a claim of idle
\* unless the hub is on.
HandleSetsDeactivate(t) == \E n \in active :
  /\ Request(t, "deactivate")
  /\ active' = active \ {n}
  /\ IF Live(active', hub) THEN Then(t, [Job("deactivate") EXCEPT !.prev = active]) /\ UNCHANGED owner
     ELSE owner' = "idle" /\ Answer(t) /\ UNCHANGED erred
  /\ UNCHANGED <<sets, hub, docs, users, heads, commits, pending>>

\* handleWgPut; the exit user must have WireGuard credentials.
HandleWgPut(t) == \E h \in HubBodies :
  /\ Request(t, "wg")
  /\ h.exit # NoUser => users[h.exit].idx # 0
  /\ ValidateWgListenPort(h)
  /\ owner' = IF h.on THEN "controlplane" ELSE owner
  /\ hub' = h
  /\ IF h.on \/ hub.on THEN Then(t, Job("wg")) ELSE Goto(t, "ok", Job("wg")) /\ UNCHANGED erred
  /\ UNCHANGED <<sets, active, docs, users, heads, commits, pending>>

\* The handlers of dns, route and outbounds (put and delete) and of reality.
HandleConfigFragment(t) == \E d \in Docs, v \in Versions \cup {Default} :
  /\ Request(t, "doc")
  /\ docs' = [docs EXCEPT ![d] = v]
  /\ Then(t, Job("edit"))
  /\ UNCHANGED <<sets, active, hub, users, owner, heads, commits, pending>>

\* A user becomes eligible or stops being so (Accounts), and its handler rebuilds.
UserFlips(t) == \E u \in Users :
  /\ Request(t, "user")
  /\ users' = [users EXCEPT ![u].eligible = ~@]
  /\ Then(t, Job("edit"))
  /\ UNCHANGED <<sets, active, hub, docs, owner, heads, commits, pending>>

\* handleSub: rendering a subscription gives its user the WireGuard credentials it lacks;
\* ensureWgUserCreds is called with that user alone.
HandleSub(t) == \E u \in EligibleUsers :
  /\ Request(t, "sub")
  /\ Live(Scrubbed(sets), hub)
  /\ active' = Scrubbed(sets)
  /\ users' = IF hub.on /\ ~WgConflict(users, {u}) THEN EnsureWgUserCreds(users, {u}) ELSE users
  /\ Answer(t)
  /\ UNCHANGED <<sets, hub, docs, owner, heads, commits, pending, erred>>

-----------------------------------------------------------------------------
(* Requests that install sets: from-presets and from-demux-group. *)

HubAsSet == [port |-> hub.port, nets |-> {"udp"}, demux |-> TRUE, ok |-> TRUE]

\* An install under way: disk: sets.json; mem: the list the handler works on; made: the
\* sets it has built; act: active_sets; ok: nothing was rejected.
Fresh == [disk |-> sets, mem |-> sets, made |-> <<>>, act |-> active, ok |-> TRUE]

\* replaceOrConflictSetOpt without rematerialize: the old set is deactivated and removed
\* from sets.json before the new one is built or validated.
ReplaceOrConflictSet(i, n, replace) ==
  IF n \notin DOMAIN i.mem THEN i
  ELSE IF ~replace THEN [i EXCEPT !.ok = FALSE]
  ELSE LET out == Without(i.mem, {n})
       IN  [i EXCEPT !.mem = out, !.disk = out, !.act = @ \ {n}]

\* One item of from-presets, for an item that has a port or gets one.
InstallPreset(i, n, b, replace) ==
  LET r      == ReplaceOrConflictSet(i, n, replace)
      others == [x \in DOMAIN r.mem \cup DOMAIN r.made |-> IF x \in DOMAIN r.made THEN r.made[x] ELSE r.mem[x]]
      port   == IF b.port # 0 THEN b.port ELSE SuggestListenPort(With(others, Wg, HubAsSet), b.nets)
      set    == [b EXCEPT !.port = port]
  IN  IF ~r.ok \/ n \in DOMAIN r.made \/ ~ValidateSet(others, n, set) THEN [r EXCEPT !.ok = FALSE]
      ELSE [r EXCEPT !.made = With(@, n, set)]

\* from-demux-group: the port is suggested while the set to be replaced still counts.
InstallDemux(n, b, replace) ==
  LET port == IF b.port # 0 THEN b.port ELSE SuggestListenPort(sets, b.nets)
      r    == ReplaceOrConflictSet(Fresh, n, replace)
      set  == [b EXCEPT !.port = port, !.demux = TRUE]
  IN  IF ~r.ok \/ ~ValidateSet(r.mem, n, set) THEN [r EXCEPT !.ok = FALSE]
      ELSE [r EXCEPT !.made = With(@, n, set)]

\* "stage": replace an active set without activating the new one, which leaves the old one
\* in the box (nothing rebuilds) though it is no longer active.
Asked(activate, replace) == replace => activate \/ "stage" \in Ops

\* The end of both handlers: what was built is appended and saved, and activated on demand.
Installed(t, i, activate, j) ==
  /\ sets' = IF i.ok THEN [x \in DOMAIN i.mem \cup DOMAIN i.made |->
                             IF x \in DOMAIN i.made THEN i.made[x] ELSE i.mem[x]]
             ELSE i.disk
  /\ IF i.ok /\ activate
     THEN /\ owner' = "controlplane"
          /\ active' = (i.act \cap DOMAIN sets') \cup DOMAIN i.made
          /\ Then(t, [j EXCEPT !.prev = i.act \cap DOMAIN sets', !.was = (owner = "controlplane"),
                               !.names = DOMAIN i.made])
     ELSE /\ active' = i.act
          /\ erred' = (erred \/ ~i.ok)
          /\ Answer(t) /\ UNCHANGED owner
  /\ UNCHANGED <<hub, docs, users, heads, commits, pending>>

HandleSetsFromPresets(t) == \E n, m \in Names, b, c \in SetBodies, activate, replace \in BOOLEAN :
  LET one == InstallPreset(Fresh, n, b, replace)
      two == IF (n = m /\ b = c) \/ ~one.ok THEN one ELSE InstallPreset(one, m, c, replace)
  IN  /\ Request(t, "fromPresets") /\ Asked(activate, replace)
      /\ ~b.demux /\ ~c.demux /\ two # [Fresh EXCEPT !.ok = FALSE]
      /\ Installed(t, two, activate, Job("install"))

HandleSetsFromDemuxGroup(t) == \E n \in Names, b \in SetBodies, activate, replace \in BOOLEAN :
  LET i == InstallDemux(n, b, replace)
  IN  /\ Request(t, "fromDemux") /\ Asked(activate, replace)
      /\ i # [Fresh EXCEPT !.ok = FALSE]
      /\ Installed(t, i, activate, Job("activate"))

-----------------------------------------------------------------------------
(* Block commits. *)

\* handleCommitsPost up to the first block: refused while a commit is pending.
HandleCommitsPost(t) == \E b \in Batches :
  /\ Request(t, "commit")
  /\ pending = 0
  /\ \E id \in Commits : commits[id].status = "none"
  /\ Goto(t, "persist", [Job("post") EXCEPT !.blocks = b, !.todo = DOMAIN b, !.heads = heads])
  /\ UNCHANGED <<stores, erred>>

\* persistDemuxBlock, persistPresetBlock: install or delete by name, whatever is active.
PersistSet(n, b) ==
  LET out == Without(sets, {n})
      set == [b EXCEPT !.port = IF @ # 0 THEN @ ELSE SuggestListenPort(out, b.nets)]
  IN  IF b = Deleted THEN out
      ELSE IF ValidateSet(out, n, set) THEN With(out, n, set) ELSE <<>>

SetRefused(n, b) ==
  /\ b # Deleted
  /\ LET out == Without(sets, {n})
     IN  ~ValidateSet(out, n, [b EXCEPT !.port = IF @ # 0 THEN @ ELSE SuggestListenPort(out, b.nets)])

\* persistWgBlock, which keeps the exit user and does not look at the ports of the sets;
\* persistFragmentBlock, persistRouteBlock, persistRealityBlock, persistSSLBlock.
PersistCommitBlock(t) == \E i \in job[t].todo :
  LET b == job[t].blocks[i] IN
  /\ pc[t] = "persist"
  /\ \/ /\ i \in Names /\ SetRefused(i, b)
        /\ erred' = TRUE /\ Answer(t) /\ UNCHANGED stores
     \/ /\ ~(i \in Names /\ SetRefused(i, b))
        /\ sets'  = IF i \in Names THEN PersistSet(i, b) ELSE sets
        /\ docs'  = IF i \in Docs THEN [docs EXCEPT ![i] = IF b = Deleted THEN Default ELSE b] ELSE docs
        /\ hub'   = IF i = Wg THEN [b EXCEPT !.exit = hub.exit] ELSE hub
        /\ owner' = IF i = Wg /\ hub'.on THEN "controlplane" ELSE owner
        /\ job'   = [job EXCEPT ![t].todo = @ \ {i}]
        /\ UNCHANGED <<active, users, heads, commits, pending, pc, erred>>
  /\ UNCHANGED <<running, sMu, requests, crashes>>

\* SaveHeads of the copy loaded at the start.
SaveHeads(t) ==
  /\ pc[t] = "persist" /\ job[t].todo = {}
  /\ LET b     == job[t].blocks
         dead  == {i \in DOMAIN b : b[i] = Deleted}
         old   == job[t].heads
     IN  heads' = [i \in (DOMAIN old \cup DOMAIN b) \ dead |-> IF i \in DOMAIN b THEN b[i] ELSE old[i]]
  /\ Goto(t, "accept", job[t])
  /\ UNCHANGED <<sets, active, hub, docs, users, owner, commits, pending, running, sMu, erred, requests, crashes>>

\* SaveCommit, SaveCommitMeta, the answer and `go runCommitApply'.
Accept(t) == \E id \in Commits :
  /\ pc[t] = "accept"
  /\ commits[id].status = "none" /\ \A d \in 1..(id - 1) : commits[d].status # "none"
  /\ commits' = [commits EXCEPT ![id] = [status |-> "accepted", blocks |-> job[t].blocks, prev |-> active]]
  /\ pending' = id
  /\ pc' = [pc EXCEPT ![t] = "idle", ![id] = "run"]
  /\ job' = [job EXCEPT ![t] = NoJob, ![id] = [Job("commit") EXCEPT !.id = id, !.prev = active]]
  /\ UNCHANGED <<sets, active, hub, docs, users, owner, heads, running, sMu, erred, requests, crashes>>

\* runCommitApply: status applying, then activateCommitSets, which claims the owner when it
\* activates a set and gives it up when nothing is left.
ActivateCommitSets(t) ==
  /\ pc[t] = "run"
  /\ LET b    == commits[t].blocks
         on   == {i \in DOMAIN b \cap Names : b[i] # Deleted}
         off  == (DOMAIN b \cap Names) \ on
         next == (active \ off) \cup on
         mode == IF on # {} THEN "controlplane" ELSE owner
     IN  /\ active' = next
         /\ owner' = IF on \cup off # {} /\ ~Live(next, hub) THEN "idle" ELSE mode
  /\ commits' = [commits EXCEPT ![t].status = "applying"]
  /\ Goto(t, "remat", job[t])
  /\ UNCHANGED <<sets, hub, docs, users, heads, pending, running, sMu, erred, requests, crashes>>

-----------------------------------------------------------------------------
(* rematerializeForce. *)

\* The early returns: not the owner; nothing to serve; or no indices for the hub's users.
RematReturns(t) ==
  LET act  == Scrubbed(sets)
      mine == owner = "controlplane"
      bad  == mine /\ hub.on /\ (WgConflict(users, EligibleUsers) \/ BuildFails)
  IN  /\ pc[t] = "remat" /\ sMu = Free
      /\ ~mine \/ ~Live(act, hub) \/ bad
      /\ active' = IF mine THEN act ELSE active
      /\ Goto(t, IF bad THEN "fail" ELSE "ok", job[t])
      /\ UNCHANGED <<sets, hub, docs, users, owner, heads, commits, pending, running, sMu, erred, requests, crashes>>

\* Everything is read and built under Service.mu.
RematRead(t) ==
  LET act == Scrubbed(sets)
      us  == IF hub.on THEN EnsureWgUserCreds(users, EligibleUsers) ELSE users
  IN  /\ pc[t] = "remat" /\ sMu = Free
      /\ owner = "controlplane" /\ Live(act, hub)
      /\ ~(hub.on /\ (WgConflict(users, EligibleUsers) \/ BuildFails))
      /\ sMu' = t
      /\ active' = act
      /\ users' = us
      /\ Goto(t, "apply", [job[t] EXCEPT !.cfg = Build(act, us)])
      /\ erred' = FALSE
      /\ UNCHANGED <<sets, hub, docs, owner, heads, commits, pending, running, requests, crashes>>

\* Supervisor.Apply keeps the last configuration when the new one does not start.
RematApply(t) ==
  /\ pc[t] = "apply"
  /\ sMu' = Free
  /\ \/ /\ Startable(job[t].cfg)
        /\ running' = job[t].cfg
        /\ Goto(t, "ok", job[t])
     \/ /\ ~Startable(job[t].cfg) \/ "apply" \in Faults
        /\ UNCHANGED running
        /\ Goto(t, "fail", job[t])
  /\ UNCHANGED <<stores, erred, requests, crashes>>

\* What each caller does when rematerialize has failed.
Undo(t) ==
  LET j == job[t] IN
  /\ pc[t] = "fail" /\ j.kind # "commit"
  /\ active' = CASE j.kind \in {"activate", "deactivate"} -> j.prev
                 [] j.kind = "install" -> active \ j.names
                 [] OTHER -> active
  /\ owner' = IF j.kind = "activate" /\ ~j.was /\ j.prev = {} /\ owner = "controlplane" THEN "idle" ELSE owner
  /\ erred' = TRUE
  /\ Answer(t)
  /\ UNCHANGED <<sets, hub, docs, users, heads, commits, pending, running, sMu, requests, crashes>>

\* The end of a successful request; disabling the hub gives up the owner when no set is active.
Done(t) ==
  /\ pc[t] = "ok" /\ job[t].kind # "commit"
  /\ owner' = IF job[t].kind = "wg" /\ ~Live(active, hub) THEN "idle" ELSE owner
  /\ Answer(t)
  /\ UNCHANGED <<sets, active, hub, docs, users, heads, commits, pending, running, sMu, erred, requests, crashes>>

\* Variant: a failed commit stays pending.
CommitFinishes_Stuck(t) ==
  /\ pc[t] \in {"ok", "fail"} /\ job[t].kind = "commit"
  /\ commits' = [commits EXCEPT ![t].status = IF pc[t] = "ok" THEN "applied" ELSE "failed"]
  /\ active' = IF pc[t] = "fail" THEN job[t].prev ELSE active
  /\ pending' = IF pc[t] = "ok" THEN 0 ELSE pending
  /\ erred' = (erred \/ pc[t] = "fail")
  /\ Answer(t)
  /\ UNCHANGED <<sets, hub, docs, users, owner, heads, running, sMu, requests, crashes>>

\* The end of runCommitApply; a failed commit puts back the active_sets of its POST.
CommitFinishes(t) ==
  /\ pc[t] \in {"ok", "fail"} /\ job[t].kind = "commit"
  /\ commits' = [commits EXCEPT ![t].status = IF pc[t] = "ok" THEN "applied" ELSE "failed"]
  /\ active' = IF pc[t] = "fail" THEN job[t].prev ELSE active
  /\ pending' = IF pending = t THEN 0 ELSE pending
  /\ erred' = (erred \/ pc[t] = "fail")
  /\ Answer(t)
  /\ UNCHANGED <<sets, hub, docs, users, owner, heads, running, sMu, requests, crashes>>

\* The process dies and starts again on its last configuration; reconcileOwnershipOnBoot
\* drops active_sets without the owner, or the owner with nothing to serve, and rebuilds.
CrashAndBoot ==
  /\ crashes < MaxCrashes
  /\ crashes' = crashes + 1
  /\ LET act == Scrubbed(sets)
     IN  /\ active' = IF owner = "controlplane" THEN act ELSE {}
         /\ owner' = IF owner = "controlplane" /\ ~Live(act, hub) THEN "idle" ELSE owner
         /\ pc' = [t \in Threads |-> IF t = Boot /\ owner' = "controlplane" THEN "remat" ELSE "idle"]
  /\ job' = [t \in Threads |-> IF t = Boot THEN Job("boot") ELSE NoJob]
  /\ sMu' = Free
  /\ UNCHANGED <<sets, hub, docs, users, heads, commits, pending, running, erred, requests>>

-----------------------------------------------------------------------------

Init ==
  /\ sets \in Seeds /\ active = DOMAIN sets /\ hub = NoHub
  /\ docs = [d \in Docs |-> Default]
  /\ users = [u \in Users |-> [eligible |-> TRUE, idx |-> 0]]
  /\ owner = (IF active = {} THEN "idle" ELSE "controlplane")
  /\ heads = <<>> /\ pending = 0
  /\ commits = [c \in Commits |-> NoCommit]
  /\ running = [NoConfig EXCEPT !.sets = sets] /\ sMu = Free
  /\ pc = [t \in Threads |-> "idle"] /\ job = [t \in Threads |-> NoJob]
  /\ erred = FALSE /\ requests = 0 /\ crashes = 0

Continue(t) ==
  \/ PersistCommitBlock(t) \/ SaveHeads(t) \/ Accept(t) \/ ActivateCommitSets(t)
  \/ RematReturns(t) \/ RematRead(t) \/ RematApply(t) \/ Undo(t) \/ Done(t) \/ CommitFinishes(t)

Next ==
  \/ \E t \in Clients :
       \/ HandleSetsCreate(t) \/ HandleSetsPut(t) \/ HandleSetsDelete(t)
       \/ HandleSetsActivate(t) \/ HandleSetsDeactivate(t)
       \/ HandleSetsFromPresets(t) \/ HandleSetsFromDemuxGroup(t)
       \/ HandleWgPut(t) \/ HandleConfigFragment(t) \/ UserFlips(t) \/ HandleSub(t)
       \/ HandleCommitsPost(t)
  \/ \E t \in Threads : Continue(t)
  \/ CrashAndBoot

Spec == Init /\ [][Next]_vars

\* Goroutines run on; requests and crashes need not happen.
FairSpec == Spec /\ \A t \in Threads : WF_vars(Continue(t))

-----------------------------------------------------------------------------
(* Properties. *)

\* Every store holds what its handlers may write, and Service.mu is held from build to apply.
TypeOK ==
  /\ IsSets(sets) /\ active \subseteq Names /\ hub \in Hub
  /\ docs \in [Docs -> Versions \cup {Default}]
  /\ users \in [Users -> [eligible : BOOLEAN, idx : Hosts \cup {0}]]
  /\ owner \in {"idle", "controlplane"} /\ IsBlocks(heads) /\ pending \in Commits \cup {0}
  /\ \A c \in Commits : commits[c].status \in Statuses
  /\ running \in Config
  /\ \A t \in Threads : sMu = t <=> pc[t] = "apply"

\* No two sets of sets.json listen on the same port of the same network, however they were
\* installed, replaced, edited or picked a port (validateSet, suggestListenPort).
PortsDisjoint == Apart(sets)

Quiet == \A t \in Threads : pc[t] = "idle"

\* When no request or commit is under way, the control plane has something to serve and
\* nobody was told of an error since it was built, the box runs what the stores say.
Served ==
  Quiet /\ owner = "controlplane" /\ Live(active, hub) /\ ~erred =>
    running = Build(active \cap DOMAIN sets, users)

\* Whatever is active or enabled belongs to the control plane: no request, commit, failure
\* or restart leaves an active set or an enabled hub under another owner.
LiveOwned == Quiet /\ ~erred /\ Live(active, hub) => owner = "controlplane"

\* Every accepted commit ends, applied or failed, and lets the next one in, unless the
\* process dies first: nothing resumes or clears a commit after a restart.
CommitEnds == \A c \in Commits :
  commits[c].status = "accepted" ~>
    \/ commits[c].status \in {"applied", "failed"} /\ pending # c
    \/ crashes > 0

=============================================================================
