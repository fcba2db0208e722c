------------------------------- MODULE WgHub -------------------------------
(***************************************************************************)
(* The WireGuard hub: the secrets and the obfuscation of the one endpoint  *)
(* the box serves, and those its users get in their subscriptions.         *)
(*                                                                         *)
(* Four profiles: "plain", "awg2" and "awg3" (junk and masquerade values)  *)
(* and "pathology" (an outer cipher with a pre-shared key).  The hub keeps *)
(* one block of values, of its profile; a user keeps the key it was given  *)
(* first.  PUT and regenerate load wg_hub.json, change their copy and save *)
(* it, in two steps here: another request may save in between.  What a     *)
(* block holds is its style, a number that is new whenever values are      *)
(* generated, and the key.  Ports, host indices and the claims of the hub  *)
(* are the subject of Desired; some set is active here, so that            *)
(* rematerialize always has something to build.                            *)
(* Definitions marked "Variant:" are wrong versions of the one that        *)
(* follows; no specification uses them.                                    *)
(***************************************************************************)
EXTENDS Naturals, FiniteSets

CONSTANTS
  Clients,     \* goroutines of the HTTP server
  Users,       \* the users that may exist
  Bodies,      \* the bodies of PUT /v1/controlplane/wg and of the commits' "wg" block
  Modes,       \* the modes regenerate is asked for
  OwnKey,      \* the key an operator may send
  Ops,         \* the requests clients make
  Faults,      \* "apply": the box may refuse a configuration
  MaxRequests  \* bound: requests

VARIABLES
  hub,      \* wg_hub.json
  users,    \* users.json: "none", "off" or "on"; WireGuard keys given; pathology_key
  running,  \* the endpoint of the running box
  given,    \* history: the pathology keys wg_hub.json has held
  made,     \* how many times values were generated
  sMu,      \* who holds Service.mu
  pc, job,  \* where each goroutine is, and its locals
  erred,    \* an error was reported since a configuration was last built
  requests

vars == <<hub, users, running, given, made, sMu, pc, job, erred, requests>>

AWG      == {"awg2", "awg3"}
Profiles == {"plain", "pathology"} \cup AWG
Styles   == {"sugar", "manual", "auto", "advanced"}
Operations == {"put", "regenerate", "block", "user", "sub"}
NoUser   == 0
NoKey    == 0
Free     == 0
Operator == 0  \* rev of values an operator sent
Revs     == 0..(2 * MaxRequests)
Keys     == Revs \cup {OwnKey}

\* rev: which generation the values are of.
Block    == [style : Styles, rev : Revs, key : Keys]
NoBlock  == [style |-> "none", rev |-> 0, key |-> NoKey]

\* WgHub; keyed: the key pair of the hub exists; obf: AWG2, AWG3 or Pathology.
Hub      == [on : BOOLEAN, profile : Profiles, port : Nat, exit : Users \cup {NoUser},
             keyed : BOOLEAN, obf : Block \cup {NoBlock}]

\* A body; obf: the nested block, with the style its values imply.
Body     == [on : BOOLEAN, profile : Profiles, port : Nat, exit : Users \cup {NoUser},
             obf : {NoBlock} \cup [style : Styles, rev : {Operator}, key : {NoKey, OwnKey}]]

DefaultWgHub == [on |-> FALSE, profile |-> "plain", port |-> 1, exit |-> NoUser, keyed |-> FALSE, obf |-> NoBlock]

\* The endpoint of the box; peers: the users it knows.
NoEndpoint == [hub |-> DefaultWgHub, peers |-> {}]

\* kind: the request; hub: its copy; base: what it loaded; own: it names a key.
NoJob == [kind |-> "none", hub |-> DefaultWgHub, base |-> DefaultWgHub, own |-> FALSE, cfg |-> NoEndpoint]

ASSUME WgHubAssumption ==
  /\ Cardinality(Clients) > 0 /\ NoUser \notin Users /\ Free \notin Clients
  /\ MaxRequests \in Nat /\ OwnKey \in Nat \ Revs /\ Bodies \subseteq Body
  /\ Modes \subseteq {"", "sugar", "manual", "pathology"}
  /\ Ops \subseteq Operations /\ Faults \subseteq {"apply"}

-----------------------------------------------------------------------------
(* The obfuscation block of a hub. *)

NeedsObfuscation(p) == p # "plain"

HasObfuscation(h) ==
  h.obf # NoBlock /\ (h.profile = "pathology" => h.obf.key # NoKey)

\* Normalize: a hub that gets another profile drops the block of the old one.
Reprofiled(h, p) == [h EXCEPT !.profile = p, !.obf = IF p = h.profile THEN @ ELSE NoBlock]

\* mergeAWGMap: a block with an init packet is manual, and no masquerade stays in it.
MergeAWGMap(dst, nested) ==
  [nested EXCEPT !.style = IF "manual" \in {dst.style, @} THEN "manual" ELSE "sugar", !.key = NoKey]

\* mergePathologyMap, validatePathologyAgainstCatalog: advanced values are dropped under
\* auto, and an empty key never wipes the one there is.
MergePathologyMap(dst, nested) ==
  [nested EXCEPT !.key = IF @ # NoKey THEN @ ELSE dst.key]

\* mergeWgObfuscation: the nested block of the hub's profile, when the body has one.
MergeWgObfuscation(h, nested) ==
  [h EXCEPT !.obf = CASE nested = NoBlock \/ ~NeedsObfuscation(h.profile) -> @
                      [] nested # NoBlock /\ h.profile \in AWG -> MergeAWGMap(@, nested)
                      [] nested # NoBlock /\ h.profile = "pathology" -> MergePathologyMap(@, nested)]

\* Bundle and BundleFromExisting: new values, in the style asked for or that of prev.
Bundle(prev, mode, fresh) ==
  [style |-> IF mode \in {"sugar", "manual"} THEN mode
             ELSE IF prev.style = "manual" THEN "manual" ELSE "sugar",
   rev |-> fresh, key |-> NoKey]

\* Variant: the key is renewed with the other values.
RegeneratePathology_NewKey(prev, auto, fresh) ==
  [style |-> IF auto THEN "auto" ELSE "advanced", rev |-> fresh, key |-> fresh]

\* RegeneratePathology, BundlePathologyWithKey: a key that exists is kept.
RegeneratePathology(prev, auto, fresh) ==
  [style |-> IF auto THEN "auto" ELSE "advanced", rev |-> fresh,
   key |-> IF prev.key # NoKey THEN prev.key ELSE fresh]

KeysOf(h) == {h.obf.key} \ {NoKey}

PathologyAuto(prev) == prev.style # "advanced"

\* Variant: a block is generated for the AWG profiles only.
EnsureWgHubSecrets_AWGOnly(h, force, fresh) ==
  [h EXCEPT !.keyed = TRUE,
            !.obf = CASE h.profile \in AWG /\ (force \/ ~HasObfuscation(h)) -> Bundle(@, "", fresh)
                      [] OTHER -> @]

\* ensureWgHubSecrets: the key pair, and a block when there is none or one is forced; a
\* forced pathology block is only generated when it has no key.
EnsureWgHubSecrets(h, force, fresh) ==
  [h EXCEPT !.keyed = TRUE,
            !.obf = CASE ~NeedsObfuscation(h.profile) -> NoBlock
                      [] h.profile = "pathology" /\ ~HasObfuscation(h) -> RegeneratePathology(NoBlock, TRUE, fresh)
                      [] h.profile \in AWG /\ (force \/ ~HasObfuscation(h)) -> Bundle(@, "", fresh)
                      [] OTHER -> @]

\* ensureWgUserCreds: keys for the users that have none, and the hub's pathology key for
\* those that were never given one.
EnsureWgUserCreds(us, group, h) ==
  [u \in Users |-> IF u \notin group THEN us[u]
                   ELSE [us[u] EXCEPT !.keyed = TRUE, !.psk = IF @ # NoKey THEN @ ELSE h.obf.key]]

EligibleUsers == {u \in Users : users[u].is = "on"}

-----------------------------------------------------------------------------
(* The two ends of a tunnel. *)

\* ApplyToEndpoint, ClearEndpointObfuscation: what of the block an endpoint carries.
ApplyToEndpoint(h) == IF NeedsObfuscation(h.profile) THEN h.obf ELSE NoBlock

\* BuildWireGuardEndpoint, for a hub whose secrets exist.
BuildWireGuardEndpoint(h, us) ==
  [hub |-> [h EXCEPT !.obf = ApplyToEndpoint(h)], peers |-> {u \in Users : us[u].is = "on" /\ us[u].keyed}]

\* It fails without a peer for the exit user.
BuildFails(h, us) == h.exit # NoUser /\ h.exit \notin BuildWireGuardEndpoint(h, us).peers

\* RenderWireGuardClientEndpoint: the end of user u, with the key the user was given.
RenderWireGuardClientEndpoint(u, h) ==
  [profile |-> h.profile, port |-> h.port, advertises |-> u = h.exit,
   obf |-> IF h.profile = "pathology" /\ users[u].psk # NoKey
           THEN [ApplyToEndpoint(h) EXCEPT !.key = users[u].psk] ELSE ApplyToEndpoint(h)]

-----------------------------------------------------------------------------
(* Requests. *)

Goto(t, l, j) == pc' = [pc EXCEPT ![t] = l] /\ job' = [job EXCEPT ![t] = j]

Request(t, op) ==
  /\ op \in Ops /\ pc[t] = "idle" /\ requests < MaxRequests
  /\ requests' = requests + 1
  /\ UNCHANGED <<running, sMu, erred>>

\* handleWgPut up to the save.  The exit user must have WireGuard credentials.  A block is
\* forced when the profile changes or its block is missing.
HandleWgPut(t) == \E b \in Bodies :
  LET prev == Reprofiled([hub EXCEPT !.on = b.on, !.port = b.port, !.exit = b.exit], b.profile)
      h    == EnsureWgHubSecrets(MergeWgObfuscation(prev, b.obf),
                                 NeedsObfuscation(b.profile) /\ (b.profile # hub.profile \/ ~HasObfuscation(prev)),
                                 made + 1)
  IN  /\ Request(t, "put")
      /\ b.exit # NoUser => users[b.exit].keyed
      /\ made' = IF h.obf.rev = made + 1 THEN made + 1 ELSE made
      /\ Goto(t, "save", [kind |-> "put", hub |-> h, base |-> hub, own |-> b.obf.key = OwnKey, cfg |-> NoEndpoint])
      /\ UNCHANGED <<hub, users, given>>

\* handleWgRegenerateObfuscation up to the save; the profile may be sent ahead of a PUT,
\* and auto only concerns pathology.
HandleWgRegenerateObfuscation(t) == \E mode \in Modes, override \in Profiles \cup {"none"}, auto \in BOOLEAN :
  LET h    == Reprofiled(hub, CASE override # "none" -> override
                                [] mode = "pathology" -> "pathology"
                                [] OTHER -> hub.profile)
  IN  /\ Request(t, "regenerate")
      /\ NeedsObfuscation(h.profile)
      /\ h.profile # "pathology" => auto = PathologyAuto(h.obf)
      /\ made' = made + 1
      /\ Goto(t, "save", [kind |-> "regenerate", base |-> hub, own |-> FALSE, cfg |-> NoEndpoint,
                          hub  |-> [h EXCEPT !.keyed = TRUE,
                                             !.obf = IF h.profile = "pathology" THEN RegeneratePathology(@, auto, made')
                                                     ELSE Bundle(@, mode, made')]])
      /\ UNCHANGED <<hub, users, given>>

\* SaveWgHub.  Nothing is rebuilt for a hub that is off and was off when it was loaded;
\* regenerate does not look at what it was.
SaveWgHub(t) ==
  LET j == job[t] IN
  /\ pc[t] = "save"
  /\ hub' = j.hub /\ given' = given \cup KeysOf(j.hub)
  /\ IF j.hub.on \/ (j.kind = "put" /\ j.base.on) THEN Goto(t, "remat", j) ELSE Goto(t, "idle", NoJob)
  /\ UNCHANGED <<users, running, made, sMu, erred, requests>>

\* persistWgBlock and the commit's rematerialize: no secrets are made here, and the block
\* of another profile goes.
PersistWgBlock(t) == \E b \in Bodies :
  /\ Request(t, "block")
  /\ hub' = Reprofiled([hub EXCEPT !.on = b.on, !.port = b.port], b.profile)
  /\ Goto(t, "remat", [NoJob EXCEPT !.kind = "block"])
  /\ UNCHANGED <<users, given, made>>

\* A user is created, disabled, enabled or deleted, softly or for good, and its handler
\* rebuilds; a deleted user is no longer the exit.
UserChanges(t) == \E u \in Users, deleted \in BOOLEAN : \E is \in {"none", "off", "on"} \ {users[u].is} :
  /\ Request(t, "user")
  /\ is = "none" => deleted
  /\ is = "on" => ~deleted
  /\ users' = [users EXCEPT ![u] = IF is = "none" THEN [is |-> is, keyed |-> FALSE, psk |-> NoKey] ELSE [@ EXCEPT !.is = is]]
  /\ hub' = IF deleted /\ hub.exit = u THEN [hub EXCEPT !.exit = NoUser] ELSE hub
  /\ Goto(t, "remat", [NoJob EXCEPT !.kind = "user"])
  /\ UNCHANGED <<given, made>>

\* handleSub of a user while the hub is on.
HandleSub(t) == \E u \in EligibleUsers :
  /\ Request(t, "sub") /\ hub.on
  /\ users' = EnsureWgUserCreds(users, {u}, hub)
  /\ UNCHANGED <<hub, given, made, pc, job>>

-----------------------------------------------------------------------------
(* rematerializeForce, as far as the hub goes. *)

\* The hub gets its secrets, the eligible users theirs (with the key of the hub as it is
\* still stored), both are saved, and the endpoint is built.
RematRead(t) ==
  LET h  == IF hub.on THEN EnsureWgHubSecrets(hub, FALSE, made + 1) ELSE hub
      us == IF hub.on THEN EnsureWgUserCreds(users, EligibleUsers, hub) ELSE users
  IN  /\ pc[t] = "remat" /\ sMu = Free
      /\ hub' = h /\ users' = us /\ given' = given \cup KeysOf(h)
      /\ made' = IF h.obf.rev = made + 1 THEN made + 1 ELSE made
      /\ IF h.on /\ BuildFails(h, us)
         THEN erred' = TRUE /\ Goto(t, "idle", NoJob) /\ UNCHANGED sMu
         ELSE /\ erred' = FALSE /\ sMu' = t
              /\ Goto(t, "apply", [job[t] EXCEPT !.cfg = IF h.on THEN BuildWireGuardEndpoint(h, us) ELSE NoEndpoint])
      /\ UNCHANGED <<running, requests>>

\* Supervisor.Apply; a refused configuration leaves the old one running and wg_hub.json as
\* it was saved.
RematApply(t) ==
  /\ pc[t] = "apply"
  /\ \/ running' = job[t].cfg /\ UNCHANGED erred
     \/ "apply" \in Faults /\ erred' = TRUE /\ UNCHANGED running
  /\ sMu' = Free /\ Goto(t, "idle", NoJob)
  /\ UNCHANGED <<hub, users, given, made, requests>>

-----------------------------------------------------------------------------

Init ==
  /\ hub = DefaultWgHub /\ running = NoEndpoint
  /\ users = [u \in Users |-> [is |-> "on", keyed |-> FALSE, psk |-> NoKey]]
  /\ made = 0 /\ given = {} /\ sMu = Free /\ erred = FALSE /\ requests = 0
  /\ pc = [t \in Clients |-> "idle"] /\ job = [t \in Clients |-> NoJob]

Next == \E t \in Clients :
  \/ HandleWgPut(t) \/ HandleWgRegenerateObfuscation(t) \/ SaveWgHub(t) \/ PersistWgBlock(t)
  \/ UserChanges(t) \/ HandleSub(t) \/ RematRead(t) \/ RematApply(t)

Spec == Init /\ [][Next]_vars

-----------------------------------------------------------------------------
(* Properties. *)

\* wg_hub.json holds a hub with at most the block of its profile (Normalize), users hold keys.
TypeOK ==
  /\ hub \in Hub /\ (hub.profile = "plain" => hub.obf = NoBlock)
  /\ hub.profile # "pathology" => hub.obf.key = NoKey
  /\ users \in [Users -> [is : {"none", "off", "on"}, keyed : BOOLEAN, psk : Keys]]
  /\ running.hub \in Hub /\ running.peers \subseteq Users /\ made \in Revs /\ given \subseteq Keys
  /\ \A t \in Clients : sMu = t <=> pc[t] = "apply"

Quiet == \A t \in Clients : pc[t] = "idle"

\* When no request is under way and nobody was told of an error since the box was built, a
\* hub that is on has all its secrets, and every eligible user gets an end of the tunnel
\* that fits the end the box serves: profile, port, exit and every value both must share.
\* The pathology key is shared as long as the hub has had one key only: a user keeps the
\* first it was given (ensureWgUserCreds), while a hub that leaves pathology and comes back
\* gets another.
EndsMeet ==
  Quiet /\ ~erred /\ hub.on =>
    /\ hub.keyed /\ (NeedsObfuscation(hub.profile) => HasObfuscation(hub))
    /\ running.peers = EligibleUsers
    /\ \A u \in EligibleUsers :
         LET mine == RenderWireGuardClientEndpoint(u, hub)
             its  == running.hub
         IN  /\ mine.profile = its.profile /\ mine.port = its.port /\ mine.advertises = (u = its.exit)
             /\ [mine.obf EXCEPT !.key = NoKey] = [its.obf EXCEPT !.key = NoKey]
             /\ Cardinality(given) <= 1 => mine.obf.key = its.obf.key

\* While the profile is pathology its key does not change, whatever is regenerated,
\* merged, committed or rebuilt, unless a PUT sends a key, or a save of an older copy.
KeySticky ==
  [][ hub.profile = "pathology" /\ HasObfuscation(hub) /\ hub'.profile = "pathology" =>
        \/ hub'.obf.key = hub.obf.key
        \/ \E t \in Clients : pc[t] = "save" /\ (job[t].own \/ hub # job[t].base) ]_vars

=============================================================================
