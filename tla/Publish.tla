------------------------------ MODULE Publish ------------------------------
(***************************************************************************)
(* What the control plane publishes: the inbounds and demux rules it gives *)
(* the box, and the outbounds it gives clients, built of the same stores.  *)
(* A demux set listens on one public port and sends each connection to a   *)
(* member by the first rule that matches its hello; members tell apart by  *)
(* SNI, by QUIC, or by being last.  A Reality member gets its SNI from the *)
(* operator's pool and a key pair of its own (reality_assignments.json); a *)
(* TLS member gets the leaf of an SSL profile or one made for its SNI.     *)
(*                                                                         *)
(* Ports, SNIs, keys and leaves are data of the stores; users, transports  *)
(* and knobs are left out.  An edit of one store is one step; rematerialize*)
(* is two, under Service.mu; PUT reality, PUT ssl and the subscription     *)
(* change a store outside Service.mu and are split where the code works on *)
(* what it read before.  The box is external: a rule that names an SNI     *)
(* matches the SNI of a TLS or QUIC hello, and certificate files are read  *)
(* when a box starts.                                                      *)
(***************************************************************************)
EXTENDS Integers, Sequences, FiniteSets, SequencesExt

CONSTANTS
  Clients,     \* goroutines of the HTTP server
  Names,       \* names of inbound sets
  Presets,     \* presets, each with the kind of slot it fills
  SlotOf,      \* that kind
  Snis,        \* domain names
  Defaults,    \* the Reality pool used when the operator's is empty
  Pools,       \* the pools operators put
  Host,        \* public_host
  Profiles,    \* ids of SSL profiles
  Default,     \* the profile that always exists
  Bodies,      \* the contents operators put in a profile
  PrivatePorts,\* 41000..60000
  Installs,    \* the sets operators install
  Keys,        \* Reality key pairs
  Gens,        \* generations of a leaf
  None,        \* the empty string
  Ops,         \* the requests operators make
  Faults,      \* "apply": the box may refuse a configuration
  MaxRequests  \* bound: requests

VARIABLES
  sets,        \* sets.json, by name
  active,      \* state.json: active_sets
  pool,        \* reality_config.json
  assigned,    \* reality_assignments.json: SNI and key by <<set, preset>>
  profiles,    \* ssl_profiles.json
  leaf,        \* ssl/<id>/cert.crt
  running,     \* the configuration of the box and the leaves it read
  sMu,         \* who holds Service.mu
  pc, job,     \* where each goroutine is, and its locals
  materialized,\* state.json: how the last build and apply ended
  slips,       \* since the box last took a new or forced configuration: whether an apply
               \* "failed", a failure was "undone", a leaf was written from a list of
               \* profiles already replaced ("stale"), or renewed while no set was active,
               \* so that nothing was rebuilt ("skipped")
  requests

stores == <<sets, active, pool, assigned, profiles, leaf>>
vars   == <<stores, running, materialized, slips, sMu, pc, job, requests>>

\* plain: catch-all; tls, naive: by SNI; dual: by SNI and all QUIC; quic: all QUIC;
\* quicSni: QUIC by SNI.
SlotKinds  == {"reality", "tls", "naive", "dual", "quic", "quicSni", "plain"}
Operations == {"install", "activate", "deactivate", "reality", "create", "put", "regenerate",
               "delete", "sub", "status", "smoke"}
Free       == 0
Domains    == Snis \cup {Host, None}
ServerNames == Domains \cup Profiles
Install    == [name : Names, slots : Seq(Presets), demux : BOOLEAN, ssl : Profiles \cup {None},
               over : UNION {[P -> Snis] : P \in SUBSET Presets}]   \* over: SNIs the operator gives slots
Profile    == [domain : Domains, acme : BOOLEAN]
Leaf       == [cn : Domains \cup {"localhost"}, gen : Gens]
NoCert     == <<"none", None>>
Certs      == {NoCert} \cup ({"leaf", "acme"} \X Profiles) \cup ({"slot"} \X ServerNames)
Inbound    == [preset : Presets, port : PrivatePorts, sni : ServerNames, key : Keys \cup {0}, cert : Certs]
Rule       == [quic : BOOLEAN, sni : ServerNames, always : BOOLEAN, port : PrivatePorts]

ASSUME PublishAssumption ==
  /\ Free \notin Clients
  /\ IsFiniteSet(Presets) /\ SlotOf \in [Presets -> SlotKinds] /\ Default \in Profiles /\ None \notin Snis \cup Profiles
  /\ Defaults \subseteq Snis /\ Defaults # {} /\ Pools \subseteq SUBSET Snis
  /\ PrivatePorts \subseteq Nat /\ Keys \subseteq Nat \ {0} /\ Gens \subseteq Nat
  /\ Bodies \subseteq Profile
  /\ \A b \in Installs : b \in Install
  /\ Ops \subseteq Operations /\ Faults \subseteq {"apply"} /\ MaxRequests \in Nat

Least(S)      == CHOOSE x \in S : \A y \in S : x <= y
Without(f, S) == [x \in DOMAIN f \ S |-> f[x]]
With(f, x, v) == [y \in DOMAIN f \cup {x} |-> IF y = x THEN v ELSE f[y]]
Indexed(s)    == {s[i] : i \in DOMAIN s}

UsesReality(p) == SlotOf[p] = "reality"
NeedsPEMTLS(p) == SlotOf[p] \in {"tls", "naive", "dual", "quic", "quicSni"}
ClaimsQUIC(p)  == SlotOf[p] = "dual"
IsQUIC(p)      == SlotOf[p] \in {"quic", "quicSni"}

-----------------------------------------------------------------------------
(* SSL profiles and their leaves. *)

\* SSLProfile.ServerName: the domain, or the name while there is none (the id stands for it).
ServerName(ps, id) == IF ps[id].domain # None THEN ps[id].domain ELSE id

LeafName(p) == IF p.domain = None THEN "localhost" ELSE p.domain

\* A leaf that is nowhere yet.
NewLeaf(id, p) ==
  LET used == {l.gen : l \in {f[id] : f \in {g \in {leaf, running.certs} : id \in DOMAIN g}}}
  IN  [cn |-> LeafName(p), gen |-> Least(Gens \ used)]

\* ensureSSLProfileMaterial: a self-signed leaf is written when there is none for the
\* domain; an ACME profile keeps none of another identity.
EnsureMaterial(lf, id, p, force) ==
  IF p.acme THEN Without(lf, {id})
  ELSE IF force \/ id \notin DOMAIN lf \/ lf[id].cn # LeafName(p) THEN With(lf, id, NewLeaf(id, p))
  ELSE lf

\* ensureSSLProfiles, of the profiles ps read before.
EnsureProfiles(lf, ps) ==
  LET one == [id \in DOMAIN ps |-> EnsureMaterial(lf, id, ps[id], FALSE)]
      has == {id \in DOMAIN ps : id \in DOMAIN one[id]} \cup (DOMAIN lf \ DOMAIN ps)
  IN  [id \in has |-> IF id \in DOMAIN ps THEN one[id][id] ELSE lf[id]]

-----------------------------------------------------------------------------
(* Installing a set: BuildInstall, syncBindingSNI, validateSet. *)

\* tlsSlotClaimsQUIC: a TLS slot that serves HTTP/3 too drops the QUIC slots.
Chosen(b) ==
  LET drop == b.demux /\ \E p \in Indexed(b.slots) : ClaimsQUIC(p)
  IN  FlattenSeq([i \in DOMAIN b.slots |-> IF drop /\ IsQUIC(b.slots[i]) THEN <<>> ELSE <<b.slots[i]>>])

\* A group has one catch-all: all those of the catalog have.
ASSUME OnePlain == \A b \in Installs : \A i, j \in DOMAIN Chosen(b) :
  SlotOf[Chosen(b)[i]] = "plain" /\ SlotOf[Chosen(b)[j]] = "plain" => i = j

EffectivePool(P) == IF P = {} THEN Defaults ELSE P

\* assignSlotSNIs: a slot has the SNI the operator gives it; one matched by SNI takes
\* another one of the shuffled pool that no slot has.
AssignSlotSNIs(b) ==
  LET slots == Indexed(Chosen(b))
      given == slots \cap DOMAIN b.over
      need  == {p \in slots : SlotOf[p] \in {"reality", "tls", "naive", "dual", "quicSni"}} \ given
      all   == [given \cup need -> Snis]
  IN  IF ~b.demux THEN {<<>>}
      ELSE {f \in all : /\ \A p \in given : f[p] = b.over[p]
                        /\ \A p \in need : /\ f[p] \in EffectivePool(pool)
                                            /\ \A q \in DOMAIN f \ {p} : f[p] # f[q]}

UsedPorts == {m.port : m \in UNION {Indexed(sets[n].members) : n \in DOMAIN sets}}

\* allocateMemberPorts, for n members: ports that no set uses, none twice; which ones is
\* immaterial.  With too few left there is none (cp_port_exhausted).
Allocations(n)         == {f \in [1..n -> PrivatePorts \ UsedPorts] : \A i, j \in 1..n : f[i] = f[j] => i = j}
AllocateMemberPorts(n) == CHOOSE f \in Allocations(n) : TRUE

\* The bindings; syncBindingSNI gives those without an SNI the server name of the profile.
Members(b, snis) ==
  LET ports == AllocateMemberPorts(Len(Chosen(b)))
  IN  [i \in DOMAIN Chosen(b) |->
     LET p == Chosen(b)[i]
     IN  [preset |-> p, port |-> ports[i],
          ssl    |-> IF NeedsPEMTLS(p) /\ b.ssl # None THEN b.ssl ELSE Default,
          sni    |-> IF p \in DOMAIN snis THEN snis[p]
                     ELSE ServerName(profiles, IF NeedsPEMTLS(p) /\ b.ssl # None THEN b.ssl ELSE Default)]]

MatchSni(m)  == [quic |-> FALSE, sni |-> m.sni, always |-> FALSE, port |-> m.port]
MatchQuic(m) == [quic |-> TRUE, sni |-> None, always |-> FALSE, port |-> m.port]
Always(m)    == [quic |-> FALSE, sni |-> None, always |-> TRUE, port |-> m.port]

\* slotRule and the first part of buildDemuxTemplate.
SlotRules(m) ==
  CASE SlotOf[m.preset] \in {"reality", "tls", "naive"} -> <<MatchSni(m)>>
    [] SlotOf[m.preset] = "dual"    -> <<MatchSni(m), MatchQuic(m)>>
    [] SlotOf[m.preset] = "quicSni" -> <<[MatchSni(m) EXCEPT !.quic = TRUE]>>
    [] OTHER -> <<>>

\* The members, by index, of one kind.
OfKind(ms, k) == {i \in DOMAIN ms : SlotOf[ms[i].preset] = k}

\* buildDemuxTemplate: by SNI, then the member for all QUIC, then the plain member (the last
\* one met; without one the rest is rejected: no rule).
BuildDemuxTemplate(ms) ==
  FlattenSeq([i \in DOMAIN ms |-> SlotRules(ms[i])])
  \o (IF OfKind(ms, "quic") = {} THEN <<>> ELSE <<MatchQuic(ms[Min(OfKind(ms, "quic"))])>>)
  \o (IF OfKind(ms, "plain") = {} THEN <<>> ELSE <<Always(ms[Max(OfKind(ms, "plain"))])>>)

BuildInstall(b, snis) ==
  LET ms == Members(b, snis)
  IN  [demux |-> b.demux, members |-> ms, rules |-> IF b.demux THEN BuildDemuxTemplate(ms) ELSE <<>>]

\* validateSet, validateDemuxUniqueSNITLS: the SNIs of the TLS members differ; and, of
\* BuildInstall, one member at most takes all QUIC and no preset fills two slots.
ValidateSet(s) ==
  /\ s.demux \/ Len(s.members) = 1
  /\ Cardinality(OfKind(s.members, "quic")) <= 1
  /\ \A i, j \in DOMAIN s.members : s.members[i].preset = s.members[j].preset => i = j
  /\ s.demux => \A i, j \in DOMAIN s.members :
       i # j /\ NeedsPEMTLS(s.members[i].preset) /\ NeedsPEMTLS(s.members[j].preset)
         => s.members[i].sni # s.members[j].sni

-----------------------------------------------------------------------------
(* ensureRealityAssignments. *)

RealityMembers(act) == {ni \in act \X (1..Cardinality(Presets)) :
  ni[2] \in DOMAIN sets[ni[1]].members /\ UsesReality(sets[ni[1]].members[ni[2]].preset)}

\* The Reality inbounds of the sets act, in a fixed order: key and preferred SNI.
Items(act) ==
  LET order      == SetToSeq(RealityMembers(act))
      Item(n, m) == [key |-> <<n, m.preset>>, prefer |-> m.sni]
  IN  [i \in DOMAIN order |-> Item(order[i][1], sets[order[i][1]].members[order[i][2]])]

KeysInUse(asg) ==
  {asg[k].key : k \in DOMAIN asg} \cup {assigned[k].key : k \in DOMAIN assigned}
  \cup {i.key : i \in UNION {Indexed(running.cfg[n].inbounds) : n \in DOMAIN running.cfg}}
  \cup UNION {{job[t].asg[k].key : k \in DOMAIN job[t].asg} : t \in Clients}
  \cup UNION {{i.key : i \in UNION {Indexed(job[t].cfg[n].inbounds) : n \in DOMAIN job[t].cfg}} : t \in Clients}

\* owner: who has taken each SNI in this pass.
FreeFor(owner, s, key) == s \notin DOMAIN owner \/ owner[s] = key

\* The first pass: of the assignments the pool still holds, the first owner of each SNI.
Owners(items, asg, P) ==
  LET Has(s) == {i \in DOMAIN items : items[i].key \in DOMAIN asg /\ asg[items[i].key].sni = s}
  IN  [s \in {x \in P : Has(x) # {}} |-> items[Least(Has(s))].key]

\* pickRealityEndpoint: the preferred SNI, else one that is free, else any.
PickRealityEndpoint(P, prefer, owner, key) ==
  IF prefer \in P /\ FreeFor(owner, prefer, key) THEN {prefer}
  ELSE IF \E s \in P : FreeFor(owner, s, key) THEN {s \in P : FreeFor(owner, s, key)}
  ELSE P

\* Variant: an assignment that moves to its preferred SNI, or stays, gets new keys.
Assign_NewKeys(st, it, P) ==
  LET old == IF it.key \in DOMAIN st.asg THEN {st.asg[it.key].sni} ELSE {}
  IN  {[asg   |-> With(st.asg, it.key, [sni |-> s, key |-> Least(Keys \ KeysInUse(st.asg))]),
        owner |-> With(Without(st.owner, old), s, it.key)] :
         s \in PickRealityEndpoint(P, it.prefer, st.owner, it.key)}

\* The second pass, for one inbound: keep its keys, moved to the preferred SNI when that is
\* free; or a new SNI with new keys.
Assign(st, it, P) ==
  LET old   == IF it.key \in DOMAIN st.asg THEN {st.asg[it.key].sni} ELSE {}
      cur   == st.asg[it.key].sni
      valid == it.key \in DOMAIN st.asg /\ cur \in P
      moves == valid /\ it.prefer # cur /\ it.prefer \in P /\ FreeFor(st.owner, it.prefer, it.key)
      At(s) == With(Without(st.owner, old), s, it.key)
  IN  IF moves THEN {[asg   |-> With(st.asg, it.key, [sni |-> it.prefer, key |-> st.asg[it.key].key]),
                      owner |-> At(it.prefer)]}
      ELSE IF valid /\ FreeFor(st.owner, cur, it.key)
      THEN {[asg |-> st.asg, owner |-> With(st.owner, cur, it.key)]}
      ELSE {[asg   |-> With(st.asg, it.key, [sni |-> s, key |-> Least(Keys \ KeysInUse(st.asg))]),
             owner |-> At(s)] : s \in PickRealityEndpoint(P, it.prefer, st.owner, it.key)}

\* What the second pass may have made of asg after so many inbounds.
Passes(items, asg, P) ==
  LET pass[i \in 0..Len(items)] ==
        IF i = 0 THEN {[asg |-> asg, owner |-> Owners(items, asg, P)]}
        ELSE UNION {Assign(st, items[i], P) : st \in pass[i - 1]}
  IN  pass

\* What ensureRealityAssignments may make of asg for the sets act and the pool P; the
\* assignments of other inbounds go.
EnsureRealityAssignments(asg, act, P) ==
  LET items == Items(act)
      need  == {it.key : it \in Indexed(items)}
  IN  IF P = {} THEN {asg}
      ELSE {Without(st.asg, DOMAIN st.asg \ need) : st \in Passes(items, asg, P)[Len(items)]}

-----------------------------------------------------------------------------
(* What is published. *)

HasProfile(ps, m) == m.ssl \in DOMAIN ps

\* The SlotTLS of rematerializeLocked: SNIs that have a leaf of their own.
SlotTLS(act, ps) ==
  {m.sni : m \in {x \in UNION {Indexed(sets[n].members) : n \in {n \in act : sets[n].demux}} :
     x.sni # Host /\ ~UsesReality(x.preset) /\ ~(HasProfile(ps, x) /\ ps[x.ssl].acme)}}

\* The TLS server name of an inbound.
EffectiveServer(demux, m, ps) ==
  IF demux \/ ~HasProfile(ps, m) THEN m.sni ELSE ServerName(ps, m.ssl)

\* attachInboundTLS, applySlotTLSPaths: the profile's certificate, or the slot's.
Certificate(m, server, slots, ps) ==
  IF HasProfile(ps, m) /\ ps[m.ssl].acme THEN <<"acme", m.ssl>>
  ELSE IF server \in slots THEN <<"slot", server>>
  ELSE <<"leaf", IF HasProfile(ps, m) THEN m.ssl ELSE Default>>

\* One inbound of buildSet.
BuildInbound(n, m, act, asg, ps) ==
  LET server == EffectiveServer(sets[n].demux, m, ps)
  IN  [preset |-> m.preset, port |-> m.port,
       sni  |-> IF UsesReality(m.preset) THEN asg[<<n, m.preset>>].sni
                ELSE IF NeedsPEMTLS(m.preset) THEN server ELSE None,
       key  |-> IF UsesReality(m.preset) THEN asg[<<n, m.preset>>].key ELSE 0,
       cert |-> IF NeedsPEMTLS(m.preset) THEN Certificate(m, server, SlotTLS(act, ps), ps) ELSE NoCert]

\* The member a rule dials.
MemberAt(ms, port) == CHOOSE m \in Indexed(ms) : m.port = port

\* Variant: Reality members keep the SNI of their install in the rules.
SyncRule_Installed(n, r, asg) ==
  LET m == MemberAt(sets[n].members, r.port)
  IN  [r EXCEPT !.sni = m.sni]

\* applyDemuxPortSNI, for syncDemuxSNIFromBindings and syncDemuxSNIWithReality: the rule
\* that dials a member names the SNI of the member, the assigned one for Reality.
SyncRule(n, r, asg) ==
  LET m == MemberAt(sets[n].members, r.port)
  IN  [r EXCEPT !.sni = IF UsesReality(m.preset) THEN asg[<<n, m.preset>>].sni ELSE m.sni]

\* Build, for the sets act.
Build(act, asg, ps) ==
  [n \in act |->
    [demux    |-> sets[n].demux,
     inbounds |-> [i \in DOMAIN sets[n].members |-> BuildInbound(n, sets[n].members[i], act, asg, ps)],
     rules    |-> [i \in DOMAIN sets[n].rules |-> SyncRule(n, sets[n].rules[i], asg)]]]

\* The leaves a box reads when it starts with the configuration cfg.
LeavesOf(cfg) == {i.cert[2] : i \in {x \in UNION {Indexed(cfg[n].inbounds) : n \in DOMAIN cfg} : x.cert[1] = "leaf"}}
Load(cfg)     == [id \in LeavesOf(cfg) |-> leaf[id]]
Startable(cfg) ==
  /\ LeavesOf(cfg) \subseteq DOMAIN leaf
  /\ \A m, n \in DOMAIN cfg : \A i \in DOMAIN cfg[m].inbounds, j \in DOMAIN cfg[n].inbounds :
       cfg[m].inbounds[i].port = cfg[n].inbounds[j].port => m = n /\ i = j

\* A hello: attachSubscriptionTLS of a subscription, which names the server of the SSL
\* profile, and of the smoke runner, which passes no profiles and names the member's SNI.
Hellos(m, sni) ==
  CASE SlotOf[m.preset] = "plain" -> {[quic |-> FALSE, sni |-> None]}
    [] SlotOf[m.preset] = "dual"  -> {[quic |-> FALSE, sni |-> sni], [quic |-> TRUE, sni |-> sni]}
    [] OTHER -> {[quic |-> IsQUIC(m.preset), sni |-> sni]}

RealityOf(n, m) == assigned[<<n, m.preset>>]

SmokeHellos(n, m) == Hellos(m, IF UsesReality(m.preset) THEN RealityOf(n, m).sni ELSE m.sni)

\* RenderSubscription for a client.
SubHellos(n, m) ==
  Hellos(m, IF UsesReality(m.preset) THEN RealityOf(n, m).sni
            ELSE IF HasProfile(profiles, m) THEN ServerName(profiles, m.ssl) ELSE m.sni)

\* The demux of the box: the first rule that matches, 0 for none.
Route(rules, h) ==
  LET hits == {i \in DOMAIN rules : \/ rules[i].always
                                    \/ (rules[i].quic => h.quic) /\ rules[i].sni \in {None, h.sni}}
  IN  IF hits = {} THEN 0 ELSE rules[Least(hits)].port

-----------------------------------------------------------------------------
(* GET status. *)

\* computeSSLStatus: the state "ready"; the key of a leaf is written with it.  ACME servers
\* are left out: such a profile stays pending.
SSLReady(id) == id \in DOMAIN leaf /\ leaf[id].cn = ServerName(profiles, id)

ActiveSets == active \cap DOMAIN sets

\* activeSSLACMEProfilesNotReady
ACMEPending == {id \in DOMAIN profiles : /\ profiles[id].acme /\ ~SSLReady(id)
  /\ \E n \in ActiveSets : \E m \in Indexed(sets[n].members) : m.ssl = id}

\* computeClientReady: ready.ok
ClientReady ==
  /\ ActiveSets # {} /\ running.cfg # <<>>
  /\ materialized = "ok"
  /\ SSLReady(Default) /\ ACMEPending = {}

-----------------------------------------------------------------------------
(* Requests. *)

\* kind: whose rematerialize this is; force; prev: active_sets before; cfg: the
\* configuration built; base, asg: the assignments PUT reality read and made; id, prof: of
\* PUT ssl; list: the profiles a subscription read.
NoJob == [kind |-> "none", force |-> FALSE, prev |-> {}, cfg |-> <<>>, base |-> <<>>, asg |-> <<>>,
          id |-> Default, prof |-> [domain |-> None, acme |-> FALSE], list |-> <<>>]
Job(k) == [NoJob EXCEPT !.kind = k]

Goto(t, l, j) == pc' = [pc EXCEPT ![t] = l] /\ job' = [job EXCEPT ![t] = j]
Answer(t)     == Goto(t, "idle", NoJob)
Step(t, l)    == pc[t] = l /\ UNCHANGED requests

Request(t, op) ==
  /\ op \in Ops /\ pc[t] = "idle" /\ requests < MaxRequests
  /\ requests' = requests + 1
  /\ UNCHANGED <<running, sMu, materialized, slips>>

\* handleSetsFromDemuxGroup, and handleSetsFromPresets for a set without demux.
HandleInstall(t) == \E b \in Installs, activate \in BOOLEAN : \E snis \in AssignSlotSNIs(b) :
  LET s == BuildInstall(b, snis)
  IN  /\ Request(t, "install")
      /\ b.name \notin DOMAIN sets /\ b.ssl \in DOMAIN profiles \cup {None}
      /\ Allocations(Len(Chosen(b))) # {} /\ ValidateSet(s)
      /\ sets' = With(sets, b.name, s)
      /\ pool' = EffectivePool(pool)
      /\ IF activate THEN /\ active' = ActiveSets \cup {b.name}
                          /\ Goto(t, "remat", [Job("activate") EXCEPT !.prev = ActiveSets])
         ELSE Answer(t) /\ UNCHANGED active
      /\ UNCHANGED <<assigned, profiles, leaf>>

\* activateSetByNameOpt
HandleSetsActivate(t) == \E n \in DOMAIN sets :
  /\ Request(t, "activate")
  /\ active' = ActiveSets \cup {n}
  /\ Goto(t, "remat", [Job("activate") EXCEPT !.prev = ActiveSets])
  /\ UNCHANGED <<sets, pool, assigned, profiles, leaf>>

\* deactivateSetByNameOpt; without the last set nothing is rebuilt.
HandleSetsDeactivate(t) == \E n \in active :
  /\ Request(t, "deactivate")
  /\ active' = active \ {n}
  /\ IF active' # {} THEN Goto(t, "remat", [Job("activate") EXCEPT !.prev = active]) ELSE Answer(t)
  /\ UNCHANGED <<sets, pool, assigned, profiles, leaf>>

\* handleRealityPut up to its own ensureRealityAssignments, which works on the pool of the
\* request and outside Service.mu: it reads the assignments here and saves them later.
HandleRealityPut(t) == \E P \in Pools :
  /\ Request(t, "reality")
  /\ pool' = P
  /\ \E r \in EnsureRealityAssignments(assigned, ActiveSets, P) :
       IF r = assigned THEN Goto(t, "remat", Job("reality"))
       ELSE Goto(t, "assign", [Job("reality") EXCEPT !.base = assigned, !.asg = r])
  /\ UNCHANGED <<sets, active, assigned, profiles, leaf>>

SaveRealityAssignments(t) ==
  /\ Step(t, "assign")
  /\ assigned' = job[t].asg
  /\ Goto(t, "remat", Job("reality"))
  /\ UNCHANGED <<sets, active, pool, profiles, leaf, running, sMu, materialized, slips>>

\* sslProfileReferenced
SSLProfileReferenced(id) == \E n \in DOMAIN sets : \E m \in Indexed(sets[n].members) : m.ssl = id

\* newSSLProfileID: nobody has heard of it yet.
NewSSLProfileID(id) ==
  /\ ~SSLProfileReferenced(id) /\ id \notin DOMAIN profiles \cup DOMAIN leaf \cup LeavesOf(running.cfg)
  /\ \A t \in Clients : id # job[t].id /\ id \notin DOMAIN job[t].list \cup LeavesOf(job[t].cfg)

\* handleSSLCreate: a draft without a domain.
HandleSSLCreate(t) == \E id \in Profiles :
  /\ Request(t, "create") /\ NewSSLProfileID(id)
  /\ profiles' = With(profiles, id, [domain |-> None, acme |-> FALSE])
  /\ leaf' = EnsureMaterial(leaf, id, [domain |-> None, acme |-> FALSE], FALSE)
  /\ Answer(t)
  /\ UNCHANGED <<sets, active, pool, assigned>>

\* SSLProfile.Validate
ValidProfile(b) == b.acme => b.domain # None

\* handleSSLPut: a change of identity drops the leaf, then the material is made anew, and
\* only then is the profile saved.
HandleSSLPut(t) == \E id \in DOMAIN profiles, b \in Bodies :
  /\ Request(t, "put") /\ ValidProfile(b)
  /\ leaf' = EnsureMaterial(leaf, id, b, b # profiles[id])
  /\ Goto(t, "upsert", [Job("ssl") EXCEPT !.id = id, !.prof = b, !.force = TRUE])
  /\ UNCHANGED <<sets, active, pool, assigned, profiles>>

\* Variant: the box is rebuilt without force.
HandleSSLRegenerate_NoForce(t) == \E id \in DOMAIN profiles :
  /\ Request(t, "regenerate")
  /\ leaf' = EnsureMaterial(leaf, id, profiles[id], TRUE)
  /\ Goto(t, "upsert", [Job("ssl") EXCEPT !.id = id, !.prof = profiles[id]])
  /\ UNCHANGED <<sets, active, pool, assigned, profiles>>

\* handleSSLRegenerate
HandleSSLRegenerate(t) == \E id \in DOMAIN profiles :
  /\ Request(t, "regenerate")
  /\ leaf' = EnsureMaterial(leaf, id, profiles[id], TRUE)
  /\ Goto(t, "upsert", [Job("ssl") EXCEPT !.id = id, !.prof = profiles[id], !.force = TRUE])
  /\ UNCHANGED <<sets, active, pool, assigned, profiles>>

\* upsertSSLProfile
UpsertSSLProfile(t) ==
  /\ Step(t, "upsert")
  /\ profiles' = With(profiles, job[t].id, job[t].prof)
  /\ Goto(t, "remat", job[t])
  /\ UNCHANGED <<sets, active, pool, assigned, leaf, running, sMu, materialized, slips>>

\* deleteSSLProfileFiles
DeleteSSLProfileFiles(id) == leaf' = Without(leaf, {id})

\* handleSSLDelete, which drops the files first: refused for a profile some set names.
HandleSSLDelete(t) == \E id \in DOMAIN profiles \ {Default} :
  /\ Request(t, "delete")
  /\ ~SSLProfileReferenced(id)
  /\ DeleteSSLProfileFiles(id)
  /\ Goto(t, "remove", [Job("ssl") EXCEPT !.id = id, !.force = TRUE])
  /\ UNCHANGED <<sets, active, pool, assigned, profiles>>

RemoveSSLProfile(t) ==
  /\ Step(t, "remove")
  /\ profiles' = Without(profiles, {job[t].id})
  /\ Goto(t, "remat", job[t])
  /\ UNCHANGED <<sets, active, pool, assigned, leaf, running, sMu, materialized, slips>>

\* handleSub: ensureSSLProfiles reads the profiles here and writes what leaves they lack
\* later; what is rendered is SubHellos.
HandleSub(t) ==
  /\ Request(t, "sub") /\ ActiveSets # {}
  /\ active' = ActiveSets
  /\ Goto(t, "sub", [Job("sub") EXCEPT !.list = profiles])
  /\ UNCHANGED <<sets, pool, assigned, profiles, leaf>>

\* GET status does the same, without active sets too.
HandleStatus(t) ==
  /\ Request(t, "status")
  /\ Goto(t, "sub", [Job("sub") EXCEPT !.list = profiles])
  /\ UNCHANGED stores

\* ensureSmokeProbeUser: a user made for the probe, or given credentials for it, must be
\* put on the box; users are left out.
EnsureSmokeProbeUser(t) == \E new \in BOOLEAN : Goto(t, IF new THEN "remat" ELSE "smoke", Job("smoke"))

\* handleSmoke, one at a time; then it makes sure of the leaves as a subscription does and
\* probes (SmokeHellos).
HandleSmoke(t) ==
  /\ Request(t, "smoke") /\ ActiveSets # {}
  /\ \A u \in Clients : job[u].kind # "smoke"
  /\ active' = ActiveSets
  /\ EnsureSmokeProbeUser(t)
  /\ UNCHANGED <<sets, pool, assigned, profiles, leaf>>

SmokeReads(t) ==
  /\ Step(t, "smoke")
  /\ Goto(t, "sub", [job[t] EXCEPT !.list = profiles])
  /\ UNCHANGED <<stores, running, sMu, materialized, slips>>

SubEnsures(t) ==
  /\ Step(t, "sub")
  /\ leaf' = EnsureProfiles(leaf, job[t].list)
  /\ slips' = IF leaf' = leaf \/ job[t].list = profiles THEN slips ELSE slips \cup {"stale"}
  /\ Answer(t)
  /\ UNCHANGED <<sets, active, pool, assigned, profiles, running, sMu, materialized>>

-----------------------------------------------------------------------------
(* rematerializeForce. *)

\* Without active sets and ACME profiles nothing is built.
NothingToBuild == ActiveSets = {} /\ \A id \in DOMAIN profiles : ~profiles[id].acme

\* Where a request goes whose rematerialize succeeded.
Done(t) == IF job[t].kind = "smoke" THEN Goto(t, "smoke", job[t]) ELSE Answer(t)

RematReturns(t) ==
  /\ Step(t, "remat") /\ sMu = Free /\ NothingToBuild
  /\ active' = {}
  /\ leaf' = EnsureProfiles(leaf, profiles)
  /\ slips' = IF job[t].force \/ leaf' # leaf THEN slips \cup {"skipped"} ELSE slips
  /\ Done(t)
  /\ UNCHANGED <<sets, pool, assigned, profiles, running, sMu, materialized>>

\* Variant: the assignments of PUT reality are taken as they are.
RematRead_AsAssigned(t) ==
  /\ Step(t, "remat") /\ sMu = Free /\ ~NothingToBuild
  /\ sMu' = t
  /\ active' = ActiveSets
  /\ leaf' = EnsureProfiles(leaf, profiles)
  /\ pool' = IF RealityMembers(ActiveSets) # {} THEN EffectivePool(pool) ELSE pool
  /\ \E asg \in IF RealityMembers(ActiveSets) = {} \/ job[t].kind # "activate" THEN {assigned}
               ELSE EnsureRealityAssignments(assigned, ActiveSets, pool') :
       /\ \A ni \in RealityMembers(ActiveSets) : <<ni[1], sets[ni[1]].members[ni[2]].preset>> \in DOMAIN asg
       /\ assigned' = asg
       /\ Goto(t, "apply", [job[t] EXCEPT !.cfg = Build(ActiveSets, asg, profiles)])
  /\ slips' = IF job[t].force \/ job'[t].cfg # running.cfg THEN {} ELSE slips
  /\ UNCHANGED <<sets, profiles, running, materialized>>

\* Everything is read, ensured and built under Service.mu.
RematRead(t) ==
  /\ Step(t, "remat") /\ sMu = Free /\ ~NothingToBuild
  /\ sMu' = t
  /\ active' = ActiveSets
  /\ leaf' = EnsureProfiles(leaf, profiles)
  /\ pool' = IF RealityMembers(ActiveSets) # {} THEN EffectivePool(pool) ELSE pool
  /\ \E asg \in IF RealityMembers(ActiveSets) = {} THEN {assigned}
               ELSE EnsureRealityAssignments(assigned, ActiveSets, pool') :
       /\ assigned' = asg
       /\ Goto(t, "apply", [job[t] EXCEPT !.cfg = Build(ActiveSets, asg, profiles)])
  /\ slips' = IF job[t].force \/ job'[t].cfg # running.cfg THEN {} ELSE slips
  /\ UNCHANGED <<sets, profiles, running, materialized>>

\* Variant: a failure leaves the record of the last success.
RecordMaterializeResult_Kept(ok) == materialized' = IF ok THEN "ok" ELSE materialized

\* recordMaterializeResult
RecordMaterializeResult(ok) == materialized' = IF ok THEN "ok" ELSE "failed"

\* Supervisor.Apply: the same configuration without force changes nothing; a box that does
\* not start leaves the old one, untouched or started again.
RematApply(t) ==
  LET cfg == job[t].cfg
  IN  /\ Step(t, "apply")
      /\ sMu' = Free
      /\ \/ /\ Startable(cfg)
            /\ running' = IF cfg = running.cfg /\ ~job[t].force THEN running ELSE [cfg |-> cfg, certs |-> Load(cfg)]
            /\ RecordMaterializeResult(TRUE)
            /\ Done(t)
            /\ UNCHANGED slips
         \/ /\ ~Startable(cfg) \/ "apply" \in Faults
            /\ \/ UNCHANGED running
               \/ LeavesOf(running.cfg) \subseteq DOMAIN leaf /\ running' = [running EXCEPT !.certs = Load(running.cfg)]
            /\ RecordMaterializeResult(FALSE)
            /\ slips' = slips \cup {"failed"}
            /\ IF job[t].kind = "activate" THEN Goto(t, "undo", job[t]) ELSE Answer(t)
      /\ UNCHANGED stores

\* A failed activation or deactivation puts back the active sets it found.
Undo(t) ==
  /\ Step(t, "undo")
  /\ active' = job[t].prev
  /\ slips' = slips \cup {"undone"}
  /\ Answer(t)
  /\ UNCHANGED <<sets, pool, assigned, profiles, leaf, running, sMu, materialized>>

-----------------------------------------------------------------------------

Init ==
  /\ sets = <<>> /\ active = {} /\ pool = {} /\ assigned = <<>>
  /\ profiles = [id \in {Default} |-> [domain |-> Host, acme |-> FALSE]]
  /\ leaf = [id \in {Default} |-> [cn |-> LeafName(profiles[id]), gen |-> Least(Gens)]]
  /\ running = [cfg |-> <<>>, certs |-> <<>>] /\ sMu = Free
  /\ pc = [t \in Clients |-> "idle"] /\ job = [t \in Clients |-> NoJob]
  /\ materialized = "never" /\ slips = {} /\ requests = 0

Next == \E t \in Clients :
  \/ HandleInstall(t) \/ HandleSetsActivate(t) \/ HandleSetsDeactivate(t)
  \/ HandleRealityPut(t) \/ SaveRealityAssignments(t)
  \/ HandleSSLCreate(t) \/ HandleSSLPut(t) \/ HandleSSLRegenerate(t) \/ UpsertSSLProfile(t)
  \/ HandleSSLDelete(t) \/ RemoveSSLProfile(t) \/ HandleSub(t) \/ HandleStatus(t)
  \/ HandleSmoke(t) \/ SmokeReads(t) \/ SubEnsures(t)
  \/ RematReturns(t) \/ RematRead(t) \/ RematApply(t) \/ Undo(t)

Spec == Init /\ [][Next]_vars

-----------------------------------------------------------------------------
(* Properties. *)

\* Every store holds what its handlers may write, and Service.mu is held from build to apply.
TypeOK ==
  /\ DOMAIN sets \subseteq Names /\ active \subseteq Names /\ pool \subseteq Snis
  /\ \A n \in DOMAIN sets : /\ \A m \in Indexed(sets[n].members) : m.sni \in ServerNames /\ m.ssl \in Profiles
                            /\ \A r \in Indexed(sets[n].rules) : r \in Rule
  /\ \A k \in DOMAIN assigned : assigned[k] \in [sni : Snis, key : Keys]
  /\ Default \in DOMAIN profiles /\ DOMAIN profiles \subseteq Profiles
  /\ \A id \in DOMAIN profiles : profiles[id] \in Profile
  /\ \A id \in DOMAIN leaf : leaf[id] \in Leaf
  /\ \A n \in DOMAIN running.cfg : \A i \in Indexed(running.cfg[n].inbounds) : i \in Inbound
  /\ \A t \in Clients : sMu = t <=> pc[t] = "apply"

Quiet   == \A t \in Clients : pc[t] = "idle"
Settled == Quiet /\ slips = {} /\ ActiveSets # {}

\* When no request is under way and none slipped since the box last changed, the
\* box runs what the stores say, down to the Reality keys clients get (RenderSubscription
\* reads the stored ones) and the leaves on disk (applied with force, or they would stay).
BoxFresh == Settled =>
  running = [cfg |-> Build(ActiveSets, assigned, profiles), certs |-> Load(running.cfg)]

\* GET status says ready only if the box runs what the stores say, whatever failed before,
\* but for active sets put back after a failure, which no one applies.
ReadyHonest == Quiet /\ ClientReady /\ "undone" \notin slips =>
  running.cfg = Build(ActiveSets, assigned, profiles)

\* When no request failed, every Reality inbound is disguised as a host of the operator's pool, although
\* each PUT reality assigns hosts of its own body outside Service.mu.
PoolHonoured == Settled =>
  \A ni \in RealityMembers(ActiveSets) : RealityOf(ni[1], sets[ni[1]].members[ni[2]]).sni \in pool

\* A Reality member whose SNI another member of its set has as well: which the assignment
\* of a new SNI does not exclude.
Shadowed(n, m) == \E x, y \in Indexed(sets[n].members) :
  /\ x # y /\ UsesReality(x.preset) /\ m \in {x, y}
  /\ RealityOf(n, x).sni = IF UsesReality(y.preset) THEN RealityOf(n, y).sni ELSE y.sni

\* Whatever hellos hellos(n, m) a client sends to a member, they reach its inbound.
Reached(n, m, hs) == \A h \in hs :
  LET port == IF running.cfg[n].demux THEN Route(running.cfg[n].rules, h) ELSE m.port
  IN  \A i \in Indexed(running.cfg[n].inbounds) : i.preset = m.preset => i.port = port

\* Then, too, a smoke probe reaches the inbound it is meant for: the demux rules, their
\* order, the ports and the SNIs agree for every group, choice of slots and reassignment.
ProbeReaches == Settled =>
  \A n \in ActiveSets : \A m \in Indexed(sets[n].members) : Shadowed(n, m) \/ Reached(n, m, SmokeHellos(n, m))

\* Reality keys are sticky: while an inbound keeps an SNI nobody else has or gets (as another
\* does when the pool has too few for all), it keeps its keys, unless a PUT reality saves over
\* assignments that changed since it read them.
KeysSticky == [][
  \/ \E t \in Clients : pc[t] = "assign" /\ pc'[t] = "remat" /\ assigned # job[t].base
  \/ \A k \in DOMAIN assigned \cap DOMAIN assigned' :
       /\ assigned'[k].sni = assigned[k].sni
       /\ \A o \in DOMAIN assigned \ {k} : assigned[o].sni # assigned[k].sni
       /\ \A o \in DOMAIN assigned' \ {k} : assigned'[o].sni # assigned'[k].sni
       => assigned'[k].key = assigned[k].key]_vars

\* And a client that uses its subscription reaches the inbound each outbound is for: the
\* SNI of its hello is the one the demux matches.
ClientReaches == Settled =>
  \A n \in ActiveSets : \A m \in Indexed(sets[n].members) : Shadowed(n, m) \/ Reached(n, m, SubHellos(n, m))

=============================================================================
