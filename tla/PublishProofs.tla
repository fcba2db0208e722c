--------------------------- MODULE PublishProofs ----------------------------
(***************************************************************************)
(* Proofs about Publish, for every value of its constants: any number of   *)
(* clients, sets, profiles and requests.                                   *)
(*                                                                         *)
(* Shape     what the stores and the goroutines keep has its form, and     *)
(*           active sets are installed;                                    *)
(* LeafInv   unless somebody is about to change a profile or to rebuild    *)
(*           with force, or a leaf slipped, no leaf is missing, left over  *)
(*           or for another name: ensureSSLProfiles would do nothing;      *)
(* CertInv   then, unless a box is being started, the box has read the     *)
(*           leaves that are on disk;                                      *)
(* CfgInv    somebody is about to rebuild, or what is being applied, or    *)
(*           else what runs, is what the stores want;                      *)
(* PoolInv   no set has a preset twice; unless somebody is about to        *)
(*           rebuild, the Reality inbounds have SNIs of the pool;          *)
(* PutInv    what a PUT reality is about to save keeps the keys of what it *)
(*           read;                                                         *)
(* SetsInv   the members of a set are told apart by preset, port and SNI,  *)
(*           and its rules are those of its members, the one that catches  *)
(*           all being the last.                                           *)
(*                                                                         *)
(* ensureRealityAssignments passes the Reality inbounds one after another. *)
(* PassInv says what holds after so many; that it holds after all of them  *)
(* is an induction over that number: SetInduction, from the fact that Nat  *)
(* is well-founded.  What a concatenation of rules holds is another one.   *)
(***************************************************************************)
EXTENDS Publish, FiniteSetTheorems, TLAPS

Fields == {"kind", "force", "prev", "cfg", "base", "asg", "id", "prof", "list"}

\* Service.mu is held from build to apply; who changes a profile will force a restart.
Shape ==
  /\ DOMAIN pc = Clients /\ DOMAIN job = Clients
  /\ \A t \in Clients :
       /\ DOMAIN job[t] = Fields
       /\ job[t].prev \subseteq DOMAIN sets
       /\ pc[t] = "apply" => sMu = t
       /\ pc[t] \in {"upsert", "remove"} => job[t].force
  /\ active \subseteq DOMAIN sets
  /\ leaf = [id \in DOMAIN leaf |-> leaf[id]]
  /\ running = [cfg |-> running.cfg, certs |-> running.certs]

\* The leaves are those the profiles ps call for.
Ensured(lf, ps) == \A id \in DOMAIN ps :
  IF ps[id].acme THEN id \notin DOMAIN lf ELSE id \in DOMAIN lf /\ lf[id].cn = LeafName(ps[id])

\* A leaf or a profile has changed, and a forced rebuild is to come.
Renewing == \E t \in Clients : pc[t] \in {"upsert", "remove"} \/ (pc[t] = "remat" /\ job[t].force)

\* The box is about to start with what has been built.
Starting == \E t \in Clients : pc[t] = "apply" /\ (job[t].force \/ job[t].cfg # running.cfg)

LeafInv == slips = {} /\ ~Renewing => Ensured(leaf, profiles)

CertInv ==
  slips = {} /\ ~Renewing /\ ~Starting =>
    LeavesOf(running.cfg) \subseteq DOMAIN leaf /\ running.certs = Load(running.cfg)

\* Somebody is going to rebuild, or to put active sets back.
Unsettled == \E t \in Clients : pc[t] \in {"remat", "assign", "upsert", "remove", "undo"}

Wanted == Build(ActiveSets, assigned, profiles)

CfgInv ==
  ~Unsettled /\ "undone" \notin slips /\ ActiveSets # {} =>
    /\ \A t \in Clients : pc[t] = "apply" => job[t].cfg = Wanted
    /\ (\A t \in Clients : pc[t] # "apply") /\ (materialized = "ok" \/ "failed" \notin slips)
         => running.cfg = Wanted

-----------------------------------------------------------------------------
(* Leaves *)

\* ensureSSLProfiles leaves no leaf missing, left over or for another name.
LEMMA EnsureMakes ==
  ASSUME NEW lf, NEW ps
  PROVE  Ensured(EnsureProfiles(lf, ps), ps)
<1> DEFINE one == [id \in DOMAIN ps |-> EnsureMaterial(lf, id, ps[id], FALSE)]
           res == EnsureProfiles(lf, ps)
<1>1. ASSUME NEW id \in DOMAIN ps
      PROVE  /\ id \in DOMAIN res <=> id \in DOMAIN one[id]
             /\ id \in DOMAIN res => res[id] = one[id][id]
  BY DEF EnsureProfiles
<1>2. ASSUME NEW id \in DOMAIN ps
      PROVE  IF ps[id].acme THEN id \notin DOMAIN one[id]
             ELSE id \in DOMAIN one[id] /\ one[id][id].cn = LeafName(ps[id])
  <2>1. one[id] = EnsureMaterial(lf, id, ps[id], FALSE)
    OBVIOUS
  <2>2. CASE ps[id].acme
    BY <2>1, <2>2 DEF EnsureMaterial, Without
  <2>3. CASE ~ps[id].acme /\ (id \notin DOMAIN lf \/ lf[id].cn # LeafName(ps[id]))
    <3>1. one[id] = With(lf, id, NewLeaf(id, ps[id]))
      BY <2>1, <2>3 DEF EnsureMaterial
    <3>2. id \in DOMAIN one[id] /\ one[id][id] = NewLeaf(id, ps[id])
      BY <3>1 DEF With
    <3>3. NewLeaf(id, ps[id]).cn = LeafName(ps[id])
      BY Zenon DEF NewLeaf
    <3> QED
      BY <2>3, <3>2, <3>3
  <2>4. CASE ~ps[id].acme /\ id \in DOMAIN lf /\ lf[id].cn = LeafName(ps[id])
    BY <2>1, <2>4 DEF EnsureMaterial
  <2> QED
    BY <2>2, <2>3, <2>4
<1> HIDE DEF one, res
<1>3. Ensured(res, ps)
  BY <1>1, <1>2 DEF Ensured
<1> QED
  BY <1>3 DEF res

\* It does nothing when there is nothing to do.
LEMMA EnsureKeeps ==
  ASSUME NEW lf, NEW ps, lf = [id \in DOMAIN lf |-> lf[id]], Ensured(lf, ps)
  PROVE  EnsureProfiles(lf, ps) = lf
<1> DEFINE one == [id \in DOMAIN ps |-> EnsureMaterial(lf, id, ps[id], FALSE)]
           has == {id \in DOMAIN ps : id \in DOMAIN one[id]} \cup (DOMAIN lf \ DOMAIN ps)
<1>1. EnsureProfiles(lf, ps) = [id \in has |-> IF id \in DOMAIN ps THEN one[id][id] ELSE lf[id]]
  BY DEF EnsureProfiles
<1>2. ASSUME NEW id \in DOMAIN ps
      PROVE  /\ id \in DOMAIN one[id] <=> id \in DOMAIN lf
             /\ id \in DOMAIN lf => one[id][id] = lf[id]
  <2>1. one[id] = EnsureMaterial(lf, id, ps[id], FALSE)
    OBVIOUS
  <2>2. CASE ps[id].acme
    BY <2>1, <2>2 DEF EnsureMaterial, Without, Ensured
  <2>3. CASE ~ps[id].acme
    BY <2>1, <2>3 DEF EnsureMaterial, Ensured
  <2> QED
    BY <2>2, <2>3
<1> HIDE DEF one
<1>3. has = DOMAIN lf
  BY <1>2
<1>4. \A id \in has : (IF id \in DOMAIN ps THEN one[id][id] ELSE lf[id]) = lf[id]
  BY <1>2
<1> HIDE DEF has
<1> QED
  BY <1>1, <1>3, <1>4

\* The leaves of functions stay functions.
LEMMA EnsureIsFunction ==
  ASSUME NEW lf, NEW ps
  PROVE  EnsureProfiles(lf, ps) = [id \in DOMAIN EnsureProfiles(lf, ps) |-> EnsureProfiles(lf, ps)[id]]
BY DEF EnsureProfiles

\* What one profile is given is a function, too.
LEMMA MaterialIsFunction ==
  ASSUME NEW lf, lf = [x \in DOMAIN lf |-> lf[x]], NEW id, NEW p, NEW force \in BOOLEAN
  PROVE  LET f == EnsureMaterial(lf, id, p, force) IN f = [x \in DOMAIN f |-> f[x]]
BY DEF EnsureMaterial, With, Without


-----------------------------------------------------------------------------
(* What is wanted of the box *)

\* It depends on nothing but the active sets, the assignments, and the profiles those sets name.
LEMMA WantedAfter ==
  ASSUME ActiveSets' = ActiveSets,
         \A n \in ActiveSets : sets'[n] = sets[n],
         \A n \in ActiveSets : \A m \in Indexed(sets[n].members) :
           /\ m.ssl \in DOMAIN profiles' <=> m.ssl \in DOMAIN profiles
           /\ m.ssl \in DOMAIN profiles => profiles'[m.ssl] = profiles[m.ssl]
  PROVE  Wanted' = Build(ActiveSets, assigned', profiles)
<1> DEFINE slots == SlotTLS(ActiveSets, profiles)
           inbound(n, i) == BuildInbound(n, sets[n].members[i], ActiveSets, assigned', profiles)
           rule(n, i) == SyncRule(n, sets[n].rules[i], assigned')
           later(n, i) == BuildInbound(n, sets[n].members[i], ActiveSets, assigned, profiles)
           laterRule(n, i) == SyncRule(n, sets[n].rules[i], assigned)
<1>1. ASSUME NEW n \in ActiveSets, NEW m \in Indexed(sets[n].members)
      PROVE  /\ HasProfile(profiles', m) <=> HasProfile(profiles, m)
             /\ HasProfile(profiles, m) => profiles'[m.ssl] = profiles[m.ssl]
  BY <1>1 DEF HasProfile
<1>2. slots' = slots
  <2> DEFINE acme(ps, x) == HasProfile(ps, x) /\ ps[x.ssl].acme
             demuxed == {n \in ActiveSets : sets[n].demux}
             members == UNION {Indexed(sets[n].members) : n \in demuxed}
             own(ps) == {x \in members : x.sni # Host /\ ~UsesReality(x.preset) /\ ~acme(ps, x)}
  <2>1. demuxed' = demuxed
    OBVIOUS
  <2>2. \A n \in demuxed : Indexed(sets'[n].members) = Indexed(sets[n].members)
    OBVIOUS
  <2>3. members' = members
    <3>1. members' = UNION {Indexed(sets'[n].members) : n \in demuxed'}
      BY DEF Indexed
    <3> HIDE DEF demuxed
    <3> QED
      BY <2>1, <2>2, <3>1
  <2>4. \A x \in members : acme(profiles', x) <=> acme(profiles, x)
    BY <1>1
  <2>5. slots = {m.sni : m \in own(profiles)} /\ slots' = {m.sni : m \in own(profiles)'}
    BY DEF SlotTLS, HasProfile, Indexed, UsesReality
  <2>6. own(profiles)' = own(profiles)
    <3>1. own(profiles)' = {x \in members' : x.sni # Host /\ ~UsesReality(x.preset) /\ ~acme(profiles', x)}
      BY DEF UsesReality, HasProfile
    <3> HIDE DEF members, acme
    <3> QED
      BY <2>3, <2>4, <3>1
  <2> HIDE DEF slots, own
  <2> QED
    BY <2>5, <2>6
<1>3. ASSUME NEW n \in ActiveSets, NEW i \in DOMAIN sets[n].members
      PROVE  later(n, i)' = inbound(n, i)
  <2> DEFINE m == sets[n].members[i]
  <2>1. m' = m /\ sets'[n].demux = sets[n].demux /\ m \in Indexed(sets[n].members)
    BY <1>3 DEF Indexed
  <2>2. /\ HasProfile(profiles', m) <=> HasProfile(profiles, m)
        /\ HasProfile(profiles, m) => profiles'[m.ssl] = profiles[m.ssl]
    BY <1>1, <2>1
  <2> HIDE DEF m, slots
  <2>3. EffectiveServer(sets[n].demux, m, profiles') = EffectiveServer(sets[n].demux, m, profiles)
    BY <2>2 DEF EffectiveServer, ServerName, HasProfile
  <2>4. \A server : Certificate(m, server, slots, profiles') = Certificate(m, server, slots, profiles)
    BY <2>2 DEF Certificate, HasProfile
  <2> DEFINE server == EffectiveServer(sets[n].demux, m, profiles)
             made(asg) == [preset |-> m.preset, port |-> m.port,
                      sni |-> IF UsesReality(m.preset) THEN asg[<<n, m.preset>>].sni
                              ELSE IF NeedsPEMTLS(m.preset) THEN server ELSE None,
                      key |-> IF UsesReality(m.preset) THEN asg[<<n, m.preset>>].key ELSE 0,
                      cert |-> IF NeedsPEMTLS(m.preset) THEN Certificate(m, server, slots, profiles) ELSE NoCert]
  <2>5. inbound(n, i) = made(assigned')
    BY DEF BuildInbound, m, slots
  <2>6. later(n, i)' = made(assigned)'
    BY DEF BuildInbound, m, slots, UsesReality, NeedsPEMTLS
  <2>7. made(assigned)' = made(assigned')
    <3>1. server' = server
      BY <2>1, <2>3
    <3> HIDE DEF server
    <3> QED
      BY <1>2, <2>1, <2>4, <3>1
  <2> QED
    BY <2>5, <2>6, <2>7
<1>4. ASSUME NEW n \in ActiveSets, NEW i \in DOMAIN sets[n].rules
      PROVE  laterRule(n, i)' = rule(n, i)
  BY <1>4 DEF SyncRule
<1>5. Build(ActiveSets, assigned', profiles) = [n \in ActiveSets |->
         [demux    |-> sets[n].demux,
          inbounds |-> [i \in DOMAIN sets[n].members |-> inbound(n, i)],
          rules    |-> [i \in DOMAIN sets[n].rules |-> rule(n, i)]]]
  BY DEF Build
<1>6. Wanted' = [n \in ActiveSets' |->
         [demux    |-> sets'[n].demux,
          inbounds |-> [i \in DOMAIN sets'[n].members |-> later(n, i)'],
          rules    |-> [i \in DOMAIN sets'[n].rules |-> laterRule(n, i)']]]
  BY DEF Wanted, Build
<1> HIDE DEF inbound, rule, later, laterRule
<1>7. ASSUME NEW n \in ActiveSets
      PROVE  /\ sets'[n] = sets[n]
             /\ [i \in DOMAIN sets[n].members |-> later(n, i)'] = [i \in DOMAIN sets[n].members |-> inbound(n, i)]
             /\ [i \in DOMAIN sets[n].rules |-> laterRule(n, i)'] = [i \in DOMAIN sets[n].rules |-> rule(n, i)]
  BY <1>3, <1>4
<1> QED
  BY <1>5, <1>6, <1>7

LEMMA WantedSame ==
  ASSUME ActiveSets' = ActiveSets, assigned' = assigned,
         \A n \in ActiveSets : sets'[n] = sets[n],
         \A n \in ActiveSets : \A m \in Indexed(sets[n].members) :
           /\ m.ssl \in DOMAIN profiles' <=> m.ssl \in DOMAIN profiles
           /\ m.ssl \in DOMAIN profiles => profiles'[m.ssl] = profiles[m.ssl]
  PROVE  Wanted' = Wanted
BY WantedAfter DEF Wanted

-----------------------------------------------------------------------------
(* The shape of the state *)

\* Only goroutine t moves.
Only(t) ==
  /\ DOMAIN pc' = Clients /\ DOMAIN job' = Clients
  /\ \A u \in Clients \ {t} : pc'[u] = pc[u] /\ job'[u] = job[u]

LEMMA GotoOnly ==
  ASSUME Shape, NEW t \in Clients, NEW l, NEW j, Goto(t, l, j)
  PROVE  Only(t) /\ pc'[t] = l /\ job'[t] = j
BY DEF Shape, Goto, Only

\* A step of one goroutine keeps the shape.
LEMMA Moved ==
  ASSUME Shape, NEW t \in Clients, Only(t),
         DOMAIN job'[t] = Fields, job'[t].prev \subseteq DOMAIN sets', DOMAIN sets \subseteq DOMAIN sets',
         pc'[t] = "apply" => sMu' = t, pc'[t] \in {"upsert", "remove"} => job'[t].force,
         \A u \in Clients \ {t} : pc[u] = "apply" => sMu' = u,
         active' \subseteq DOMAIN sets',
         leaf' = [id \in DOMAIN leaf' |-> leaf'[id]],
         running' = [cfg |-> running'.cfg, certs |-> running'.certs]
  PROVE  Shape'
<1>1. \A u \in Clients : /\ DOMAIN job'[u] = Fields
                         /\ job'[u].prev \subseteq DOMAIN sets'
                         /\ pc'[u] = "apply" => sMu' = u
                         /\ pc'[u] \in {"upsert", "remove"} => job'[u].force
  BY DEF Shape, Only
<1> QED
  BY <1>1 DEF Shape, Only, Fields, NoJob

\* The locals a request starts with.
LEMMA Jobs ==
  /\ DOMAIN NoJob = Fields /\ NoJob.prev = {} /\ NoJob.force = FALSE
  /\ \A k : DOMAIN Job(k) = Fields /\ Job(k).prev = {} /\ Job(k).force = FALSE
BY DEF Fields, Job, NoJob

\* What goroutine t takes up has the form of a job.
Entered(t) == Only(t) /\ DOMAIN job'[t] = Fields /\ job'[t].prev \subseteq DOMAIN sets

\* A request other than a deletion of sets keeps them, and Service.mu.
LEMMA ShapeRequests ==
  ASSUME Shape, NEW t \in Clients,
         \/ HandleInstall(t) \/ HandleSetsActivate(t) \/ HandleSetsDeactivate(t) \/ HandleRealityPut(t)
         \/ HandleSub(t) \/ HandleStatus(t) \/ HandleSmoke(t)
  PROVE  Shape' /\ Only(t) /\ pc'[t] \in {"idle", "remat", "assign", "sub", "smoke"} /\ ~job'[t].force
<1>1. UNCHANGED <<leaf, running, sMu>> /\ DOMAIN sets \subseteq DOMAIN sets'
  BY DEF HandleInstall, HandleSetsActivate, HandleSetsDeactivate, HandleRealityPut, HandleSub, HandleStatus,
         HandleSmoke, Request, With, stores
<1>2. active' \subseteq DOMAIN sets'
  <2>1. CASE HandleInstall(t)
    <3>1. PICK b, s : /\ sets' = With(sets, b.name, s)
                    /\ active' \in {active, ActiveSets \cup {b.name}}
      BY <2>1 DEF HandleInstall
    <3> QED
      BY <3>1 DEF With, ActiveSets, Shape
  <2>2. CASE HandleSetsActivate(t) \/ HandleSetsDeactivate(t)
    BY <2>2 DEF HandleSetsActivate, HandleSetsDeactivate, ActiveSets, Shape
  <2>3. CASE HandleRealityPut(t) \/ HandleSub(t) \/ HandleStatus(t) \/ HandleSmoke(t)
    BY <2>3 DEF HandleRealityPut, HandleSub, HandleStatus, HandleSmoke, ActiveSets, Shape, stores
  <2> QED
    BY <2>1, <2>2, <2>3
<1>3. Entered(t) /\ pc'[t] \in {"idle", "remat", "assign", "sub", "smoke"} /\ ~job'[t].force
  <2>1. CASE HandleInstall(t) \/ HandleSetsActivate(t) \/ HandleSetsDeactivate(t)
    <3> DEFINE j(prev) == [Job("activate") EXCEPT !.prev = prev]
    <3>1. Goto(t, "idle", NoJob) \/ Goto(t, "remat", j(active)) \/ Goto(t, "remat", j(ActiveSets))
      BY <2>1 DEF HandleInstall, HandleSetsActivate, HandleSetsDeactivate, Answer
    <3>2. /\ DOMAIN j(active) = Fields /\ j(active).prev = active /\ j(active).force = FALSE
          /\ DOMAIN j(ActiveSets) = Fields /\ j(ActiveSets).prev = ActiveSets /\ j(ActiveSets).force = FALSE
      BY Jobs DEF Fields
    <3>3. active \subseteq DOMAIN sets /\ ActiveSets \subseteq DOMAIN sets
      BY DEF Shape, ActiveSets
    <3> HIDE DEF j
    <3>4. CASE Goto(t, "idle", NoJob)
      BY <3>4, GotoOnly, Jobs DEF Entered
    <3>5. CASE Goto(t, "remat", j(active))
      BY <3>2, <3>3, <3>5, GotoOnly DEF Entered
    <3>6. CASE Goto(t, "remat", j(ActiveSets))
      BY <3>2, <3>3, <3>6, GotoOnly DEF Entered
    <3> QED
      BY <3>1, <3>4, <3>5, <3>6
  <2>2. CASE HandleRealityPut(t)
    <3> DEFINE j(r) == [Job("reality") EXCEPT !.base = assigned, !.asg = r]
    <3>1. PICK r : Goto(t, "remat", Job("reality")) \/ Goto(t, "assign", j(r))
      BY <2>2 DEF HandleRealityPut
    <3>2. DOMAIN j(r) = Fields /\ j(r).prev = {} /\ j(r).force = FALSE
      BY Jobs DEF Fields
    <3> HIDE DEF j
    <3> QED
      BY <3>1, <3>2, GotoOnly, Jobs DEF Entered
  <2>3. CASE HandleSub(t) \/ HandleStatus(t)
    <3> DEFINE j == [Job("sub") EXCEPT !.list = profiles]
    <3>1. Goto(t, "sub", j)
      BY <2>3 DEF HandleSub, HandleStatus
    <3>2. DOMAIN j = Fields /\ j.prev = {} /\ j.force = FALSE
      BY Jobs DEF Fields
    <3> HIDE DEF j
    <3> QED
      BY <3>1, <3>2, GotoOnly DEF Entered
  <2>4. CASE HandleSmoke(t)
    <3>1. Goto(t, "remat", Job("smoke")) \/ Goto(t, "smoke", Job("smoke"))
      BY <2>4 DEF HandleSmoke, EnsureSmokeProbeUser
    <3> QED
      BY <3>1, GotoOnly, Jobs DEF Entered
  <2> QED
    BY <2>1, <2>2, <2>3, <2>4
<1> QED
  BY <1>1, <1>2, <1>3, Moved DEF Shape, Entered

\* So does a request about a profile.
LEMMA ShapeProfiles ==
  ASSUME Shape, NEW t \in Clients,
         \/ HandleSSLCreate(t) \/ HandleSSLPut(t) \/ HandleSSLRegenerate(t) \/ HandleSSLDelete(t)
  PROVE  /\ Shape' /\ Only(t) /\ pc'[t] # "apply"
         /\ pc'[t] # "idle" => pc'[t] \in {"upsert", "remove"}
<1>1. UNCHANGED <<sets, active, running, sMu>>
  BY DEF HandleSSLCreate, HandleSSLPut, HandleSSLRegenerate, HandleSSLDelete, Request
<1>2. leaf' = [id \in DOMAIN leaf' |-> leaf'[id]]
  <2>1. leaf = [id \in DOMAIN leaf |-> leaf[id]]
    BY DEF Shape
  <2>2. \/ \E id, p : \E force \in BOOLEAN : leaf' = EnsureMaterial(leaf, id, p, force)
        \/ \E S : leaf' = Without(leaf, S)
    BY DEF HandleSSLCreate, HandleSSLPut, HandleSSLRegenerate, HandleSSLDelete, DeleteSSLProfileFiles
  <2>3. CASE \E id, p : \E force \in BOOLEAN : leaf' = EnsureMaterial(leaf, id, p, force)
    BY <2>1, <2>3, MaterialIsFunction
  <2> QED
    BY <2>2, <2>3 DEF Without
<1>3. Entered(t) /\ pc'[t] # "apply" /\ (pc'[t] # "idle" => pc'[t] \in {"upsert", "remove"} /\ job'[t].force)
  <2>1. CASE HandleSSLCreate(t)
    BY <2>1, GotoOnly, Jobs DEF HandleSSLCreate, Answer, Entered
  <2>2. CASE HandleSSLPut(t) \/ HandleSSLRegenerate(t)
    <3> DEFINE j(id, b) == [Job("ssl") EXCEPT !.id = id, !.prof = b, !.force = TRUE]
    <3>1. PICK id, b : Goto(t, "upsert", j(id, b))
      BY <2>2 DEF HandleSSLPut, HandleSSLRegenerate
    <3>2. DOMAIN j(id, b) = Fields /\ j(id, b).prev = {} /\ j(id, b).force = TRUE
      BY Jobs DEF Fields
    <3> HIDE DEF j
    <3> QED
      BY <3>1, <3>2, GotoOnly DEF Entered
  <2>3. CASE HandleSSLDelete(t)
    <3> DEFINE j(id) == [Job("ssl") EXCEPT !.id = id, !.force = TRUE]
    <3>1. PICK id : Goto(t, "remove", j(id))
      BY <2>3 DEF HandleSSLDelete
    <3>2. DOMAIN j(id) = Fields /\ j(id).prev = {} /\ j(id).force = TRUE
      BY Jobs DEF Fields
    <3> HIDE DEF j
    <3> QED
      BY <3>1, <3>2, GotoOnly DEF Entered
  <2> QED
    BY <2>1, <2>2, <2>3
<1> QED
  BY <1>1, <1>2, <1>3, Moved DEF Shape, Entered

\* So does a goroutine that goes on.
LEMMA ShapeSteps ==
  ASSUME Shape, NEW t \in Clients,
         \/ SaveRealityAssignments(t) \/ UpsertSSLProfile(t) \/ RemoveSSLProfile(t)
         \/ SmokeReads(t) \/ SubEnsures(t) \/ RematReturns(t) \/ Undo(t)
  PROVE  /\ Shape' /\ Only(t) /\ pc'[t] \in {"idle", "remat", "sub", "smoke"}
         /\ UpsertSSLProfile(t) \/ RemoveSSLProfile(t) => pc'[t] = "remat" /\ job'[t].force
         /\ SaveRealityAssignments(t) => pc'[t] = "remat"
         /\ SmokeReads(t) \/ SubEnsures(t) \/ RematReturns(t) \/ Undo(t) => pc'[t] \in {"idle", "sub", "smoke"}
<1>1. UNCHANGED <<sets, running, sMu>>
  BY DEF SaveRealityAssignments, UpsertSSLProfile, RemoveSSLProfile, SmokeReads, SubEnsures, RematReturns, Undo, stores
<1>2. active' \subseteq DOMAIN sets'
  BY DEF SaveRealityAssignments, UpsertSSLProfile, RemoveSSLProfile, SmokeReads, SubEnsures, RematReturns, Undo, stores,
         Shape
<1>3. leaf' = [id \in DOMAIN leaf' |-> leaf'[id]]
  <2>1. leaf' = leaf \/ leaf' = EnsureProfiles(leaf, profiles) \/ leaf' = EnsureProfiles(leaf, job[t].list)
    BY DEF SaveRealityAssignments, UpsertSSLProfile, RemoveSSLProfile, SmokeReads, SubEnsures, RematReturns, Undo,
           stores
  <2> QED
    BY <2>1, EnsureIsFunction DEF Shape
<1>4. job[t].prev \subseteq DOMAIN sets /\ DOMAIN job[t] = Fields
  BY DEF Shape
<1>5. Entered(t) /\ pc'[t] \in {"idle", "remat", "sub", "smoke"}
  <2>1. CASE SaveRealityAssignments(t)
    BY <2>1, GotoOnly, Jobs DEF SaveRealityAssignments, Entered
  <2>2. CASE UpsertSSLProfile(t) \/ RemoveSSLProfile(t)
    BY <1>4, <2>2, GotoOnly DEF UpsertSSLProfile, RemoveSSLProfile, Entered
  <2>3. CASE SmokeReads(t)
    <3> DEFINE j == [job[t] EXCEPT !.list = profiles]
    <3>1. Goto(t, "sub", j) /\ DOMAIN j = Fields /\ j.prev = job[t].prev
      BY <1>4, <2>3 DEF SmokeReads, Fields
    <3> HIDE DEF j
    <3> QED
      BY <1>4, <3>1, GotoOnly DEF Entered
  <2>4. CASE SubEnsures(t) \/ Undo(t)
    BY <2>4, GotoOnly, Jobs DEF SubEnsures, Undo, Answer, Entered
  <2>5. CASE RematReturns(t)
    <3>1. Goto(t, "idle", NoJob) \/ Goto(t, "smoke", job[t])
      BY <2>5 DEF RematReturns, Done, Answer
    <3> QED
      BY <1>4, <3>1, GotoOnly, Jobs DEF Entered
  <2> QED
    BY <2>1, <2>2, <2>3, <2>4, <2>5
<1>6. Shape'
  BY <1>1, <1>2, <1>3, <1>5, Moved DEF Shape, Entered
<1>7. UpsertSSLProfile(t) \/ RemoveSSLProfile(t) => pc'[t] = "remat" /\ job'[t].force
  BY GotoOnly DEF UpsertSSLProfile, RemoveSSLProfile, Step, Shape
<1>8. SaveRealityAssignments(t) => pc'[t] = "remat"
  BY GotoOnly DEF SaveRealityAssignments
<1>9. SmokeReads(t) \/ SubEnsures(t) \/ RematReturns(t) \/ Undo(t) => pc'[t] \in {"idle", "sub", "smoke"}
  BY GotoOnly DEF SmokeReads, SubEnsures, RematReturns, Undo, Done, Answer
<1> QED
  BY <1>5, <1>6, <1>7, <1>8, <1>9 DEF Entered

\* So does the build, which takes Service.mu.
LEMMA ShapeRead ==
  ASSUME Shape, NEW t \in Clients, RematRead(t)
  PROVE  /\ Shape' /\ Only(t) /\ pc'[t] = "apply" /\ job'[t].force = job[t].force
         /\ job'[t].cfg = Wanted' /\ \A u \in Clients \ {t} : pc'[u] # "apply"
<1>1. sMu = Free /\ sMu' = t /\ UNCHANGED <<sets, running, profiles>> /\ active' = ActiveSets
      /\ leaf' = EnsureProfiles(leaf, profiles)
  BY DEF RematRead
<1> DEFINE j(cfg) == [job[t] EXCEPT !.cfg = cfg]
<1> DEFINE cfg == Build(ActiveSets, assigned', profiles)
<1>2. Goto(t, "apply", j(cfg))
  BY DEF RematRead
<1>3. DOMAIN j(cfg) = Fields /\ j(cfg).prev = job[t].prev /\ j(cfg).force = job[t].force /\ j(cfg).cfg = cfg
  <2> HIDE DEF cfg
  <2> QED
    BY DEF Shape, Fields
<1>4. cfg = Wanted'
  <2>1. ActiveSets' = ActiveSets
    BY <1>1 DEF ActiveSets
  <2> QED
    BY <1>1, <2>1, WantedAfter
<1> HIDE DEF j, cfg
<1>5. Only(t) /\ pc'[t] = "apply" /\ job'[t] = j(cfg)
  BY <1>2, GotoOnly DEF cfg
<1>6. \A u \in Clients : pc[u] # "apply"
  BY <1>1, PublishAssumption DEF Shape
<1>7. active' \subseteq DOMAIN sets' /\ leaf' = [id \in DOMAIN leaf' |-> leaf'[id]]
  BY <1>1, EnsureIsFunction DEF ActiveSets
<1>8. Shape'
  BY <1>1, <1>3, <1>5, <1>6, <1>7, Moved DEF Shape
<1> QED
  BY <1>3, <1>4, <1>5, <1>6, <1>8 DEF Only

\* So does the application, which frees it.
LEMMA ShapeApply ==
  ASSUME Shape, NEW t \in Clients, RematApply(t)
  PROVE  Shape' /\ Only(t) /\ pc'[t] \in {"idle", "smoke", "undo"} /\ \A u \in Clients \ {t} : pc[u] # "apply"
<1>1. UNCHANGED stores /\ pc[t] = "apply"
  BY DEF RematApply, Step
<1>2. running' = [cfg |-> running'.cfg, certs |-> running'.certs]
  <2>1. \/ running' = running
        \/ \E certs : running' = [running EXCEPT !.certs = certs]
        \/ \E cfg, certs : running' = [cfg |-> cfg, certs |-> certs]
    BY DEF RematApply
  <2> QED
    BY <2>1 DEF Shape
<1>3. Goto(t, "idle", NoJob) \/ Goto(t, "smoke", job[t]) \/ Goto(t, "undo", job[t])
  BY DEF RematApply, Done, Answer
<1>4. Only(t) /\ pc'[t] \in {"idle", "smoke", "undo"} /\ DOMAIN job'[t] = Fields /\ job'[t].prev \subseteq DOMAIN sets
  BY <1>3, GotoOnly, Jobs DEF Shape
<1>5. \A u \in Clients \ {t} : pc[u] # "apply"
  BY <1>1 DEF Shape
<1>6. Shape'
  BY <1>1, <1>2, <1>4, <1>5, Moved DEF Shape, stores
<1> QED
  BY <1>4, <1>5, <1>6


-----------------------------------------------------------------------------
(* The leaves *)

\* Whoever is about to rebuild with force still is, unless it is t and does.
LEMMA StillRenewing ==
  ASSUME NEW t \in Clients, Only(t),
         pc[t] \in {"idle", "assign", "sub", "smoke", "apply", "undo"} \/ (pc[t] = "remat" /\ ~job[t].force),
         ~Renewing'
  PROVE  ~Renewing
BY DEF Only, Renewing

\* A change of a profile is followed by a rebuild with force.
LEMMA Changing ==
  ASSUME Shape, NEW t \in Clients,
         \/ HandleSSLPut(t) \/ HandleSSLRegenerate(t) \/ HandleSSLDelete(t)
         \/ UpsertSSLProfile(t) \/ RemoveSSLProfile(t)
  PROVE  Renewing'
<1>1. CASE HandleSSLPut(t) \/ HandleSSLRegenerate(t) \/ HandleSSLDelete(t)
  BY <1>1, GotoOnly DEF HandleSSLPut, HandleSSLRegenerate, HandleSSLDelete, Renewing
<1>2. CASE UpsertSSLProfile(t) \/ RemoveSSLProfile(t)
  BY <1>2, ShapeSteps DEF Renewing
<1> QED
  BY <1>1, <1>2

\* A new profile gets its leaf, and the box has not read it.
LEMMA Created ==
  ASSUME Shape, NEW t \in Clients, HandleSSLCreate(t)
  PROVE  /\ Ensured(leaf, profiles) => Ensured(leaf', profiles')
         /\ LeavesOf(running.cfg) \subseteq DOMAIN leaf
              => LeavesOf(running.cfg) \subseteq DOMAIN leaf' /\ Load(running.cfg)' = Load(running.cfg)
<1> DEFINE new == [domain |-> None, acme |-> FALSE]
<1>1. PICK id \in Profiles : /\ NewSSLProfileID(id) /\ profiles' = With(profiles, id, new)
                             /\ leaf' = EnsureMaterial(leaf, id, new, FALSE)
  BY DEF HandleSSLCreate
<1>2. running' = running
  BY DEF HandleSSLCreate, Request
<1>3. id \notin DOMAIN profiles /\ id \notin DOMAIN leaf /\ id \notin LeavesOf(running.cfg)
  BY <1>1 DEF NewSSLProfileID
<1>4. leaf' = With(leaf, id, NewLeaf(id, new))
  BY <1>1, <1>3 DEF EnsureMaterial
<1>5. NewLeaf(id, new).cn = LeafName(new)
  BY Zenon DEF NewLeaf
<1>6. /\ DOMAIN leaf' = DOMAIN leaf \cup {id} /\ leaf'[id] = NewLeaf(id, new)
      /\ \A x \in DOMAIN leaf \ {id} : leaf'[x] = leaf[x]
  BY <1>4 DEF With
<1>7. /\ DOMAIN profiles' = DOMAIN profiles \cup {id} /\ profiles'[id] = new
      /\ \A x \in DOMAIN profiles \ {id} : profiles'[x] = profiles[x]
  BY <1>1 DEF With
<1>8. Ensured(leaf, profiles) => Ensured(leaf', profiles')
  <2>0. new.acme = FALSE
    OBVIOUS
  <2> HIDE DEF new
  <2> SUFFICES ASSUME Ensured(leaf, profiles), NEW x \in DOMAIN profiles'
               PROVE  IF profiles'[x].acme THEN x \notin DOMAIN leaf'
                      ELSE x \in DOMAIN leaf' /\ leaf'[x].cn = LeafName(profiles'[x])
    BY DEF Ensured
  <2>1. CASE x = id
    BY <1>5, <1>6, <1>7, <2>0, <2>1
  <2>2. CASE x # id
    BY <1>6, <1>7, <2>2 DEF Ensured
  <2> QED
    BY <2>1, <2>2
<1>9. ASSUME LeavesOf(running.cfg) \subseteq DOMAIN leaf
      PROVE  LeavesOf(running.cfg) \subseteq DOMAIN leaf' /\ Load(running.cfg)' = Load(running.cfg)
  <2>1. \A x \in LeavesOf(running.cfg) : leaf'[x] = leaf[x]
    BY <1>3, <1>6, <1>9
  <2>2. LeavesOf(running.cfg)' = LeavesOf(running.cfg)
    BY <1>2 DEF LeavesOf
  <2> QED
    BY <1>6, <1>9, <2>1, <2>2 DEF Load
<1> QED
  BY <1>8, <1>9

LEMMA LeafStep ==
  ASSUME Shape, LeafInv, [Next]_vars
  PROVE  LeafInv'
<1>1. CASE UNCHANGED vars
  BY <1>1 DEF vars, stores, LeafInv, Renewing
<1>2. ASSUME NEW t \in Clients,
             \/ HandleInstall(t) \/ HandleSetsActivate(t) \/ HandleSetsDeactivate(t) \/ HandleRealityPut(t)
             \/ HandleSub(t) \/ HandleStatus(t) \/ HandleSmoke(t)
      PROVE  LeafInv'
  <2>1. UNCHANGED <<leaf, profiles, slips>> /\ pc[t] = "idle"
    BY <1>2 DEF HandleInstall, HandleSetsActivate, HandleSetsDeactivate, HandleRealityPut, HandleSub, HandleStatus,
         HandleSmoke, Request, stores
  <2> QED
    BY <1>2, <2>1, ShapeRequests, StillRenewing DEF LeafInv
<1>3. ASSUME NEW t \in Clients, HandleSSLCreate(t)
      PROVE  LeafInv'
  <2>1. UNCHANGED slips /\ pc[t] = "idle"
    BY <1>3 DEF HandleSSLCreate, Request
  <2> QED
    BY <1>3, <2>1, ShapeProfiles, StillRenewing, Created DEF LeafInv
<1>4. ASSUME NEW t \in Clients, HandleSSLPut(t) \/ HandleSSLRegenerate(t) \/ HandleSSLDelete(t)
      PROVE  LeafInv'
  BY <1>4, Changing DEF LeafInv
<1>5. ASSUME NEW t \in Clients, UpsertSSLProfile(t) \/ RemoveSSLProfile(t)
      PROVE  LeafInv'
  BY <1>5, Changing DEF LeafInv
<1>6. ASSUME NEW t \in Clients, SaveRealityAssignments(t) \/ SmokeReads(t) \/ Undo(t)
      PROVE  LeafInv'
  <2>1. UNCHANGED <<leaf, profiles>> /\ (slips' = {} => slips = {}) /\ pc[t] \in {"assign", "smoke", "undo"}
    BY <1>6 DEF SaveRealityAssignments, SmokeReads, Undo, stores, Step
  <2> QED
    BY <1>6, <2>1, ShapeSteps, StillRenewing DEF LeafInv
<1>7. ASSUME NEW t \in Clients, SubEnsures(t)
      PROVE  LeafInv'
  <2>1. /\ profiles' = profiles /\ pc[t] = "sub" /\ leaf' = EnsureProfiles(leaf, job[t].list)
        /\ slips' = {} => slips = {} /\ (leaf' = leaf \/ job[t].list = profiles)
    BY <1>7 DEF SubEnsures, Step
  <2> QED
    BY <1>7, <2>1, ShapeSteps, StillRenewing, EnsureMakes DEF LeafInv
<1>8. ASSUME NEW t \in Clients, RematReturns(t) \/ RematRead(t)
      PROVE  LeafInv'
  <2>1. profiles' = profiles /\ leaf' = EnsureProfiles(leaf, profiles)
    BY <1>8 DEF RematReturns, RematRead
  <2> QED
    BY <2>1, EnsureMakes DEF LeafInv
<1>9. ASSUME NEW t \in Clients, RematApply(t)
      PROVE  LeafInv'
  <2>1. UNCHANGED <<leaf, profiles>> /\ (slips' = {} => slips = {}) /\ pc[t] = "apply"
    BY <1>9 DEF RematApply, stores, Step
  <2> QED
    BY <1>9, <2>1, ShapeApply, StillRenewing DEF LeafInv
<1> QED
  BY <1>1, <1>2, <1>3, <1>4, <1>5, <1>6, <1>7, <1>8, <1>9 DEF Next


-----------------------------------------------------------------------------
(* What the box has read *)

\* Nothing the box has read changes.
LEMMA StillRead ==
  ASSUME CertInv, leaf' = leaf, running' = running, slips = {}, ~Renewing, ~Starting
  PROVE  CertInv'
<1>1. LeavesOf(running.cfg)' = LeavesOf(running.cfg) /\ Load(running.cfg)' = Load(running.cfg)
  BY DEF LeavesOf, Load
<1> QED
  BY <1>1 DEF CertInv

\* A step of a goroutine that was not about to start a box.
LEMMA StillStarting ==
  ASSUME NEW t \in Clients, Only(t), pc[t] # "apply", running' = running, ~Starting'
  PROVE  ~Starting
BY DEF Only, Starting

LEMMA CertStep ==
  ASSUME Shape, LeafInv, CertInv, [Next]_vars
  PROVE  CertInv'
<1>1. CASE UNCHANGED vars
  <2>1. (Renewing' <=> Renewing) /\ (Starting' <=> Starting)
    BY <1>1 DEF vars, stores, Renewing, Starting
  <2> QED
    BY <1>1, <2>1, StillRead DEF vars, stores, CertInv
<1>2. ASSUME NEW t \in Clients,
             \/ HandleInstall(t) \/ HandleSetsActivate(t) \/ HandleSetsDeactivate(t) \/ HandleRealityPut(t)
             \/ HandleSub(t) \/ HandleStatus(t) \/ HandleSmoke(t)
      PROVE  CertInv'
  <2>1. UNCHANGED <<leaf, running, slips>> /\ pc[t] = "idle"
    BY <1>2 DEF HandleInstall, HandleSetsActivate, HandleSetsDeactivate, HandleRealityPut, HandleSub, HandleStatus,
         HandleSmoke, Request, stores
  <2>2. ~Renewing' /\ ~Starting' => ~Renewing /\ ~Starting
    BY <1>2, <2>1, ShapeRequests, StillRenewing, StillStarting
  <2> QED
    BY <2>1, <2>2, StillRead DEF CertInv
<1>3. ASSUME NEW t \in Clients, HandleSSLCreate(t)
      PROVE  CertInv'
  <2>1. UNCHANGED <<running, slips>> /\ pc[t] = "idle"
    BY <1>3 DEF HandleSSLCreate, Request
  <2>2. ~Renewing' /\ ~Starting' => ~Renewing /\ ~Starting
    BY <1>3, <2>1, ShapeProfiles, StillRenewing, StillStarting
  <2>3. LeavesOf(running.cfg)' = LeavesOf(running.cfg)
    BY <2>1 DEF LeavesOf
  <2> QED
    BY <1>3, <2>1, <2>2, <2>3, Created DEF CertInv
<1>4. ASSUME NEW t \in Clients, HandleSSLPut(t) \/ HandleSSLRegenerate(t) \/ HandleSSLDelete(t)
      PROVE  CertInv'
  BY <1>4, Changing DEF CertInv
<1>5. ASSUME NEW t \in Clients, UpsertSSLProfile(t) \/ RemoveSSLProfile(t)
      PROVE  CertInv'
  BY <1>5, Changing DEF CertInv
<1>6. ASSUME NEW t \in Clients, SaveRealityAssignments(t) \/ SmokeReads(t) \/ Undo(t)
      PROVE  CertInv'
  <2>1. UNCHANGED <<leaf, running>> /\ (slips' = {} => slips = {}) /\ pc[t] \in {"assign", "smoke", "undo"}
    BY <1>6 DEF SaveRealityAssignments, SmokeReads, Undo, stores, Step
  <2>2. ~Renewing' /\ ~Starting' => ~Renewing /\ ~Starting
    BY <1>6, <2>1, ShapeSteps, StillRenewing, StillStarting
  <2> QED
    BY <2>1, <2>2, StillRead DEF CertInv
<1>7. ASSUME NEW t \in Clients, SubEnsures(t)
      PROVE  CertInv'
  <2>1. /\ running' = running /\ pc[t] = "sub" /\ leaf' = EnsureProfiles(leaf, job[t].list)
        /\ slips' = {} => slips = {} /\ (leaf' = leaf \/ job[t].list = profiles)
    BY <1>7 DEF SubEnsures, Step
  <2>2. ~Renewing' /\ ~Starting' => ~Renewing /\ ~Starting
    BY <1>7, <2>1, ShapeSteps, StillRenewing, StillStarting
  <2>3. slips' = {} /\ ~Renewing' => leaf' = leaf
    BY <1>7, <2>1, ShapeSteps, StillRenewing, EnsureKeeps DEF LeafInv, Shape
  <2> QED
    BY <2>1, <2>2, <2>3, StillRead DEF CertInv
<1>8. ASSUME NEW t \in Clients, RematReturns(t)
      PROVE  CertInv'
  <2>1. /\ running' = running /\ pc[t] = "remat"
        /\ slips' = {} => slips = {} /\ leaf' = leaf /\ ~job[t].force
    BY <1>8 DEF RematReturns, Step
  <2>2. slips' = {} /\ ~Renewing' /\ ~Starting' => ~Renewing /\ ~Starting
    BY <1>8, <2>1, ShapeSteps, StillRenewing, StillStarting
  <2> QED
    BY <2>1, <2>2, StillRead DEF CertInv
<1>9. ASSUME NEW t \in Clients, RematRead(t)
      PROVE  CertInv'
  <2>1. /\ running' = running /\ leaf' = EnsureProfiles(leaf, profiles) /\ pc[t] = "remat"
        /\ slips' = IF job[t].force \/ job'[t].cfg # running.cfg THEN {} ELSE slips
    BY <1>9 DEF RematRead, Step
  <2>2. job[t].force \/ job'[t].cfg # running.cfg => Starting'
    BY <1>9, <2>1, ShapeRead DEF Starting
  <2>3. ~Renewing' /\ ~Starting' => ~Renewing /\ ~Starting
    BY <1>9, <2>1, <2>2, ShapeRead, StillRenewing, StillStarting
  <2>4. slips' = {} /\ ~Renewing' /\ ~Starting' => slips = {} /\ leaf' = leaf
    BY <2>1, <2>2, <2>3, EnsureKeeps DEF LeafInv, Shape
  <2> QED
    BY <2>1, <2>3, <2>4, StillRead DEF CertInv
<1>10. ASSUME NEW t \in Clients, RematApply(t)
       PROVE  CertInv'
  <2> DEFINE cfg == job[t].cfg
  <2>1. leaf' = leaf /\ pc[t] = "apply"
    BY <1>10 DEF RematApply, stores, Step
  <2>2. \/ cfg = running.cfg /\ ~job[t].force /\ running' = running /\ slips' = slips
        \/ LeavesOf(cfg) \subseteq DOMAIN leaf /\ running' = [cfg |-> cfg, certs |-> Load(cfg)]
        \/ slips' # {}
    BY <1>10 DEF RematApply, Startable
  <2>3. CASE cfg = running.cfg /\ ~job[t].force /\ running' = running /\ slips' = slips
    <3>1. ~Starting
      BY <1>10, <2>3, ShapeApply DEF Starting
    <3>2. ~Renewing' => ~Renewing
      BY <1>10, <2>1, ShapeApply, StillRenewing
    <3> QED
      BY <2>1, <2>3, <3>1, <3>2, StillRead DEF CertInv
  <2>4. CASE LeavesOf(cfg) \subseteq DOMAIN leaf /\ running' = [cfg |-> cfg, certs |-> Load(cfg)]
    <3> HIDE DEF cfg
    <3>1. running'.cfg = cfg /\ running'.certs = Load(cfg)
      BY <2>4
    <3>2. Load(running.cfg)' = Load(cfg) /\ LeavesOf(running.cfg)' = LeavesOf(cfg)
      BY <2>1, <3>1 DEF Load, LeavesOf
    <3> QED
      BY <2>1, <2>4, <3>1, <3>2 DEF CertInv
  <2> QED
    BY <2>2, <2>3, <2>4 DEF CertInv
<1> QED
  BY <1>1, <1>2, <1>3, <1>4, <1>5, <1>6, <1>7, <1>8, <1>9, <1>10 DEF Next

-----------------------------------------------------------------------------
(* The configuration *)

\* Whoever is about to rebuild still is, unless it is t and does.
LEMMA StillUnsettled ==
  ASSUME NEW t \in Clients, Only(t), pc[t] \in {"idle", "sub", "smoke", "apply"}, ~Unsettled'
  PROVE  ~Unsettled
BY DEF Only, Unsettled

\* Nothing that is wanted or built changes.
LEMMA StillBuilt ==
  ASSUME CfgInv, NEW t \in Clients, Only(t), pc[t] # "apply", pc'[t] # "apply", ~Unsettled' => ~Unsettled,
         "undone" \in slips => "undone" \in slips', "failed" \in slips => "failed" \in slips',
         running' = running, materialized' = materialized,
         ActiveSets # {} /\ ~Unsettled' => ActiveSets' = ActiveSets /\ Wanted' = Wanted,
         ActiveSets = {} /\ ~Unsettled' => ActiveSets' = {}
  PROVE  CfgInv'
<1> SUFFICES ASSUME ~Unsettled', "undone" \notin slips', ActiveSets' # {}
             PROVE  /\ \A u \in Clients : pc'[u] = "apply" => job'[u].cfg = Wanted'
                    /\ (\A u \in Clients : pc'[u] # "apply") /\ (materialized' = "ok" \/ "failed" \notin slips')
                         => running'.cfg = Wanted'
  BY DEF CfgInv
<1>1. Wanted' = Wanted /\ ActiveSets # {} /\ ~Unsettled /\ "undone" \notin slips
  OBVIOUS
<1>2. \A u \in Clients : (pc'[u] = "apply" <=> pc[u] = "apply") /\ (pc'[u] = "apply" => job'[u] = job[u])
  BY DEF Only
<1> QED
  BY <1>1, <1>2 DEF CfgInv


LEMMA CfgStep ==
  ASSUME Shape, CfgInv, [Next]_vars
  PROVE  CfgInv'
<1>1. CASE UNCHANGED vars
  <2>1. ActiveSets' = ActiveSets
    BY <1>1 DEF vars, stores, ActiveSets
  <2>2. Wanted' = Wanted
    BY <1>1, <2>1, WantedSame DEF vars, stores
  <2>3. Unsettled' <=> Unsettled
    BY <1>1 DEF vars, Unsettled
  <2> QED
    BY <1>1, <2>1, <2>2, <2>3 DEF vars, CfgInv
<1>2. ASSUME NEW t \in Clients, HandleInstall(t)
      PROVE  CfgInv'
  <2>1. /\ UNCHANGED <<assigned, profiles, running, materialized, slips>> /\ pc[t] = "idle"
        /\ \/ pc'[t] = "remat"
           \/ active' = active /\ \E b, s : b.name \notin DOMAIN sets /\ sets' = With(sets, b.name, s)
    BY <1>2, GotoOnly DEF HandleInstall, Request
  <2>2. CASE pc'[t] = "remat"
    BY <2>2 DEF CfgInv, Unsettled
  <2>3. CASE pc'[t] # "remat"
    <3>1. PICK b, s : b.name \notin DOMAIN sets /\ sets' = With(sets, b.name, s) /\ active' = active
      BY <2>1, <2>3
    <3>2. ActiveSets' = ActiveSets /\ \A n \in ActiveSets : sets'[n] = sets[n]
      BY <3>1 DEF ActiveSets, Shape, With
    <3>3. Wanted' = Wanted
      BY <2>1, <3>2, WantedSame
    <3> QED
      BY <1>2, <2>1, <3>2, <3>3, ShapeRequests, StillUnsettled, StillBuilt
  <2> QED
    BY <2>2, <2>3
<1>3. ASSUME NEW t \in Clients,
             HandleSetsActivate(t) \/ HandleSetsDeactivate(t) \/ HandleRealityPut(t)
      PROVE  CfgInv'
  <2>1. pc'[t] \in {"remat", "assign"} \/ active' = {}
    BY <1>3, GotoOnly DEF HandleSetsActivate, HandleSetsDeactivate, HandleRealityPut
  <2> QED
    BY <2>1 DEF CfgInv, Unsettled, ActiveSets
<1>4. ASSUME NEW t \in Clients,
             HandleSub(t) \/ HandleStatus(t) \/ HandleSmoke(t) \/ SmokeReads(t) \/ SubEnsures(t)
      PROVE  CfgInv'
  <2>1. /\ UNCHANGED <<sets, assigned, profiles, running, materialized>>
        /\ slips \subseteq slips' /\ active' \in {active, ActiveSets} /\ pc[t] \in {"idle", "smoke", "sub"}
    BY <1>4 DEF HandleSub, HandleStatus, HandleSmoke, SmokeReads, SubEnsures, Request, Step, stores
  <2>2. ActiveSets' = ActiveSets
    BY <2>1 DEF ActiveSets
  <2>3. Wanted' = Wanted
    BY <2>1, <2>2, WantedSame
  <2>4. Only(t) /\ pc'[t] # "apply"
    BY <1>4, ShapeRequests, ShapeSteps
  <2> QED
    BY <2>1, <2>2, <2>3, <2>4, StillUnsettled, StillBuilt
<1>5. ASSUME NEW t \in Clients, HandleSSLCreate(t)
      PROVE  CfgInv'
  <2>1. UNCHANGED <<sets, active, assigned, running, materialized, slips>> /\ pc[t] = "idle"
    BY <1>5 DEF HandleSSLCreate, Request
  <2>2. ActiveSets' = ActiveSets
    BY <2>1 DEF ActiveSets
  <2>3. PICK id, p : ~SSLProfileReferenced(id) /\ profiles' = With(profiles, id, p)
    BY <1>5 DEF HandleSSLCreate, NewSSLProfileID
  <2>4. \A n \in ActiveSets : \A m \in Indexed(sets[n].members) : m.ssl # id
    BY <2>3 DEF SSLProfileReferenced, ActiveSets
  <2>5. Wanted' = Wanted
    <3>1. \A x : x # id => /\ x \in DOMAIN profiles' <=> x \in DOMAIN profiles
                           /\ x \in DOMAIN profiles => profiles'[x] = profiles[x]
      BY <2>3 DEF With
    <3> QED
      BY <2>1, <2>2, <2>4, <3>1, WantedSame
  <2> QED
    BY <1>5, <2>1, <2>2, <2>5, ShapeProfiles, StillUnsettled, StillBuilt
<1>6. ASSUME NEW t \in Clients, HandleSSLPut(t) \/ HandleSSLRegenerate(t) \/ HandleSSLDelete(t)
      PROVE  CfgInv'
  BY <1>6, Changing DEF CfgInv, Renewing, Unsettled
<1>7. ASSUME NEW t \in Clients, UpsertSSLProfile(t) \/ RemoveSSLProfile(t) \/ SaveRealityAssignments(t)
      PROVE  CfgInv'
  BY <1>7, ShapeSteps DEF CfgInv, Unsettled
<1>8. ASSUME NEW t \in Clients, RematReturns(t) \/ Undo(t)
      PROVE  CfgInv'
  BY <1>8 DEF RematReturns, Undo, CfgInv, ActiveSets
<1>9. ASSUME NEW t \in Clients, RematRead(t)
      PROVE  CfgInv'
  BY <1>9, ShapeRead DEF CfgInv
<1>10. ASSUME NEW t \in Clients, RematApply(t)
       PROVE  CfgInv'
  <2>1. UNCHANGED stores /\ pc[t] = "apply" /\ slips \subseteq slips'
    BY <1>10 DEF RematApply, Step
  <2>2. ActiveSets' = ActiveSets
    BY <2>1 DEF ActiveSets, stores
  <2>3. Wanted' = Wanted
    BY <2>1, <2>2, WantedSame DEF stores
  <2>4. \/ running'.cfg = job[t].cfg
        \/ materialized' = "failed" /\ "failed" \in slips'
    BY <1>10 DEF RematApply, RecordMaterializeResult
  <2>5. Only(t) /\ pc'[t] # "apply" /\ \A u \in Clients \ {t} : pc[u] # "apply"
    BY <1>10, ShapeApply
  <2>6. \A u \in Clients : pc'[u] # "apply"
    BY <2>5 DEF Only
  <2>7. ~Unsettled' => ~Unsettled
    BY <2>1, <2>5, StillUnsettled
  <2> QED
    BY <2>1, <2>2, <2>3, <2>4, <2>6, <2>7 DEF CfgInv
<1> QED
  BY <1>1, <1>2, <1>3, <1>4, <1>5, <1>6, <1>7, <1>8, <1>9, <1>10 DEF Next

-----------------------------------------------------------------------------
(* The theorems *)

IInv == Shape /\ LeafInv /\ CertInv /\ CfgInv

LEMMA Starts == Init => IInv
<1> SUFFICES ASSUME Init PROVE IInv
  OBVIOUS
<1>1. Shape
  BY DEF Init, Shape, NoJob, Fields
<1>2. Ensured(leaf, profiles)
  BY DEF Init, Ensured
<1>3. LeavesOf(running.cfg) \subseteq DOMAIN leaf /\ running.certs = Load(running.cfg)
  <2>1. LeavesOf(running.cfg) = {}
    BY DEF Init, LeavesOf
  <2> QED
    BY <2>1 DEF Init, Load
<1>4. ActiveSets = {}
  BY DEF Init, ActiveSets
<1> QED
  BY <1>1, <1>2, <1>3, <1>4 DEF IInv, LeafInv, CertInv, CfgInv

LEMMA Step1 == IInv /\ [Next]_vars => IInv'
<1> SUFFICES ASSUME IInv, [Next]_vars PROVE IInv'
  OBVIOUS
<1>1. Shape'
  <2>1. CASE UNCHANGED vars
    BY <2>1 DEF vars, stores, IInv, Shape
  <2>2. CASE Next
    BY <2>2, ShapeRequests, ShapeProfiles, ShapeSteps, ShapeRead, ShapeApply DEF IInv, Next
  <2> QED
    BY <2>1, <2>2
<1> QED
  BY <1>1, LeafStep, CertStep, CfgStep DEF IInv

LEMMA Invariant == Spec => []IInv
BY Starts, Step1, PTL DEF Spec


\* THEOREM.  When no request is under way and none slipped since the box last changed, the box
\* runs what the stores say and has read the leaves that are on disk, whatever requests of
\* whatever clients met: installs, changes of active sets, pools, profiles and leaves, failed
\* builds and starts, subscriptions and probes that write leaves of their own.
THEOREM BoxIsFresh == Spec => []BoxFresh
<1>1. IInv => BoxFresh
  <2> SUFFICES ASSUME IInv, Settled
               PROVE  running = [cfg |-> Build(ActiveSets, assigned, profiles), certs |-> Load(running.cfg)]
    BY DEF BoxFresh
  <2>1. ~Renewing /\ ~Starting /\ ~Unsettled /\ slips = {} /\ ActiveSets # {} /\ \A t \in Clients : pc[t] # "apply"
    BY DEF Settled, Quiet, Renewing, Starting, Unsettled
  <2>2. running.cfg = Build(ActiveSets, assigned, profiles)
    BY <2>1 DEF IInv, CfgInv, Wanted
  <2>3. running.certs = Load(running.cfg)
    BY <2>1 DEF IInv, CertInv
  <2> QED
    BY <2>2, <2>3 DEF IInv, Shape
<1> QED
  BY <1>1, Invariant, PTL

\* THEOREM.  GET status says ready only if the box runs what the stores say, unless active sets
\* were put back after a failure, which nobody applies.
THEOREM ReadyIsHonest == Spec => []ReadyHonest
<1>1. IInv => ReadyHonest
  BY DEF IInv, ReadyHonest, ClientReady, Quiet, CfgInv, Unsettled, Wanted
<1> QED
  BY <1>1, Invariant, PTL


-----------------------------------------------------------------------------
(* Induction over the natural numbers, as a fact about sets of them: the    *)
(* one used for the passes of ensureRealityAssignments *)

LEMMA NatMinimum ==
  ASSUME NEW S, S \subseteq Nat, S # {}
  PROVE  \E x \in S : \A y \in S : x <= y
<1> DEFINE R == OpToRel(<, Nat)
<1>1. IsWellFoundedOn(R, Nat)
  BY NatLessThanWellFounded
<1>2. \A x, y \in Nat : y < x => <<y, x>> \in R
  BY DEF OpToRel
<1> HIDE DEF R
<1>3. PICK x \in S : \A y \in S : ~ (<<y, x>> \in R)
  BY <1>1, WFMin
<1>4. \A y \in S : ~ (y < x)
  BY <1>2, <1>3
<1> QED
  BY <1>4

LEMMA SetInduction ==
  ASSUME NEW T, 0 \in T, \A n \in Nat : n \in T => n + 1 \in T
  PROVE  Nat \subseteq T
<1>1. ASSUME Nat \ T # {} PROVE FALSE
  <2>1. PICK x \in Nat \ T : \A y \in Nat \ T : x <= y
    BY <1>1, NatMinimum, Nat \ T \subseteq Nat
  <2>2. x # 0 /\ x - 1 \in Nat /\ ~ (x <= x - 1)
    OBVIOUS
  <2>3. x - 1 \in T
    BY <2>1, <2>2
  <2> QED
    BY <2>2, <2>3
<1> QED
  BY <1>1

-----------------------------------------------------------------------------
(* The passes *)

\* The recursive definition defines the sequence of passes.
LEMMA PassesAre ==
  ASSUME NEW items, NEW asg, NEW P, Len(items) \in Nat
  PROVE  Passes(items, asg, P) =
           [i \in 0..Len(items) |->
              IF i = 0 THEN {[asg |-> asg, owner |-> Owners(items, asg, P)]}
              ELSE UNION {Assign(st, items[i], P) : st \in Passes(items, asg, P)[i - 1]}]
<1> DEFINE first == {[asg |-> asg, owner |-> Owners(items, asg, P)]}
           Is(g, m) == g = [i \in 0..m |->
             IF i = 0 THEN first ELSE UNION {Assign(st, items[i], P) : st \in g[i - 1]}]
           T == {m \in Nat : \E g : Is(g, m)}
<1> HIDE DEF first
<1>1. 0 \in T
  <2>1. Is([i \in 0..0 |-> first], 0)
    OBVIOUS
  <2> QED
    BY <2>1
<1>2. ASSUME NEW m \in Nat, m \in T PROVE m + 1 \in T
  <2>1. PICK g : Is(g, m)
    BY <1>2
  <2> DEFINE h == [i \in 0..(m + 1) |->
                IF i = m + 1 THEN UNION {Assign(st, items[i], P) : st \in g[m]} ELSE g[i]]
  <2>2. \A i \in 0..(m + 1) :
          h[i] = IF i = 0 THEN first ELSE UNION {Assign(st, items[i], P) : st \in h[i - 1]}
    <3> SUFFICES ASSUME NEW i \in 0..(m + 1)
        PROVE  h[i] = IF i = 0 THEN first ELSE UNION {Assign(st, items[i], P) : st \in h[i - 1]}
      OBVIOUS
    <3>1. CASE i = m + 1
      <4>1. h[m] = g[m]
        OBVIOUS
      <4> QED
        BY <3>1, <4>1
    <3>2. CASE i # m + 1
      <4>1. i \in 0..m /\ h[i] = g[i] /\ (i # 0 => i - 1 \in 0..(m + 1) /\ i - 1 # m + 1)
        BY <3>2
      <4>2. i # 0 => h[i - 1] = g[i - 1]
        BY <4>1
      <4>3. g[i] = IF i = 0 THEN first ELSE UNION {Assign(st, items[i], P) : st \in g[i - 1]}
        BY <2>1, <4>1
      <4> QED
        BY <4>1, <4>2, <4>3
    <3> QED
      BY <3>1, <3>2
  <2>3. Is(h, m + 1)
    BY <2>2
  <2> HIDE DEF h, Is
  <2> QED
    BY <2>3
<1> HIDE DEF T
<1>3. Nat \subseteq T
  BY <1>1, <1>2, SetInduction
<1>4. \E g : Is(g, Len(items))
  BY <1>3 DEF T
<1>5. Passes(items, asg, P) = CHOOSE g : Is(g, Len(items))
  BY DEF Passes, first
<1>6. Is(Passes(items, asg, P), Len(items))
  BY <1>4, <1>5
<1> QED
  BY <1>6 DEF first

-----------------------------------------------------------------------------
(* The Reality inbounds, in a sequence *)

\* SetToSeq lists every element once.
LEMMA Listing ==
  ASSUME NEW S, IsFiniteSet(S)
  PROVE  /\ Cardinality(S) \in Nat
         /\ SetToSeq(S) \in [1..Cardinality(S) -> S]
         /\ \A i, j \in 1..Cardinality(S) : SetToSeq(S)[i] = SetToSeq(S)[j] => i = j
         /\ \A x \in S : \E i \in 1..Cardinality(S) : SetToSeq(S)[i] = x
<1> DEFINE N == Cardinality(S)
           f == SetToSeq(S)
<1>1. N \in Nat /\ \E g \in [1..N -> S] : IsInjective(g)
  BY FS_CardinalityType DEF ExistsBijection, Bijection, Injection
<1>2. f \in [1..N -> S] /\ IsInjective(f)
  BY <1>1 DEF SetToSeq
<1>3. IsFiniteSet(1..N) /\ Cardinality(1..N) = N
  BY <1>1, FS_Interval
<1>4. f \in Surjection(1..N, S)
  BY <1>2, <1>3, FS_Injection DEF Injection
<1> QED
  BY <1>1, <1>2, <1>4 DEF Surjection, IsInjective

\* No two members of a set have the same preset.
Distinct == \A n \in DOMAIN sets : \A i, j \in DOMAIN sets[n].members :
  sets[n].members[i].preset = sets[n].members[j].preset => i = j

KeyOf(ni) == <<ni[1], sets[ni[1]].members[ni[2]].preset>>

LEMMA RealityFinite ==
  ASSUME NEW act, IsFiniteSet(act)
  PROVE  IsFiniteSet(RealityMembers(act))
<1>1. IsFiniteSet(1..Cardinality(Presets))
  BY PublishAssumption, FS_CardinalityType, FS_Interval
<1>2. IsFiniteSet(act \X (1..Cardinality(Presets)))
  BY <1>1, FS_Product
<1>3. RealityMembers(act) \subseteq act \X (1..Cardinality(Presets))
  BY DEF RealityMembers
<1> QED
  BY <1>2, <1>3, FS_Subset

\* Every Reality member is listed, and no key twice.
LEMMA ItemsAre ==
  ASSUME NEW act, IsFiniteSet(act)
  PROVE  /\ Len(Items(act)) \in Nat /\ DOMAIN Items(act) = 1..Len(Items(act))
         /\ \A ni \in RealityMembers(act) : \E i \in DOMAIN Items(act) : Items(act)[i].key = KeyOf(ni)
         /\ Distinct /\ act \subseteq DOMAIN sets =>
              \A i, j \in DOMAIN Items(act) : Items(act)[i].key = Items(act)[j].key => i = j
<1> DEFINE S == RealityMembers(act)
           order == SetToSeq(S)
           N == Cardinality(S)
<1>1. /\ N \in Nat /\ order \in [1..N -> S]
      /\ \A i, j \in 1..N : order[i] = order[j] => i = j
      /\ \A x \in S : \E i \in 1..N : order[i] = x
  BY RealityFinite, Listing
<1>2. /\ DOMAIN Items(act) = 1..N
      /\ \A i \in 1..N : Items(act)[i].key = KeyOf(order[i])
  BY <1>1 DEF Items, KeyOf
<1>3. Len(Items(act)) = N
  BY <1>1 DEF Items
<1>4. ASSUME Distinct, act \subseteq DOMAIN sets, NEW x \in S, NEW y \in S, KeyOf(x) = KeyOf(y)
      PROVE  x = y
  <2>1. x[1] = y[1] /\ sets[x[1]].members[x[2]].preset = sets[y[1]].members[y[2]].preset
    BY <1>4 DEF KeyOf
  <2>2. /\ x \in act \X (1..Cardinality(Presets)) /\ y \in act \X (1..Cardinality(Presets))
        /\ x[2] \in DOMAIN sets[x[1]].members /\ y[2] \in DOMAIN sets[y[1]].members
    BY DEF RealityMembers
  <2>3. x[2] = y[2]
    BY <1>4, <2>1, <2>2 DEF Distinct
  <2> QED
    BY <2>1, <2>2, <2>3
<1> HIDE DEF S, order, N
<1>5. \A ni \in S : \E i \in DOMAIN Items(act) : Items(act)[i].key = KeyOf(ni)
  BY <1>1, <1>2
<1>6. Distinct /\ act \subseteq DOMAIN sets =>
        \A i, j \in DOMAIN Items(act) : Items(act)[i].key = Items(act)[j].key => i = j
  BY <1>1, <1>2, <1>4
<1> QED
  BY <1>1, <1>2, <1>3, <1>5, <1>6 DEF S

-----------------------------------------------------------------------------
(* What a pass keeps *)

LEMMA LeastIs ==
  ASSUME NEW S, S \subseteq Nat, S # {}
  PROVE  Least(S) \in S
BY NatMinimum DEF Least

\* Who owns an SNI in a pass has it.
OwnersHold(st) == \A s \in DOMAIN st.owner :
  st.owner[s] \in DOMAIN st.asg /\ st.asg[st.owner[s]].sni = s

\* One inbound: it gets an SNI of the pool, the others keep what they have, and its keys change
\* only when its SNI left the pool or is another's.
LEMMA Assigns ==
  ASSUME NEW st, NEW it, NEW P, P # {}, NEW r \in Assign(st, it, P), OwnersHold(st)
  PROVE  /\ it.key \in DOMAIN r.asg /\ r.asg[it.key].sni \in P
         /\ \A k : k # it.key => /\ k \in DOMAIN r.asg <=> k \in DOMAIN st.asg
                                 /\ k \in DOMAIN st.asg => r.asg[k] = st.asg[k]
         /\ OwnersHold(r)
         /\ it.key \in DOMAIN st.asg /\ r.asg[it.key].key # st.asg[it.key].key =>
              st.asg[it.key].sni \notin P \/ ~FreeFor(st.owner, st.asg[it.key].sni, it.key)
<1> DEFINE k   == it.key
           cur == st.asg[k].sni
           old == IF k \in DOMAIN st.asg THEN {cur} ELSE {}
           valid == k \in DOMAIN st.asg /\ cur \in P
           At(s) == With(Without(st.owner, old), s, k)
<1>1. ASSUME NEW s, NEW v, s \in P,
             r = [asg |-> With(st.asg, k, [sni |-> s, key |-> v]), owner |-> At(s)]
      PROVE  /\ k \in DOMAIN r.asg /\ r.asg[k].sni \in P /\ r.asg[k].key = v
             /\ \A x : x # k => /\ x \in DOMAIN r.asg <=> x \in DOMAIN st.asg
                                /\ x \in DOMAIN st.asg => r.asg[x] = st.asg[x]
             /\ OwnersHold(r)
  <2>1. r.asg = With(st.asg, k, [sni |-> s, key |-> v]) /\ r.owner = At(s)
    BY <1>1
  <2>2. /\ DOMAIN r.asg = DOMAIN st.asg \cup {k} /\ r.asg[k] = [sni |-> s, key |-> v]
        /\ \A x \in DOMAIN st.asg : x # k => r.asg[x] = st.asg[x]
    BY <2>1 DEF With
  <2>3. /\ DOMAIN r.owner = (DOMAIN st.owner \ old) \cup {s} /\ r.owner[s] = k
        /\ \A x \in DOMAIN st.owner \ old : x # s => r.owner[x] = st.owner[x]
    BY <2>1 DEF With, Without
  <2>4. OwnersHold(r)
    <3> SUFFICES ASSUME NEW x \in DOMAIN r.owner
                 PROVE  r.owner[x] \in DOMAIN r.asg /\ r.asg[r.owner[x]].sni = x
      BY DEF OwnersHold
    <3>1. CASE x = s
      BY <2>2, <2>3, <3>1
    <3>2. CASE x # s
      <4>1. x \in DOMAIN st.owner \ old /\ r.owner[x] = st.owner[x]
        BY <2>3, <3>2
      <4>2. st.owner[x] \in DOMAIN st.asg /\ st.asg[st.owner[x]].sni = x
        BY <4>1 DEF OwnersHold
      <4>3. st.owner[x] # k
        BY <4>1, <4>2
      <4> QED
        BY <2>2, <4>1, <4>2, <4>3
    <3> QED
      BY <3>1, <3>2
  <2> QED
    BY <1>1, <2>2, <2>4
<1>2. CASE valid /\ it.prefer # cur /\ it.prefer \in P /\ FreeFor(st.owner, it.prefer, k)
  <2>1. r = [asg |-> With(st.asg, k, [sni |-> it.prefer, key |-> st.asg[k].key]), owner |-> At(it.prefer)]
    BY <1>2 DEF Assign
  <2> QED
    BY <1>1, <1>2, <2>1
<1>3. CASE /\ ~(valid /\ it.prefer # cur /\ it.prefer \in P /\ FreeFor(st.owner, it.prefer, k))
           /\ valid /\ FreeFor(st.owner, cur, k)
  <2>1. r = [asg |-> st.asg, owner |-> With(st.owner, cur, k)]
    BY <1>3 DEF Assign
  <2>2. r.asg = st.asg /\ r.owner = With(st.owner, cur, k)
    BY <2>1
  <2>3. OwnersHold(r)
    BY <1>3, <2>2 DEF OwnersHold, With
  <2> QED
    BY <1>3, <2>2, <2>3
<1>4. CASE ~(valid /\ FreeFor(st.owner, cur, k))
           /\ ~(valid /\ it.prefer # cur /\ it.prefer \in P /\ FreeFor(st.owner, it.prefer, k))
  <2>1. PICK s \in PickRealityEndpoint(P, it.prefer, st.owner, k) : \E v :
          r = [asg |-> With(st.asg, k, [sni |-> s, key |-> v]), owner |-> At(s)]
    BY <1>4 DEF Assign
  <2>2. s \in P
    BY DEF PickRealityEndpoint
  <2> QED
    BY <1>1, <1>4, <2>1, <2>2
<1> QED
  BY <1>2, <1>3, <1>4

\* After m inbounds: those have an SNI of the pool, the others what they had; keys that changed
\* belonged to an SNI that has changed too, or that somebody else had or now has.
Passed(items, m) == {items[j].key : j \in 1..m}

PassInv(st, items, m, asg, P) ==
  /\ OwnersHold(st)
  /\ \A k \in Passed(items, m) : k \in DOMAIN st.asg /\ st.asg[k].sni \in P
  /\ \A k : k \notin Passed(items, m) => /\ k \in DOMAIN st.asg <=> k \in DOMAIN asg
                                         /\ k \in DOMAIN asg => st.asg[k] = asg[k]
  /\ \A k \in Passed(items, m) \cap DOMAIN asg :
       \/ st.asg[k].key = asg[k].key
       \/ st.asg[k].sni # asg[k].sni
       \/ \E o \in DOMAIN asg \ {k} : asg[o].sni = asg[k].sni
       \/ \E o \in Passed(items, m) \ {k} : st.asg[o].sni = asg[k].sni

LEMMA PassKeeps ==
  ASSUME NEW items, NEW asg, NEW P, P # {}, NEW n \in Nat, DOMAIN items = 1..n,
         \A i, j \in DOMAIN items : items[i].key = items[j].key => i = j,
         NEW m \in Nat, m + 1 <= n, NEW st, PassInv(st, items, m, asg, P),
         NEW r \in Assign(st, items[m + 1], P)
  PROVE  PassInv(r, items, m + 1, asg, P)
<1> DEFINE it == items[m + 1]
           k  == it.key
<1>1. Passed(items, m + 1) = Passed(items, m) \cup {k} /\ k \notin Passed(items, m)
  <2>1. 1..(m + 1) = 1..m \cup {m + 1} /\ m + 1 \notin 1..m /\ 1..(m + 1) \subseteq DOMAIN items
    OBVIOUS
  <2> QED
    BY <2>1 DEF Passed
<1>2. OwnersHold(st) /\ (k \in DOMAIN st.asg <=> k \in DOMAIN asg) /\ (k \in DOMAIN asg => st.asg[k] = asg[k])
  BY <1>1 DEF PassInv
<1>3. /\ k \in DOMAIN r.asg /\ r.asg[k].sni \in P
      /\ \A x : x # k => /\ x \in DOMAIN r.asg <=> x \in DOMAIN st.asg
                         /\ x \in DOMAIN st.asg => r.asg[x] = st.asg[x]
      /\ OwnersHold(r)
      /\ k \in DOMAIN st.asg /\ r.asg[k].key # st.asg[k].key =>
           st.asg[k].sni \notin P \/ ~FreeFor(st.owner, st.asg[k].sni, k)
  BY <1>2, Assigns
<1> HIDE DEF k
<1>4. \A x \in Passed(items, m + 1) : x \in DOMAIN r.asg /\ r.asg[x].sni \in P
  BY <1>1, <1>3 DEF PassInv
<1>5. \A x : x \notin Passed(items, m + 1) => /\ x \in DOMAIN r.asg <=> x \in DOMAIN asg
                                              /\ x \in DOMAIN asg => r.asg[x] = asg[x]
  BY <1>1, <1>3 DEF PassInv
<1>6. ASSUME NEW x \in Passed(items, m + 1) \cap DOMAIN asg
      PROVE  \/ r.asg[x].key = asg[x].key
             \/ r.asg[x].sni # asg[x].sni
             \/ \E o \in DOMAIN asg \ {x} : asg[o].sni = asg[x].sni
             \/ \E o \in Passed(items, m + 1) \ {x} : r.asg[o].sni = asg[x].sni
  <2>1. CASE x # k
    <3>1. x \in Passed(items, m) /\ r.asg[x] = st.asg[x]
      BY <1>1, <1>3, <2>1 DEF PassInv
    <3>2. \A o \in Passed(items, m) : r.asg[o] = st.asg[o]
      BY <1>1, <1>3 DEF PassInv
    <3>3. \/ st.asg[x].key = asg[x].key
          \/ st.asg[x].sni # asg[x].sni
          \/ \E o \in DOMAIN asg \ {x} : asg[o].sni = asg[x].sni
          \/ \E o \in Passed(items, m) \ {x} : st.asg[o].sni = asg[x].sni
      BY <3>1 DEF PassInv
    <3> QED
      BY <1>1, <3>1, <3>2, <3>3
  <2>2. CASE x = k /\ r.asg[k].key # asg[k].key
    <3>1. asg[k].sni \notin P \/ ~FreeFor(st.owner, asg[k].sni, k)
      BY <1>2, <1>3, <2>2
    <3>2. CASE asg[k].sni \notin P
      BY <1>3, <2>2, <3>2
    <3>3. CASE ~FreeFor(st.owner, asg[k].sni, k)
      <4> DEFINE o == st.owner[asg[k].sni]
      <4>1. o # k /\ o \in DOMAIN st.asg /\ st.asg[o].sni = asg[k].sni
        BY <1>2, <3>3 DEF FreeFor, OwnersHold
      <4>2. r.asg[o] = st.asg[o]
        BY <1>3, <4>1
      <4>3. CASE o \in Passed(items, m)
        BY <1>1, <2>2, <4>1, <4>2, <4>3
      <4>4. CASE o \notin Passed(items, m)
        <5>1. o \in DOMAIN asg /\ asg[o] = st.asg[o]
          BY <4>1, <4>4 DEF PassInv
        <5> QED
          BY <2>2, <4>1, <5>1
      <4> QED
        BY <4>3, <4>4
    <3> QED
      BY <3>1, <3>2, <3>3
  <2> QED
    BY <2>1, <2>2
<1> QED
  BY <1>3, <1>4, <1>5, <1>6 DEF PassInv

\* So it is after all of them.
LEMMA PassesKeep ==
  ASSUME NEW items, NEW asg, NEW P, P # {}, Len(items) \in Nat, DOMAIN items = 1..Len(items),
         \A i, j \in DOMAIN items : items[i].key = items[j].key => i = j
  PROVE  \A st \in Passes(items, asg, P)[Len(items)] : PassInv(st, items, Len(items), asg, P)
<1> DEFINE n == Len(items)
           p == Passes(items, asg, P)
           T == {m \in Nat : m <= n => \A st \in p[m] : PassInv(st, items, m, asg, P)}
<1>1. p = [i \in 0..n |-> IF i = 0 THEN {[asg |-> asg, owner |-> Owners(items, asg, P)]}
                          ELSE UNION {Assign(st, items[i], P) : st \in p[i - 1]}]
  BY PassesAre
<1> HIDE DEF p
<1>2. 0 \in T
  <2> SUFFICES ASSUME NEW st \in p[0] PROVE PassInv(st, items, 0, asg, P)
    OBVIOUS
  <2>1. st.asg = asg /\ st.owner = Owners(items, asg, P)
    BY <1>1
  <2>2. Passed(items, 0) = {}
    BY DEF Passed
  <2>3. OwnersHold(st)
    <3> SUFFICES ASSUME NEW s \in DOMAIN Owners(items, asg, P)
                 PROVE  Owners(items, asg, P)[s] \in DOMAIN asg /\ asg[Owners(items, asg, P)[s]].sni = s
      BY <2>1 DEF OwnersHold
    <3> DEFINE Has == {i \in DOMAIN items : items[i].key \in DOMAIN asg /\ asg[items[i].key].sni = s}
    <3>1. Has # {} /\ Has \subseteq Nat /\ Owners(items, asg, P)[s] = items[Least(Has)].key
      BY DEF Owners
    <3>2. Least(Has) \in Has
      BY <3>1, LeastIs
    <3> QED
      BY <3>1, <3>2
  <2> QED
    BY <2>1, <2>2, <2>3 DEF PassInv
<1>3. ASSUME NEW m \in Nat, m \in T PROVE m + 1 \in T
  <2> SUFFICES ASSUME m + 1 <= n, NEW r \in p[m + 1] PROVE PassInv(r, items, m + 1, asg, P)
    OBVIOUS
  <2>1. p[m + 1] = UNION {Assign(st, items[m + 1], P) : st \in p[m]}
    <3>1. m + 1 \in 0..n /\ m + 1 # 0 /\ (m + 1) - 1 = m
      OBVIOUS
    <3> QED
      BY <1>1, <3>1
  <2>2. PICK st \in p[m] : r \in Assign(st, items[m + 1], P)
    BY <2>1
  <2>3. PassInv(st, items, m, asg, P)
    BY <1>3
  <2> QED
    BY <2>2, <2>3, PassKeeps
<1> HIDE DEF T
<1>4. n \in T
  BY <1>2, <1>3, SetInduction
<1> QED
  BY <1>4 DEF T, p

\* Keys stay with an SNI that nobody else had or has.
KeysFrom(old, new) == \A k \in DOMAIN old \cap DOMAIN new :
  /\ new[k].sni = old[k].sni
  /\ \A o \in DOMAIN old \ {k} : old[o].sni # old[k].sni
  /\ \A o \in DOMAIN new \ {k} : new[o].sni # new[k].sni
  => new[k].key = old[k].key

\* ensureRealityAssignments gives every inbound an SNI of the pool, and keeps keys.
LEMMA Ensures ==
  ASSUME NEW asg, NEW act, NEW P, NEW r \in EnsureRealityAssignments(asg, act, P),
         IsFiniteSet(act), Distinct, act \subseteq DOMAIN sets
  PROVE  /\ P # {} => \A ni \in RealityMembers(act) : r[KeyOf(ni)].sni \in P
         /\ KeysFrom(asg, r)
<1> DEFINE items == Items(act)
           n == Len(items)
<1>1. CASE P = {}
  BY <1>1 DEF EnsureRealityAssignments, KeysFrom
<1>2. CASE P # {}
  <2>1. /\ n \in Nat /\ DOMAIN items = 1..n
        /\ \A ni \in RealityMembers(act) : \E i \in DOMAIN items : items[i].key = KeyOf(ni)
        /\ \A i, j \in DOMAIN items : items[i].key = items[j].key => i = j
    BY ItemsAre
  <2>2. Passed(items, n) = {it.key : it \in Indexed(items)}
    BY <2>1 DEF Passed, Indexed
  <2>3. PICK st \in Passes(items, asg, P)[n] : r = Without(st.asg, DOMAIN st.asg \ Passed(items, n))
    BY <1>2, <2>2 DEF EnsureRealityAssignments
  <2>4. PassInv(st, items, n, asg, P)
    BY <1>2, <2>1, PassesKeep
  <2> HIDE DEF items, n
  <2>5. DOMAIN r = Passed(items, n) /\ \A k \in Passed(items, n) : r[k] = st.asg[k] /\ r[k].sni \in P
    BY <2>3, <2>4 DEF PassInv, Without
  <2>6. \A ni \in RealityMembers(act) : r[KeyOf(ni)].sni \in P
    BY <2>1, <2>5 DEF Passed
  <2>7. KeysFrom(asg, r)
    BY <2>4, <2>5 DEF PassInv, KeysFrom
  <2> QED
    BY <2>6, <2>7
<1> QED
  BY <1>1, <1>2

-----------------------------------------------------------------------------
(* The pool and the keys *)

\* The Reality inbounds of the active sets have SNIs of the pool.
Pooled == \A ni \in RealityMembers(ActiveSets) : assigned[KeyOf(ni)].sni \in pool

PoolInv ==
  /\ Distinct /\ IsFiniteSet(DOMAIN sets)
  /\ slips = {} /\ ~Unsettled => Pooled

\* What PUT reality is about to save keeps the keys of what it read.
PutInv == \A t \in Clients : pc[t] = "assign" => KeysFrom(job[t].base, job[t].asg)

LEMMA ActiveFinite == PoolInv => IsFiniteSet(ActiveSets) /\ ActiveSets \subseteq DOMAIN sets
BY FS_Subset DEF PoolInv, ActiveSets

\* Sets are only added, one at a time and without a preset twice.
LEMMA SetsStep ==
  ASSUME Distinct, IsFiniteSet(DOMAIN sets), [Next]_vars
  PROVE  Distinct' /\ IsFiniteSet(DOMAIN sets)'
<1>1. CASE sets' = sets
  BY <1>1 DEF Distinct
<1>2. ASSUME NEW t \in Clients, HandleInstall(t)
      PROVE  Distinct' /\ IsFiniteSet(DOMAIN sets)'
  <2>1. PICK b, s : sets' = With(sets, b.name, s) /\ ValidateSet(s)
    BY <1>2 DEF HandleInstall
  <2>2. DOMAIN sets' = DOMAIN sets \cup {b.name} /\ sets'[b.name] = s
        /\ \A n \in DOMAIN sets : n # b.name => sets'[n] = sets[n]
    BY <2>1 DEF With
  <2>3. Distinct'
    BY <2>1, <2>2 DEF Distinct, ValidateSet
  <2> QED
    BY <2>2, <2>3, FS_AddElement
<1> QED
  BY <1>1, <1>2 DEF Next, vars, stores, HandleSetsActivate, HandleSetsDeactivate, HandleRealityPut,
     SaveRealityAssignments, HandleSSLCreate, HandleSSLPut, HandleSSLRegenerate, UpsertSSLProfile,
     HandleSSLDelete, RemoveSSLProfile, HandleSub, HandleStatus, HandleSmoke, SmokeReads, SubEnsures,
     RematReturns, RematRead, RematApply, Undo

\* Nothing that matters to the pool changes.
LEMMA StillPooled ==
  ASSUME Pooled, ActiveSets' = ActiveSets, \A n \in ActiveSets : sets'[n] = sets[n],
         assigned' = assigned, pool \subseteq pool'
  PROVE  Pooled'
BY DEF Pooled, RealityMembers, KeyOf

LEMMA PoolStep ==
  ASSUME Shape, PoolInv, [Next]_vars
  PROVE  PoolInv'
<1>1. Distinct' /\ IsFiniteSet(DOMAIN sets)'
  BY SetsStep DEF PoolInv
<1> SUFFICES ASSUME slips' = {}, ~Unsettled' PROVE Pooled'
  BY <1>1 DEF PoolInv
<1>2. CASE UNCHANGED vars
  <2>1. ~Unsettled /\ slips = {}
    BY <1>2 DEF vars, Unsettled
  <2> QED
    BY <1>2, <2>1, StillPooled DEF PoolInv, vars, stores, ActiveSets
<1>3. ASSUME NEW t \in Clients, HandleInstall(t)
      PROVE  Pooled'
  <2>1. /\ UNCHANGED <<assigned, slips>> /\ pc[t] = "idle" /\ pool' = EffectivePool(pool)
        /\ \/ pc'[t] = "remat"
           \/ active' = active /\ \E b, s : b.name \notin DOMAIN sets /\ sets' = With(sets, b.name, s)
    BY <1>3, GotoOnly DEF HandleInstall, Request
  <2>2. pc'[t] # "remat"
    BY DEF Unsettled
  <2>3. PICK b, s : b.name \notin DOMAIN sets /\ sets' = With(sets, b.name, s) /\ active' = active
    BY <2>1, <2>2
  <2>4. ActiveSets' = ActiveSets /\ \A n \in ActiveSets : sets'[n] = sets[n]
    BY <2>3 DEF ActiveSets, Shape, With
  <2>5. Pooled
    BY <1>3, <2>1, ShapeRequests, StillUnsettled DEF PoolInv
  <2> QED
    BY <2>1, <2>4, <2>5, StillPooled DEF EffectivePool
<1>4. ASSUME NEW t \in Clients, HandleSetsActivate(t) \/ HandleSetsDeactivate(t) \/ HandleRealityPut(t)
      PROVE  Pooled'
  <2>1. pc'[t] \in {"remat", "assign"} \/ active' = {}
    BY <1>4, GotoOnly DEF HandleSetsActivate, HandleSetsDeactivate, HandleRealityPut
  <2> QED
    BY <2>1 DEF Pooled, RealityMembers, Unsettled, ActiveSets
<1>5. ASSUME NEW t \in Clients,
             HandleSub(t) \/ HandleStatus(t) \/ HandleSmoke(t) \/ SmokeReads(t) \/ SubEnsures(t)
      PROVE  Pooled'
  <2>1. /\ UNCHANGED <<sets, assigned, pool>> /\ slips = {}
        /\ active' \in {active, ActiveSets} /\ pc[t] \in {"idle", "smoke", "sub"}
    BY <1>5 DEF HandleSub, HandleStatus, HandleSmoke, SmokeReads, SubEnsures, Request, Step, stores
  <2>2. ActiveSets' = ActiveSets
    BY <2>1 DEF ActiveSets
  <2>3. Pooled
    BY <1>5, <2>1, ShapeRequests, ShapeSteps, StillUnsettled DEF PoolInv
  <2> QED
    BY <2>1, <2>2, <2>3, StillPooled
<1>6. ASSUME NEW t \in Clients,
             HandleSSLCreate(t) \/ HandleSSLPut(t) \/ HandleSSLRegenerate(t) \/ HandleSSLDelete(t)
      PROVE  Pooled'
  <2>1. UNCHANGED <<sets, active, assigned, pool, slips>> /\ pc[t] = "idle"
    BY <1>6 DEF HandleSSLCreate, HandleSSLPut, HandleSSLRegenerate, HandleSSLDelete, Request
  <2>2. Pooled
    BY <1>6, <2>1, ShapeProfiles, StillUnsettled DEF PoolInv
  <2> QED
    BY <2>1, <2>2, StillPooled DEF ActiveSets
<1>7. ASSUME NEW t \in Clients, UpsertSSLProfile(t) \/ RemoveSSLProfile(t) \/ SaveRealityAssignments(t)
      PROVE  Pooled'
  BY <1>7, ShapeSteps DEF Unsettled
<1>8. ASSUME NEW t \in Clients, RematReturns(t) \/ Undo(t)
      PROVE  Pooled'
  BY <1>8 DEF RematReturns, Undo, Pooled, RealityMembers, ActiveSets
<1>9. ASSUME NEW t \in Clients, RematRead(t)
      PROVE  Pooled'
  <2>1. active' = ActiveSets /\ sets' = sets
    BY <1>9 DEF RematRead
  <2>2. ActiveSets' = ActiveSets
    BY <2>1 DEF ActiveSets
  <2>3. RealityMembers(ActiveSets)' = RealityMembers(ActiveSets) /\ \A ni : KeyOf(ni)' = KeyOf(ni)
    BY <2>1, <2>2 DEF RealityMembers, KeyOf
  <2>4. CASE RealityMembers(ActiveSets) = {}
    BY <2>3, <2>4 DEF Pooled
  <2>5. CASE RealityMembers(ActiveSets) # {}
    <3>1. pool' = EffectivePool(pool) /\ assigned' \in EnsureRealityAssignments(assigned, ActiveSets, pool')
      BY <1>9, <2>5 DEF RematRead
    <3>2. pool' # {}
      BY <3>1, PublishAssumption DEF EffectivePool
    <3>3. \A ni \in RealityMembers(ActiveSets) : assigned'[KeyOf(ni)].sni \in pool'
      BY <3>1, <3>2, ActiveFinite, Ensures DEF PoolInv
    <3> QED
      BY <2>3, <3>3 DEF Pooled
  <2> QED
    BY <2>4, <2>5
<1>10. ASSUME NEW t \in Clients, RematApply(t)
       PROVE  Pooled'
  <2>1. UNCHANGED stores /\ pc[t] = "apply" /\ slips = {}
    BY <1>10 DEF RematApply, Step
  <2>2. Pooled
    BY <1>10, <2>1, ShapeApply, StillUnsettled DEF PoolInv
  <2> QED
    BY <2>1, <2>2, StillPooled DEF ActiveSets, stores
<1> QED
  BY <1>2, <1>3, <1>4, <1>5, <1>6, <1>7, <1>8, <1>9, <1>10 DEF Next

\* Only PUT reality makes such assignments, of what is stored when it reads them.
LEMMA PutStep ==
  ASSUME Shape, PoolInv, PutInv, [Next]_vars
  PROVE  PutInv'
<1>1. CASE UNCHANGED vars
  BY <1>1 DEF vars, PutInv, KeysFrom
<1>2. ASSUME NEW t \in Clients, Only(t), pc'[t] = "assign" => KeysFrom(job'[t].base, job'[t].asg)
      PROVE  PutInv'
  <2> SUFFICES ASSUME NEW u \in Clients, pc'[u] = "assign" PROVE KeysFrom(job'[u].base, job'[u].asg)
    BY DEF PutInv, KeysFrom
  <2>1. CASE u = t
    BY <1>2, <2>1
  <2>2. CASE u # t
    BY <1>2, <2>2 DEF Only, PutInv
  <2> QED
    BY <2>1, <2>2
<1>3. ASSUME NEW t \in Clients, HandleRealityPut(t)
      PROVE  PutInv'
  <2>1. PICK P, r : /\ r \in EnsureRealityAssignments(assigned, ActiveSets, P)
                    /\ \/ Goto(t, "remat", Job("reality"))
                       \/ Goto(t, "assign", [Job("reality") EXCEPT !.base = assigned, !.asg = r])
    BY <1>3 DEF HandleRealityPut
  <2>2. KeysFrom(assigned, r)
    BY <2>1, ActiveFinite, Ensures DEF PoolInv
  <2> DEFINE j == [Job("reality") EXCEPT !.base = assigned, !.asg = r]
  <2>3. j.base = assigned /\ j.asg = r
    BY Jobs DEF Fields
  <2> HIDE DEF j
  <2>4. Only(t) /\ (pc'[t] = "remat" \/ (pc'[t] = "assign" /\ job'[t] = j))
    BY <2>1, GotoOnly DEF j
  <2> QED
    BY <1>2, <2>2, <2>3, <2>4
<1>4. ASSUME NEW t \in Clients,
             HandleInstall(t) \/ HandleSetsActivate(t) \/ HandleSetsDeactivate(t) \/ HandleSub(t)
             \/ HandleStatus(t) \/ HandleSmoke(t)
      PROVE  PutInv'
  <2>1. pc'[t] # "assign"
    BY <1>4, GotoOnly DEF HandleInstall, HandleSetsActivate, HandleSetsDeactivate, HandleSub, HandleStatus,
       HandleSmoke, EnsureSmokeProbeUser, Answer
  <2> QED
    BY <1>2, <1>4, <2>1, ShapeRequests
<1>5. ASSUME NEW t \in Clients,
             HandleSSLCreate(t) \/ HandleSSLPut(t) \/ HandleSSLRegenerate(t) \/ HandleSSLDelete(t)
      PROVE  PutInv'
  <2>1. Only(t) /\ pc'[t] # "assign"
    BY <1>5, ShapeProfiles
  <2> QED
    BY <1>2, <2>1
<1>6. ASSUME NEW t \in Clients,
             SaveRealityAssignments(t) \/ UpsertSSLProfile(t) \/ RemoveSSLProfile(t)
             \/ SmokeReads(t) \/ SubEnsures(t) \/ RematReturns(t) \/ Undo(t)
      PROVE  PutInv'
  <2>1. Only(t) /\ pc'[t] # "assign"
    BY <1>6, ShapeSteps
  <2> QED
    BY <1>2, <2>1
<1>7. ASSUME NEW t \in Clients, RematRead(t) \/ RematApply(t)
      PROVE  PutInv'
  <2>1. Only(t) /\ pc'[t] # "assign"
    BY <1>7, ShapeRead, ShapeApply
  <2> QED
    BY <1>2, <2>1
<1> QED
  BY <1>1, <1>3, <1>4, <1>5, <1>6, <1>7 DEF Next

\* The inductive invariant of both.
LEMMA PoolAlways == Spec => [](IInv /\ PoolInv /\ PutInv)
<1>1. Init => PoolInv /\ PutInv
  <2> SUFFICES ASSUME Init PROVE PoolInv /\ PutInv
    OBVIOUS
  <2>1. DOMAIN sets = {}
    BY DEF Init
  <2>2. Distinct /\ IsFiniteSet(DOMAIN sets)
    BY <2>1, FS_EmptySet DEF Distinct
  <2>3. RealityMembers(ActiveSets) = {}
    BY DEF Init, ActiveSets, RealityMembers
  <2> QED
    BY <2>2, <2>3 DEF PoolInv, Pooled, PutInv, Init
<1>2. IInv /\ PoolInv /\ PutInv /\ [Next]_vars => PoolInv' /\ PutInv'
  BY PoolStep, PutStep DEF IInv
<1> QED
  BY <1>1, <1>2, Invariant, PTL DEF Spec

\* THEOREM.  When no request is under way and none failed since the box last changed, every
\* Reality inbound of the active sets is disguised as a host of the operator's pool: however
\* many inbounds share it, in whatever order they are passed, and although each PUT reality
\* saves assignments it made of its own body, outside Service.mu and perhaps after a rebuild.
THEOREM PoolIsHonoured == Spec => []PoolHonoured
<1>1. IInv /\ PoolInv /\ PutInv => PoolHonoured
  <2> SUFFICES ASSUME PoolInv, Settled, NEW ni \in RealityMembers(ActiveSets)
               PROVE  RealityOf(ni[1], sets[ni[1]].members[ni[2]]).sni \in pool
    BY DEF PoolHonoured
  <2>1. ~Unsettled /\ slips = {}
    BY DEF Settled, Quiet, Unsettled
  <2> QED
    BY <2>1 DEF PoolInv, Pooled, KeyOf, RealityOf
<1> QED
  BY <1>1, PoolAlways, PTL

\* THEOREM.  An inbound that keeps an SNI nobody else has or gets keeps its Reality keys, which
\* clients have in their subscriptions: through every rebuild, whatever the pool and the sets
\* become, and through PUT reality unless it saves over assignments that changed since it
\* read them.
THEOREM KeysStay == Spec => KeysSticky
<1> DEFINE Over == \E t \in Clients : pc[t] = "assign" /\ pc'[t] = "remat" /\ assigned # job[t].base
<1>1. ASSUME IInv, PoolInv, PutInv, [Next]_vars
      PROVE  Over \/ KeysFrom(assigned, assigned')
  <2>1. CASE assigned' = assigned
    BY <2>1 DEF KeysFrom
  <2>2. ASSUME NEW t \in Clients, SaveRealityAssignments(t)
        PROVE  Over \/ KeysFrom(assigned, assigned')
    <3>1. pc[t] = "assign" /\ assigned' = job[t].asg /\ pc'[t] = "remat"
      BY <1>1, <2>2, ShapeSteps DEF IInv, SaveRealityAssignments, Step
    <3> QED
      BY <1>1, <3>1 DEF PutInv
  <2>3. ASSUME NEW t \in Clients, RematRead(t)
        PROVE  Over \/ KeysFrom(assigned, assigned')
    <3>1. assigned' = assigned \/ assigned' \in EnsureRealityAssignments(assigned, ActiveSets, pool')
      BY <2>3 DEF RematRead
    <3> QED
      BY <1>1, <2>1, <3>1, ActiveFinite, Ensures DEF PoolInv
  <2> HIDE DEF Over
  <2> QED
    BY <1>1, <2>1, <2>2, <2>3 DEF Next, vars, stores, HandleInstall, HandleSetsActivate, HandleSetsDeactivate,
       HandleRealityPut, HandleSSLCreate, HandleSSLPut, HandleSSLRegenerate, UpsertSSLProfile,
       HandleSSLDelete, RemoveSSLProfile, HandleSub, HandleStatus, HandleSmoke, SmokeReads, SubEnsures,
       RematReturns, RematApply, Undo
<1>2. IInv /\ PoolInv /\ PutInv /\ [Next]_vars => Over \/ KeysFrom(assigned, assigned')
  BY <1>1
<1> QED
  BY <1>2, PoolAlways, PTL DEF Spec, KeysSticky, KeysFrom


-----------------------------------------------------------------------------
(* Flattening a sequence of sequences *)

\* What two sequences hold, their concatenation holds.
LEMMA Joined ==
  ASSUME NEW S, NEW a \in Seq(S), NEW b \in Seq(S)
  PROVE  a \o b \in Seq(S) /\ Indexed(a \o b) = Indexed(a) \cup Indexed(b)
<1>1. /\ a \o b \in Seq(S) /\ Len(a \o b) = Len(a) + Len(b)
      /\ \A i \in 1..Len(a) : (a \o b)[i] = a[i]
      /\ \A i \in 1..Len(b) : (a \o b)[Len(a) + i] = b[i]
  OBVIOUS
<1>2. ASSUME NEW x \in Indexed(a \o b) PROVE x \in Indexed(a) \cup Indexed(b)
  <2>1. PICK k \in 1..(Len(a) + Len(b)) : x = (a \o b)[k]
    BY <1>1 DEF Indexed
  <2>2. CASE k \in 1..Len(a)
    BY <1>1, <2>1, <2>2 DEF Indexed
  <2>3. CASE k \notin 1..Len(a)
    <3>1. k - Len(a) \in 1..Len(b) /\ Len(a) + (k - Len(a)) = k
      BY <2>3
    <3>2. x = b[k - Len(a)]
      BY <1>1, <2>1, <3>1
    <3> QED
      BY <3>1, <3>2 DEF Indexed
  <2> QED
    BY <2>2, <2>3
<1>3. Indexed(a) \subseteq Indexed(a \o b)
  BY <1>1 DEF Indexed
<1>4. ASSUME NEW x \in Indexed(b) PROVE x \in Indexed(a \o b)
  <2>1. PICK i \in 1..Len(b) : x = b[i]
    BY DEF Indexed
  <2>2. Len(a) + i \in DOMAIN (a \o b) /\ x = (a \o b)[Len(a) + i]
    BY <1>1, <2>1
  <2> QED
    BY <2>2 DEF Indexed
<1> QED
  BY <1>1, <1>2, <1>3, <1>4

\* FlattenSeq holds what the sequences hold.
LEMMA Flattened ==
  ASSUME NEW S, NEW ss \in Seq(Seq(S))
  PROVE  FlattenSeq(ss) \in Seq(S) /\ Indexed(FlattenSeq(ss)) = UNION {Indexed(ss[i]) : i \in 1..Len(ss)}
<1> DEFINE n == Len(ss)
           Is(g, m) == g = [i \in 1..m |-> IF i = 1 THEN ss[i] ELSE g[i - 1] \o ss[i]]
           T == {m \in Nat : \E g : Is(g, m)}
<1>1. 0 \in T
  <2>1. Is([i \in 1..0 |-> ss[i]], 0)
    OBVIOUS
  <2> QED
    BY <2>1
<1>2. ASSUME NEW m \in Nat, m \in T PROVE m + 1 \in T
  <2>1. PICK g : Is(g, m)
    BY <1>2
  <2> DEFINE h == [i \in 1..(m + 1) |-> IF i # m + 1 THEN g[i] ELSE IF m = 0 THEN ss[i] ELSE g[m] \o ss[i]]
  <2>2. ASSUME NEW i \in 1..(m + 1)
        PROVE  h[i] = IF i = 1 THEN ss[i] ELSE h[i - 1] \o ss[i]
    <3>1. CASE i = m + 1
      <4>1. m # 0 => h[m] = g[m]
        OBVIOUS
      <4> QED
        BY <3>1, <4>1
    <3>2. CASE i # m + 1
      <4>1. i \in 1..m /\ h[i] = g[i] /\ (i # 1 => i - 1 \in 1..(m + 1) /\ i - 1 # m + 1)
        BY <3>2
      <4>2. i # 1 => h[i - 1] = g[i - 1]
        BY <4>1
      <4>3. g[i] = IF i = 1 THEN ss[i] ELSE g[i - 1] \o ss[i]
        BY <2>1, <4>1
      <4> QED
        BY <4>1, <4>2, <4>3
    <3> QED
      BY <3>1, <3>2
  <2>3. Is(h, m + 1)
    BY <2>2
  <2> HIDE DEF h, Is
  <2> QED
    BY <2>3
<1> HIDE DEF T
<1>3. n \in Nat /\ \E g : Is(g, n)
  <2>1. Nat \subseteq T
    BY <1>1, <1>2, SetInduction
  <2>2. n \in Nat
    OBVIOUS
  <2> HIDE DEF Is, n
  <2> QED
    BY <2>1, <2>2 DEF T
<1> DEFINE f == CHOOSE g : Is(g, n)
<1>4. f = [i \in 1..n |-> IF i = 1 THEN ss[i] ELSE f[i - 1] \o ss[i]]
  BY <1>3
<1>5. n # 0 => FlattenSeq(ss) = f[n]
  BY <1>3 DEF FlattenSeq
<1> HIDE DEF f
<1> DEFINE upTo(m) == UNION {Indexed(ss[i]) : i \in 1..m}
           U == {m \in Nat : m \in 1..n => f[m] \in Seq(S) /\ Indexed(f[m]) = upTo(m)}
<1>6. ASSUME NEW m \in Nat, m \in U PROVE m + 1 \in U
  <2> SUFFICES ASSUME m + 1 \in 1..n
               PROVE  f[m + 1] \in Seq(S) /\ Indexed(f[m + 1]) = upTo(m + 1)
    OBVIOUS
  <2>1. ss[m + 1] \in Seq(S)
    OBVIOUS
  <2>2. CASE m = 0
    <3>1. f[1] = ss[1]
      BY <1>4, <2>2
    <3>2. upTo(1) = Indexed(ss[1])
      <4>1. 1..1 = {1}
        OBVIOUS
      <4> QED
        BY <4>1
    <3> QED
      BY <2>1, <2>2, <3>1, <3>2
  <2>3. CASE m # 0
    <3>1. m \in 1..n /\ f[m] \in Seq(S) /\ Indexed(f[m]) = upTo(m)
      BY <1>6, <2>3
    <3>2. f[m + 1] = f[m] \o ss[m + 1]
      <4>1. m + 1 # 1 /\ (m + 1) - 1 = m
        BY <2>3
      <4>2. f[m + 1] = IF m + 1 = 1 THEN ss[m + 1] ELSE f[(m + 1) - 1] \o ss[m + 1]
        BY <1>4
      <4> QED
        BY <4>1, <4>2
    <3>3. f[m + 1] \in Seq(S) /\ Indexed(f[m + 1]) = upTo(m) \cup Indexed(ss[m + 1])
      BY <2>1, <3>1, <3>2, Joined
    <3>4. 1..(m + 1) = (1..m) \cup {m + 1}
      OBVIOUS
    <3> QED
      BY <3>3, <3>4
  <2> QED
    BY <2>2, <2>3
<1>7. 0 \in U
  OBVIOUS
<1> HIDE DEF U
<1>8. n \in U
  <2>1. Nat \subseteq U
    BY <1>6, <1>7, SetInduction
  <2> QED
    BY <1>3, <2>1
<1>9. CASE n # 0
  <2>1. n \in 1..n
    BY <1>3, <1>9
  <2>2. f[n] \in Seq(S) /\ Indexed(f[n]) = upTo(n)
    BY <1>8, <2>1 DEF U
  <2> QED
    BY <1>5, <1>9, <2>2
<1>10. CASE n = 0
  <2>1. FlattenSeq(ss) = ss /\ ss = <<>> /\ DOMAIN ss = {}
    BY <1>10 DEF FlattenSeq
  <2> QED
    BY <2>1 DEF Indexed
<1> QED
  BY <1>9, <1>10


-----------------------------------------------------------------------------
(* The rules of a demux set *)

\* What rs promises of the members ms: every rule dials one of them, the rule that always matches
\* being the last and for the plain member, and every other member has a rule its hellos can match.
Templated(ms, rs) ==
  /\ Len(rs) \in Nat /\ DOMAIN rs = 1..Len(rs)
  /\ \A i \in DOMAIN rs :
       /\ DOMAIN rs[i] = {"quic", "sni", "always", "port"}
       /\ \E j \in DOMAIN ms :
            /\ rs[i].port = ms[j].port
            /\ IF rs[i].always THEN SlotOf[ms[j].preset] = "plain" /\ i = Len(rs)
               ELSE SlotOf[ms[j].preset] # "plain"
  /\ \A j \in DOMAIN ms : \E i \in DOMAIN rs :
       /\ rs[i].port = ms[j].port
       /\ IF SlotOf[ms[j].preset] = "plain" THEN rs[i].always
          ELSE ~rs[i].always /\ (rs[i].quic => IsQUIC(ms[j].preset))

\* No two members of an installed set have a preset or a port in common, no two that keep their own
\* certificate an SNI, and the rules are those of the members.
WellBuilt(s) ==
  /\ Len(s.members) \in Nat /\ DOMAIN s.members = 1..Len(s.members)
  /\ \A i, j \in DOMAIN s.members :
       s.members[i].preset = s.members[j].preset \/ s.members[i].port = s.members[j].port => i = j
  /\ \A i \in DOMAIN s.members : s.members[i].preset \in Presets /\ s.members[i].sni # None
  /\ s.demux =>
       /\ \A i, j \in DOMAIN s.members :
            NeedsPEMTLS(s.members[i].preset) /\ NeedsPEMTLS(s.members[j].preset)
            /\ s.members[i].sni = s.members[j].sni => i = j
       /\ Templated(s.members, s.rules)

SetsInv == pool \subseteq Snis /\ \A n \in DOMAIN sets : WellBuilt(sets[n])


\* A sequence holds elements of the set it is over.
LEMMA Ranged ==
  ASSUME NEW S, NEW s \in Seq(S)
  PROVE  Indexed(s) \subseteq S
BY DEF Indexed

\* Each member of a group has one rule of its own or more, by its kind.
LEMMA SlotRulesAre ==
  ASSUME NEW m, SlotOf[m.preset] \in SlotKinds
  PROVE  /\ SlotRules(m) \in Seq({[MatchSni(m) EXCEPT !.quic = TRUE], MatchSni(m), MatchQuic(m)})
         /\ SlotOf[m.preset] \in {"quic", "plain"} => Indexed(SlotRules(m)) = {}
         /\ SlotOf[m.preset] \notin {"quic", "plain"} =>
              MatchSni(m) \in Indexed(SlotRules(m))
              \/ (SlotOf[m.preset] = "quicSni" /\ [MatchSni(m) EXCEPT !.quic = TRUE] \in Indexed(SlotRules(m)))
<1>1. CASE SlotOf[m.preset] \in {"reality", "tls", "naive"}
  <2>1. SlotRules(m) = <<MatchSni(m)>>
    BY <1>1 DEF SlotRules
  <2> HIDE DEF SlotRules
  <2> QED
    BY <1>1, <2>1 DEF Indexed
<1>2. CASE SlotOf[m.preset] = "dual"
  <2>1. SlotRules(m) = <<MatchSni(m), MatchQuic(m)>>
    BY <1>2 DEF SlotRules
  <2>2. SlotRules(m)[1] = MatchSni(m) /\ 1 \in DOMAIN SlotRules(m)
    BY <2>1
  <2> QED
    BY <1>2, <2>1, <2>2 DEF Indexed
<1>3. CASE SlotOf[m.preset] = "quicSni"
  <2> DEFINE q == [MatchSni(m) EXCEPT !.quic = TRUE]
  <2>1. SlotRules(m) = <<q>>
    BY <1>3 DEF SlotRules
  <2> HIDE DEF q, SlotRules
  <2>2. SlotRules(m) \in Seq({q, MatchSni(m), MatchQuic(m)}) /\ q \in Indexed(SlotRules(m))
    BY <2>1 DEF Indexed
  <2> QED
    BY <1>3, <2>2 DEF q
<1>4. CASE SlotOf[m.preset] \in {"quic", "plain"}
  <2>1. SlotRules(m) = <<>>
    BY <1>4 DEF SlotRules
  <2> QED
    BY <1>4, <2>1 DEF Indexed
<1> QED
  BY <1>1, <1>2, <1>3, <1>4 DEF SlotKinds

RuleFields == {"quic", "sni", "always", "port"}

\* buildDemuxTemplate keeps the promise of Templated.
LEMMA Templates ==
  ASSUME NEW ms, Len(ms) \in Nat, DOMAIN ms = 1..Len(ms),
         \A i \in DOMAIN ms : SlotOf[ms[i].preset] \in SlotKinds,
         Cardinality(OfKind(ms, "quic")) <= 1,
         \A i, j \in DOMAIN ms : SlotOf[ms[i].preset] = "plain" /\ SlotOf[ms[j].preset] = "plain" => i = j
  PROVE  Templated(ms, BuildDemuxTemplate(ms))
<1> DEFINE kind(i) == SlotOf[ms[i].preset]
           R == {MatchSni(ms[i]) : i \in DOMAIN ms} \cup {[MatchSni(ms[i]) EXCEPT !.quic = TRUE] : i \in DOMAIN ms}
                \cup {MatchQuic(ms[i]) : i \in DOMAIN ms} \cup {Always(ms[i]) : i \in DOMAIN ms}
           ss == [i \in DOMAIN ms |-> SlotRules(ms[i])]
           quics == OfKind(ms, "quic")
           plains == OfKind(ms, "plain")
           a == FlattenSeq(ss)
           b == IF quics = {} THEN <<>> ELSE <<MatchQuic(ms[Min(quics)])>>
           c == IF plains = {} THEN <<>> ELSE <<Always(ms[Max(plains)])>>
           rs == BuildDemuxTemplate(ms)
<1>1. \A i \in DOMAIN ms : SlotRules(ms[i]) \in Seq(R)
  <2> SUFFICES ASSUME NEW i \in DOMAIN ms PROVE SlotRules(ms[i]) \in Seq(R)
    OBVIOUS
  <2> DEFINE Q == {[MatchSni(ms[i]) EXCEPT !.quic = TRUE], MatchSni(ms[i]), MatchQuic(ms[i])}
  <2>1. SlotRules(ms[i]) \in Seq(Q)
    BY SlotRulesAre
  <2>2. Q \subseteq R
    OBVIOUS
  <2> HIDE DEF Q, R
  <2> QED
    BY <2>1, <2>2
<1>2. ss \in Seq(Seq(R)) /\ Len(ss) = Len(ms) /\ \A i \in DOMAIN ms : ss[i] = SlotRules(ms[i])
  <2> HIDE DEF R
  <2> QED
    BY <1>1
<1>3. a \in Seq(R) /\ Indexed(a) = UNION {Indexed(SlotRules(ms[i])) : i \in DOMAIN ms}
  <2>1. a \in Seq(R) /\ Indexed(a) = UNION {Indexed(ss[i]) : i \in 1..Len(ss)}
    BY <1>2, Flattened
  <2> HIDE DEF a, ss, R
  <2> QED
    BY <1>2, <2>1
<1>4. quics # {} => Min(quics) \in quics /\ \A i \in quics : i = Min(quics)
  <2>1. quics \subseteq Nat /\ IsFiniteSet(quics)
    <3>1. quics \subseteq 1..Len(ms)
      BY DEF OfKind
    <3>2. IsFiniteSet(1..Len(ms))
      BY FS_Interval
    <3> HIDE DEF quics
    <3>3. quics \subseteq Nat
      BY <3>1
    <3> QED
      BY <3>1, <3>2, <3>3, FS_Subset
  <2>2. quics # {} => Min(quics) \in quics
    BY <2>1, NatMinimum DEF Min
  <2>3. quics # {} => \E x : quics = {x}
    <3>1. Cardinality(quics) \in Nat /\ Cardinality(quics) <= 1
      BY <2>1, FS_CardinalityType
    <3>2. quics # {} => Cardinality(quics) = 1
      BY <2>1, <3>1, FS_EmptySet
    <3> QED
      BY <2>1, <3>2, FS_Singleton
  <2> QED
    BY <2>2, <2>3
<1>5. plains # {} => Max(plains) \in plains /\ \A i \in plains : i = Max(plains)
  <2>1. \A i, j \in plains : i = j /\ i \in Nat
    BY DEF OfKind
  <2> HIDE DEF plains
  <2>2. plains # {} => Max(plains) \in plains
    BY <2>1 DEF Max
  <2> QED
    BY <2>1, <2>2
<1>6. /\ b \in Seq(R) /\ Indexed(b) = {MatchQuic(ms[i]) : i \in quics}
      /\ c \in Seq(R) /\ Indexed(c) = {Always(ms[i]) : i \in plains} /\ (plains # {} => Len(c) = 1)
  <2>1. quics \subseteq DOMAIN ms /\ plains \subseteq DOMAIN ms
    BY DEF OfKind
  <2>2. b \in Seq(R) /\ Indexed(b) = {MatchQuic(ms[i]) : i \in quics}
    <3> HIDE DEF quics
    <3>1. CASE quics = {}
      BY <3>1 DEF Indexed
    <3>2. CASE quics # {}
      <4>1. b = <<MatchQuic(ms[Min(quics)])>> /\ quics = {Min(quics)} /\ MatchQuic(ms[Min(quics)]) \in R
        BY <1>4, <2>1, <3>2
      <4> HIDE DEF R, b
      <4> QED
        BY <4>1 DEF Indexed
    <3> QED
      BY <3>1, <3>2
  <2>3. c \in Seq(R) /\ Indexed(c) = {Always(ms[i]) : i \in plains} /\ (plains # {} => Len(c) = 1)
    <3> HIDE DEF plains
    <3>1. CASE plains = {}
      BY <3>1 DEF Indexed
    <3>2. CASE plains # {}
      <4>1. c = <<Always(ms[Max(plains)])>> /\ plains = {Max(plains)} /\ Always(ms[Max(plains)]) \in R
        BY <1>5, <2>1, <3>2
      <4> HIDE DEF R, c
      <4> QED
        BY <4>1 DEF Indexed
    <3> QED
      BY <3>1, <3>2
  <2> QED
    BY <2>2, <2>3
<1>7. rs = (a \o b) \o c
  BY DEF BuildDemuxTemplate
<1> HIDE DEF a, b, c, R, ss, rs, quics, plains
<1>8. /\ rs \in Seq(R) /\ a \o b \in Seq(R)
      /\ Indexed(a \o b) = Indexed(a) \cup Indexed(b) /\ Indexed(rs) = Indexed(a \o b) \cup Indexed(c)
  <2>1. a \in Seq(R) /\ b \in Seq(R) /\ c \in Seq(R)
    BY <1>3, <1>6
  <2>2. a \o b \in Seq(R) /\ Indexed(a \o b) = Indexed(a) \cup Indexed(b)
    BY <2>1, Joined
  <2> DEFINE ab == a \o b
  <2>3. ab \in Seq(R)
    BY <2>2
  <2> HIDE DEF ab
  <2>4. ab \o c \in Seq(R) /\ Indexed(ab \o c) = Indexed(ab) \cup Indexed(c)
    BY <2>1, <2>3, Joined
  <2> QED
    BY <1>7, <2>2, <2>4 DEF ab
<1>9. \A m : /\ DOMAIN MatchSni(m) = RuleFields /\ DOMAIN [MatchSni(m) EXCEPT !.quic = TRUE] = RuleFields
             /\ DOMAIN MatchQuic(m) = RuleFields /\ DOMAIN Always(m) = RuleFields
             /\ MatchSni(m).port = m.port /\ ~MatchSni(m).always /\ ~MatchSni(m).quic
             /\ [MatchSni(m) EXCEPT !.quic = TRUE].port = m.port /\ ~[MatchSni(m) EXCEPT !.quic = TRUE].always
             /\ MatchQuic(m).port = m.port /\ ~MatchQuic(m).always
             /\ Always(m).port = m.port /\ Always(m).always
  BY DEF MatchSni, MatchQuic, Always, RuleFields
<1>10. ASSUME NEW r \in Indexed(a \o b)
       PROVE  ~r.always /\ DOMAIN r = RuleFields /\ \E j \in DOMAIN ms : r.port = ms[j].port /\ kind(j) # "plain"
  <2>1. CASE r \in Indexed(a)
    <3>1. PICK j \in DOMAIN ms : r \in Indexed(SlotRules(ms[j]))
      BY <1>3, <2>1
    <3>2. kind(j) # "plain" /\ r \in {[MatchSni(ms[j]) EXCEPT !.quic = TRUE], MatchSni(ms[j]), MatchQuic(ms[j])}
      <4> DEFINE Q == {[MatchSni(ms[j]) EXCEPT !.quic = TRUE], MatchSni(ms[j]), MatchQuic(ms[j])}
      <4>1. SlotRules(ms[j]) \in Seq(Q) /\ (kind(j) \in {"quic", "plain"} => Indexed(SlotRules(ms[j])) = {})
        BY SlotRulesAre
      <4> HIDE DEF Q
      <4>2. Indexed(SlotRules(ms[j])) \subseteq Q
        BY <4>1, Ranged
      <4> QED
        BY <3>1, <4>1, <4>2 DEF Q
    <3>3. ~r.always /\ DOMAIN r = RuleFields /\ r.port = ms[j].port
      <4>1. CASE r = [MatchSni(ms[j]) EXCEPT !.quic = TRUE]
        BY <1>9, <4>1
      <4>2. CASE r = MatchSni(ms[j]) \/ r = MatchQuic(ms[j])
        BY <1>9, <4>2
      <4> QED
        BY <3>2, <4>1, <4>2
    <3> QED
      BY <3>2, <3>3
  <2>2. CASE r \in Indexed(b)
    <3>1. PICK j \in quics : r = MatchQuic(ms[j])
      BY <1>6, <2>2
    <3>2. j \in DOMAIN ms /\ kind(j) = "quic"
      BY DEF quics, OfKind
    <3> QED
      BY <1>9, <3>1, <3>2
  <2> QED
    BY <1>8, <2>1, <2>2
<1>11. ASSUME NEW i \in DOMAIN rs
       PROVE  /\ DOMAIN rs[i] = RuleFields
              /\ \E j \in DOMAIN ms : /\ rs[i].port = ms[j].port
                                      /\ IF rs[i].always THEN kind(j) = "plain" /\ i = Len(rs) ELSE kind(j) # "plain"
  <2>1. Len(rs) = Len(a \o b) + Len(c) /\ i \in 1..Len(rs) /\ Len(a \o b) \in Nat /\ Len(c) \in Nat
    BY <1>6, <1>7, <1>8
  <2>2. CASE i \in 1..Len(a \o b)
    <3>1. rs[i] = (a \o b)[i]
      BY <1>6, <1>7, <1>8, <2>2
    <3>2. rs[i] \in Indexed(a \o b)
      BY <1>8, <2>2, <3>1 DEF Indexed
    <3> QED
      BY <1>10, <3>2
  <2>3. CASE i \notin 1..Len(a \o b)
    <3>1. i - Len(a \o b) \in 1..Len(c) /\ Len(a \o b) + (i - Len(a \o b)) = i
      BY <2>1, <2>3
    <3>2. rs[i] = c[i - Len(a \o b)]
      BY <1>6, <1>7, <1>8, <2>1, <3>1
    <3>3. rs[i] \in Indexed(c)
      BY <1>6, <3>1, <3>2 DEF Indexed
    <3>4. PICK j \in plains : rs[i] = Always(ms[j])
      BY <1>6, <3>3
    <3>5. j \in DOMAIN ms /\ kind(j) = "plain"
      BY DEF plains, OfKind
    <3>6. Len(c) = 1
      BY <1>6, <3>4
    <3>7. i = Len(rs)
      BY <2>1, <3>1, <3>6
    <3> QED
      BY <1>9, <3>4, <3>5, <3>7
  <2> QED
    BY <2>2, <2>3
<1>12. ASSUME NEW j \in DOMAIN ms
       PROVE  \E r \in Indexed(rs) : /\ r.port = ms[j].port
                                     /\ IF kind(j) = "plain" THEN r.always
                                        ELSE ~r.always /\ (r.quic => IsQUIC(ms[j].preset))
  <2>1. CASE kind(j) = "plain"
    <3>1. Always(ms[j]) \in Indexed(rs)
      BY <1>6, <1>8, <2>1 DEF plains, OfKind
    <3> QED
      BY <1>9, <2>1, <3>1
  <2>2. CASE kind(j) = "quic"
    <3>1. MatchQuic(ms[j]) \in Indexed(rs)
      BY <1>6, <1>8, <2>2 DEF quics, OfKind
    <3> QED
      BY <1>9, <2>2, <3>1 DEF IsQUIC
  <2>3. CASE kind(j) \notin {"plain", "quic"}
    <3>1. PICK r \in Indexed(SlotRules(ms[j])) :
             r = MatchSni(ms[j]) \/ (kind(j) = "quicSni" /\ r = [MatchSni(ms[j]) EXCEPT !.quic = TRUE])
      BY <2>3, SlotRulesAre
    <3>2. r \in Indexed(rs)
      BY <1>3, <1>8
    <3> QED
      BY <1>9, <2>3, <3>1, <3>2 DEF IsQUIC
  <2> QED
    BY <2>1, <2>2, <2>3
<1>13. Len(rs) \in Nat /\ DOMAIN rs = 1..Len(rs)
  BY <1>8
<1>14. \A j \in DOMAIN ms : \E i \in DOMAIN rs :
          /\ rs[i].port = ms[j].port
          /\ IF kind(j) = "plain" THEN rs[i].always ELSE ~rs[i].always /\ (rs[i].quic => IsQUIC(ms[j].preset))
  BY <1>12 DEF Indexed
<1>15. Templated(ms, rs)
  BY <1>11, <1>13, <1>14 DEF Templated, RuleFields
<1> QED
  BY <1>15 DEF rs


-----------------------------------------------------------------------------
(* The demux reaches every member *)

\* The SNI a member is matched by.
Sni(n, m) == IF UsesReality(m.preset) THEN RealityOf(n, m).sni ELSE m.sni

\* The rules of the set n as they are built.
RulesOf(n) == [i \in DOMAIN sets[n].rules |-> SyncRule(n, sets[n].rules[i], assigned)]

\* A rule keeps what it matches but for the SNI, which is the one of the member it dials.
LEMMA Synced ==
  ASSUME NEW n \in DOMAIN sets, WellBuilt(sets[n]), sets[n].demux, NEW i \in DOMAIN sets[n].rules,
         NEW j \in DOMAIN sets[n].members, sets[n].rules[i].port = sets[n].members[j].port
  PROVE  /\ RulesOf(n)[i].sni = Sni(n, sets[n].members[j])
         /\ RulesOf(n)[i].quic = sets[n].rules[i].quic
         /\ RulesOf(n)[i].always = sets[n].rules[i].always
         /\ RulesOf(n)[i].port = sets[n].members[j].port
<1> DEFINE ms == sets[n].members
           r == sets[n].rules[i]
           x == MemberAt(ms, r.port)
<1>1. DOMAIN r = {"quic", "sni", "always", "port"}
  BY DEF WellBuilt, Templated
<1>2. ms[j] \in Indexed(ms) /\ \A y \in Indexed(ms) : y.port = r.port => y = ms[j]
  BY DEF WellBuilt, Indexed
<1>3. x = ms[j]
  BY <1>2 DEF MemberAt
<1>4. RulesOf(n)[i] = SyncRule(n, r, assigned)
  BY DEF RulesOf
<1>5. SyncRule(n, r, assigned) = [r EXCEPT !.sni = Sni(n, ms[j])]
  <2>1. SyncRule(n, r, assigned) = [r EXCEPT !.sni = IF UsesReality(x.preset) THEN assigned[<<n, x.preset>>].sni ELSE x.sni]
    BY DEF SyncRule
  <2> HIDE DEF x, r, ms
  <2> QED
    BY <1>3, <2>1 DEF Sni, RealityOf
<1> HIDE DEF r, ms
<1>6. [r EXCEPT !.sni = Sni(n, ms[j])].sni = Sni(n, ms[j])
  BY <1>1
<1>7. /\ [r EXCEPT !.sni = Sni(n, ms[j])].quic = r.quic /\ [r EXCEPT !.sni = Sni(n, ms[j])].always = r.always
      /\ [r EXCEPT !.sni = Sni(n, ms[j])].port = r.port
  BY <1>1
<1> QED
  BY <1>4, <1>5, <1>6, <1>7 DEF r, ms

\* Members other than the catch-all that are matched by the same SNI are the same, or shadowed.
LEMMA SniIsOwn ==
  ASSUME NEW n \in DOMAIN sets, WellBuilt(sets[n]), sets[n].demux,
         NEW i \in DOMAIN sets[n].members, NEW j \in DOMAIN sets[n].members,
         SlotOf[sets[n].members[i].preset] # "plain", SlotOf[sets[n].members[j].preset] # "plain",
         Sni(n, sets[n].members[i]) = Sni(n, sets[n].members[j]),
         ~Shadowed(n, sets[n].members[i])
  PROVE  i = j
<1> DEFINE ms == sets[n].members
<1>1. SUFFICES ASSUME i # j PROVE FALSE
  OBVIOUS
<1>2. ms[i] # ms[j] /\ ms[i] \in Indexed(ms) /\ ms[j] \in Indexed(ms)
  BY <1>1 DEF WellBuilt, Indexed
<1>3. \A k \in {i, j} : UsesReality(ms[k].preset) \/ NeedsPEMTLS(ms[k].preset)
  <2>1. \A k \in {i, j} : SlotOf[ms[k].preset] \in SlotKinds
    BY PublishAssumption DEF WellBuilt
  <2> QED
    BY <2>1 DEF SlotKinds, UsesReality, NeedsPEMTLS
<1> HIDE DEF ms
<1>4. CASE UsesReality(ms[i].preset)
  <2>1. RealityOf(n, ms[i]).sni = IF UsesReality(ms[j].preset) THEN RealityOf(n, ms[j]).sni ELSE ms[j].sni
    BY <1>4 DEF Sni, ms
  <2> QED
    BY <1>2, <1>4, <2>1 DEF Shadowed, ms
<1>5. CASE UsesReality(ms[j].preset)
  <2>1. RealityOf(n, ms[j]).sni = IF UsesReality(ms[i].preset) THEN RealityOf(n, ms[i]).sni ELSE ms[i].sni
    BY <1>5 DEF Sni, ms
  <2> QED
    BY <1>2, <1>5, <2>1 DEF Shadowed, ms
<1>6. CASE ~UsesReality(ms[i].preset) /\ ~UsesReality(ms[j].preset)
  <2>1. ms[i].sni = ms[j].sni /\ NeedsPEMTLS(ms[i].preset) /\ NeedsPEMTLS(ms[j].preset)
    BY <1>3, <1>6 DEF Sni, ms
  <2> QED
    BY <1>1, <2>1 DEF WellBuilt, ms
<1> QED
  BY <1>4, <1>5, <1>6

\* What a rule has to match.
Hits(rules, h) == {i \in DOMAIN rules : \/ rules[i].always
                                        \/ (rules[i].quic => h.quic) /\ rules[i].sni \in {None, h.sni}}

LEMMA FirstHit ==
  ASSUME NEW rules, NEW h, DOMAIN rules \subseteq Nat, NEW p, Hits(rules, h) # {},
         \A i \in Hits(rules, h) : (\A k \in Hits(rules, h) : i <= k) => rules[i].port = p
  PROVE  Route(rules, h) = p
<1> DEFINE S == Hits(rules, h)
<1>1. S \subseteq Nat /\ S # {}
  BY DEF Hits
<1>2. Route(rules, h) = rules[Least(S)].port
  BY <1>1 DEF Route, Hits
<1> HIDE DEF S
<1>3. Least(S) \in S /\ \A k \in S : Least(S) <= k
  BY <1>1, NatMinimum DEF Least
<1> QED
  BY <1>2, <1>3 DEF S

\* The hellos sent to a member.
LEMMA HellosAre ==
  ASSUME NEW m, NEW sni, SlotOf[m.preset] \in SlotKinds, NEW h \in Hellos(m, sni)
  PROVE  IF SlotOf[m.preset] = "plain" THEN ~h.quic /\ h.sni = None
         ELSE h.sni = sni /\ (IsQUIC(m.preset) => h.quic)
<1>1. CASE SlotOf[m.preset] = "plain"
  BY <1>1 DEF Hellos
<1>2. CASE SlotOf[m.preset] = "dual"
  BY <1>2 DEF Hellos, IsQUIC
<1>3. CASE SlotOf[m.preset] \notin {"plain", "dual"}
  BY <1>3 DEF Hellos
<1> QED
  BY <1>1, <1>2, <1>3

\* Every hello meant for a member is routed to its port.
LEMMA Routed ==
  ASSUME NEW n \in DOMAIN sets, WellBuilt(sets[n]), sets[n].demux,
         \A j \in DOMAIN sets[n].members : Sni(n, sets[n].members[j]) # None,
         NEW c \in DOMAIN sets[n].members, ~Shadowed(n, sets[n].members[c]),
         NEW h \in SmokeHellos(n, sets[n].members[c])
  PROVE  Route(RulesOf(n), h) = sets[n].members[c].port
<1> DEFINE ms == sets[n].members
           rs == sets[n].rules
           m == ms[c]
           S == Hits(RulesOf(n), h)
<1>1. /\ Len(rs) \in Nat /\ DOMAIN rs = 1..Len(rs) /\ DOMAIN RulesOf(n) = DOMAIN rs
      /\ \A i \in DOMAIN rs : \E j \in DOMAIN ms :
           /\ rs[i].port = ms[j].port
           /\ IF rs[i].always THEN SlotOf[ms[j].preset] = "plain" /\ i = Len(rs)
              ELSE SlotOf[ms[j].preset] # "plain"
      /\ \A j \in DOMAIN ms : \E i \in DOMAIN rs :
           /\ rs[i].port = ms[j].port
           /\ IF SlotOf[ms[j].preset] = "plain" THEN rs[i].always
              ELSE ~rs[i].always /\ (rs[i].quic => IsQUIC(ms[j].preset))
  BY DEF WellBuilt, Templated, RulesOf
<1>2. SlotOf[m.preset] \in SlotKinds
  BY PublishAssumption DEF WellBuilt
<1>3. IF SlotOf[m.preset] = "plain" THEN ~h.quic /\ h.sni = None
      ELSE h.sni = Sni(n, m) /\ (IsQUIC(m.preset) => h.quic)
  <2>1. SmokeHellos(n, m) = Hellos(m, Sni(n, m))
    BY DEF SmokeHellos, Sni
  <2> HIDE DEF m
  <2> QED
    BY <1>2, <2>1, HellosAre DEF m
<1>4. ASSUME NEW i \in S
      PROVE  \E j \in DOMAIN ms :
               /\ rs[i].port = ms[j].port /\ RulesOf(n)[i].port = ms[j].port
               /\ IF rs[i].always THEN SlotOf[ms[j].preset] = "plain" /\ i = Len(rs)
                  ELSE SlotOf[ms[j].preset] # "plain" /\ SlotOf[m.preset] # "plain" /\ j = c
  <2>1. i \in DOMAIN rs
    BY <1>1 DEF Hits
  <2>2. PICK j \in DOMAIN ms : /\ rs[i].port = ms[j].port
                               /\ IF rs[i].always THEN SlotOf[ms[j].preset] = "plain" /\ i = Len(rs)
                                  ELSE SlotOf[ms[j].preset] # "plain"
    BY <1>1, <2>1
  <2>3. /\ RulesOf(n)[i].sni = Sni(n, ms[j]) /\ RulesOf(n)[i].always = rs[i].always
        /\ RulesOf(n)[i].port = ms[j].port
    BY <2>1, <2>2, Synced
  <2>4. CASE ~rs[i].always
    <3>1. Sni(n, ms[j]) \in {None, h.sni}
      BY <2>3, <2>4 DEF Hits
    <3>2. Sni(n, ms[j]) = h.sni /\ h.sni # None
      BY <3>1
    <3>3. SlotOf[m.preset] # "plain" /\ h.sni = Sni(n, m)
      BY <1>3, <3>2
    <3>4. j = c
      BY <2>2, <2>4, <3>2, <3>3, SniIsOwn
    <3> QED
      BY <2>2, <2>3, <2>4, <3>3, <3>4
  <2> QED
    BY <2>2, <2>3, <2>4
<1>5. PICK i \in DOMAIN rs : /\ rs[i].port = m.port
                             /\ IF SlotOf[m.preset] = "plain" THEN rs[i].always
                                ELSE ~rs[i].always /\ (rs[i].quic => IsQUIC(m.preset))
  BY <1>1
<1>6. /\ RulesOf(n)[i].sni = Sni(n, m) /\ RulesOf(n)[i].always = rs[i].always
      /\ RulesOf(n)[i].quic = rs[i].quic /\ RulesOf(n)[i].port = m.port
  BY <1>5, Synced
<1>7. i \in S
  BY <1>1, <1>3, <1>5, <1>6 DEF Hits
<1>8. ASSUME NEW k \in S, \A l \in S : k <= l
      PROVE  RulesOf(n)[k].port = m.port
  <2>1. PICK j \in DOMAIN ms :
           /\ rs[k].port = ms[j].port /\ RulesOf(n)[k].port = ms[j].port
           /\ IF rs[k].always THEN SlotOf[ms[j].preset] = "plain" /\ k = Len(rs)
              ELSE SlotOf[ms[j].preset] # "plain" /\ SlotOf[m.preset] # "plain" /\ j = c
    BY <1>4
  <2>2. CASE ~rs[k].always
    BY <2>1, <2>2
  <2>3. CASE rs[k].always
    <3>1. k <= i /\ i \in 1..Len(rs) /\ k = Len(rs)
      BY <1>1, <1>5, <1>7, <1>8, <2>1, <2>3
    <3>2. k = i
      BY <1>1, <3>1
    <3> QED
      BY <1>6, <3>2
  <2> QED
    BY <2>2, <2>3
<1> HIDE DEF m
<1>9. DOMAIN RulesOf(n) \subseteq Nat
  BY <1>1
<1>10. Route(RulesOf(n), h) = m.port
  BY <1>7, <1>8, <1>9, FirstHit
<1> QED
  BY <1>10 DEF m


\* The slots of an install are presets.
LEMMA ChosenAre ==
  ASSUME NEW b \in Installs
  PROVE  Chosen(b) \in Seq(Presets)
<1> DEFINE drop == b.demux /\ \E p \in Indexed(b.slots) : ClaimsQUIC(p)
           ss == [i \in DOMAIN b.slots |-> IF drop /\ IsQUIC(b.slots[i]) THEN <<>> ELSE <<b.slots[i]>>]
<1>1. b.slots \in Seq(Presets)
  BY PublishAssumption DEF Install
<1>2. \A p \in Presets : <<>> \in Seq(Presets) /\ <<p>> \in Seq(Presets)
  OBVIOUS
<1> HIDE DEF drop
<1>3. ss \in Seq(Seq(Presets))
  <2>1. Len(b.slots) \in Nat /\ DOMAIN b.slots = 1..Len(b.slots) /\ \A i \in DOMAIN b.slots : b.slots[i] \in Presets
    BY <1>1
  <2>2. \A i \in DOMAIN b.slots : (IF drop /\ IsQUIC(b.slots[i]) THEN <<>> ELSE <<b.slots[i]>>) \in Seq(Presets)
    BY <1>2, <2>1
  <2> QED
    BY <2>1, <2>2
<1>4. Chosen(b) = FlattenSeq(ss)
  BY DEF Chosen, drop
<1> HIDE DEF ss
<1> QED
  BY <1>3, <1>4, Flattened

\* An installed set is well built.
LEMMA Installed ==
  ASSUME pool \subseteq Snis, NEW b \in Installs, NEW snis \in AssignSlotSNIs(b),
         Allocations(Len(Chosen(b))) # {}, ValidateSet(BuildInstall(b, snis))
  PROVE  WellBuilt(BuildInstall(b, snis))
<1> DEFINE ms == Members(b, snis)
           s == BuildInstall(b, snis)
           slots == Chosen(b)
           ports == AllocateMemberPorts(Len(slots))
           ssl(p) == IF NeedsPEMTLS(p) /\ b.ssl # None THEN b.ssl ELSE Default
           sni(p) == IF p \in DOMAIN snis THEN snis[p] ELSE ServerName(profiles, ssl(p))
<1>1. s = [demux |-> b.demux, members |-> ms, rules |-> IF b.demux THEN BuildDemuxTemplate(ms) ELSE <<>>]
  BY DEF BuildInstall
<1>2. slots \in Seq(Presets)
  BY ChosenAre
<1>3. ms = [i \in DOMAIN slots |-> [preset |-> slots[i], port |-> ports[i], ssl |-> ssl(slots[i]), sni |-> sni(slots[i])]]
  BY DEF Members
<1>4. \A i, j \in 1..Len(slots) : ports[i] = ports[j] => i = j
  <2>1. ports \in Allocations(Len(slots))
    BY DEF AllocateMemberPorts
  <2> QED
    BY <2>1 DEF Allocations
<1>5. ASSUME NEW p \in Presets PROVE sni(p) # None
  <2>1. CASE p \in DOMAIN snis
    <3>1. snis[p] \in Snis
      BY <2>1 DEF AssignSlotSNIs
    <3> QED
      BY <2>1, <3>1, PublishAssumption
  <2>2. CASE p \notin DOMAIN snis
    <3>1. ssl(p) \in Profiles
      BY PublishAssumption DEF Install
    <3> HIDE DEF ssl
    <3> QED
      BY <2>2, <3>1, PublishAssumption DEF ServerName
  <2> QED
    BY <2>1, <2>2
<1> HIDE DEF ms, slots, ports, ssl, sni
<1>6. /\ Len(ms) \in Nat /\ DOMAIN ms = 1..Len(ms) /\ Len(ms) = Len(slots) /\ DOMAIN slots = DOMAIN ms
      /\ \A i \in DOMAIN ms : ms[i].preset = slots[i] /\ slots[i] \in Presets /\ ms[i].port = ports[i]
                              /\ ms[i].sni = sni(slots[i])
  BY <1>2, <1>3
<1>7. /\ Cardinality(OfKind(ms, "quic")) <= 1
      /\ \A i, j \in DOMAIN ms : ms[i].preset = ms[j].preset => i = j
      /\ b.demux => \A i, j \in DOMAIN ms :
           i # j /\ NeedsPEMTLS(ms[i].preset) /\ NeedsPEMTLS(ms[j].preset) => ms[i].sni # ms[j].sni
  BY <1>1 DEF ValidateSet
<1>8. b.demux => Templated(ms, BuildDemuxTemplate(ms))
  <2>1. \A i \in DOMAIN ms : SlotOf[ms[i].preset] \in SlotKinds
    BY <1>6, PublishAssumption
  <2>2. \A i, j \in DOMAIN ms : SlotOf[ms[i].preset] = "plain" /\ SlotOf[ms[j].preset] = "plain" => i = j
    BY <1>6, OnePlain DEF slots
  <2> QED
    BY <1>6, <1>7, <2>1, <2>2, Templates
<1>9. \A i, j \in DOMAIN ms : ms[i].preset = ms[j].preset \/ ms[i].port = ms[j].port => i = j
  BY <1>4, <1>6, <1>7
<1>10. \A i \in DOMAIN ms : ms[i].preset \in Presets /\ ms[i].sni # None
  BY <1>5, <1>6
<1>11. WellBuilt(s)
  <2>1. s.members = ms /\ s.demux = b.demux /\ (b.demux => s.rules = BuildDemuxTemplate(ms))
    BY <1>1
  <2> HIDE DEF s
  <2> QED
    BY <1>6, <1>7, <1>8, <1>9, <1>10, <2>1 DEF WellBuilt
<1> QED
  BY <1>11

\* Only an install changes the sets, and what anybody puts in the pool are domain names.
LEMMA SetsStays == SetsInv /\ [Next]_vars => SetsInv'
<1> SUFFICES ASSUME SetsInv, [Next]_vars PROVE SetsInv'
  OBVIOUS
<1>1. Defaults \subseteq Snis /\ \A P \in Pools : P \subseteq Snis
  BY PublishAssumption
<1>2. pool \subseteq Snis /\ EffectivePool(pool) \subseteq Snis
  BY <1>1 DEF SetsInv, EffectivePool
<1>3. SUFFICES pool' \subseteq Snis /\ \A n \in DOMAIN sets' : WellBuilt(sets'[n])
  BY DEF SetsInv, WellBuilt, Templated, NeedsPEMTLS, IsQUIC
<1>4. ASSUME UNCHANGED sets PROVE \A n \in DOMAIN sets' : WellBuilt(sets'[n])
  BY <1>4 DEF SetsInv
<1>5. CASE UNCHANGED vars
  BY <1>2, <1>4, <1>5 DEF vars, stores
<1>6. ASSUME NEW t \in Clients, HandleInstall(t)
      PROVE  pool' \subseteq Snis /\ \A n \in DOMAIN sets' : WellBuilt(sets'[n])
  <2>1. PICK b \in Installs : \E snis \in AssignSlotSNIs(b) :
          /\ Allocations(Len(Chosen(b))) # {} /\ ValidateSet(BuildInstall(b, snis))
          /\ sets' = With(sets, b.name, BuildInstall(b, snis)) /\ pool' = EffectivePool(pool)
    BY <1>6 DEF HandleInstall
  <2>2. PICK s : WellBuilt(s) /\ sets' = With(sets, b.name, s)
    BY <1>2, <2>1, Installed
  <2>3. \A n \in DOMAIN sets' : sets'[n] = IF n = b.name THEN s ELSE sets[n]
    BY <2>2 DEF With
  <2>4. \A n \in DOMAIN sets' : n = b.name \/ n \in DOMAIN sets
    BY <2>2 DEF With
  <2> QED
    BY <1>2, <2>1, <2>2, <2>3, <2>4 DEF SetsInv
<1>7. ASSUME NEW t \in Clients, HandleRealityPut(t)
      PROVE  UNCHANGED sets /\ pool' \subseteq Snis
  BY <1>1, <1>7 DEF HandleRealityPut
<1>8. ASSUME NEW t \in Clients, RematRead(t)
      PROVE  UNCHANGED sets /\ pool' \subseteq Snis
  BY <1>2, <1>8 DEF RematRead
<1>9. ASSUME NEW t \in Clients,
             \/ HandleSetsActivate(t) \/ HandleSetsDeactivate(t) \/ SaveRealityAssignments(t)
             \/ HandleSSLCreate(t) \/ HandleSSLPut(t) \/ HandleSSLRegenerate(t) \/ UpsertSSLProfile(t)
             \/ HandleSSLDelete(t) \/ RemoveSSLProfile(t) \/ HandleSub(t) \/ HandleStatus(t)
             \/ HandleSmoke(t) \/ SmokeReads(t) \/ SubEnsures(t)
             \/ RematReturns(t) \/ RematApply(t) \/ Undo(t)
      PROVE  UNCHANGED <<sets, pool>>
  BY <1>9 DEF HandleSetsActivate, HandleSetsDeactivate, SaveRealityAssignments, HandleSSLCreate, HandleSSLPut,
     HandleSSLRegenerate, UpsertSSLProfile, HandleSSLDelete, RemoveSSLProfile, HandleSub, HandleStatus, HandleSmoke,
     SmokeReads, SubEnsures, RematReturns, RematApply, Undo, stores
<1> QED
  BY <1>2, <1>4, <1>5, <1>6, <1>7, <1>8, <1>9 DEF Next

\* SetsInv is always true.
LEMMA SetsAlways == Spec => []SetsInv
<1>1. Init => SetsInv
  BY DEF Init, SetsInv
<1> QED
  BY <1>1, SetsStays, PTL DEF Spec

\* Every Reality member of an active set is one of RealityMembers: no set has more members than
\* there are presets.
LEMMA RealityListed ==
  ASSUME NEW n \in ActiveSets, WellBuilt(sets[n]), NEW j \in DOMAIN sets[n].members,
         UsesReality(sets[n].members[j].preset)
  PROVE  <<n, j>> \in RealityMembers(ActiveSets)
<1> DEFINE ms == sets[n].members
           f == [i \in 1..Len(ms) |-> ms[i].preset]
<1>1. /\ Len(ms) \in Nat /\ DOMAIN ms = 1..Len(ms) /\ f \in [1..Len(ms) -> Presets]
      /\ \A i, k \in 1..Len(ms) : f[i] = f[k] => i = k
  BY DEF WellBuilt
<1>2. IsFiniteSet(Presets) /\ Cardinality(Presets) \in Nat
  BY PublishAssumption, FS_CardinalityType
<1> HIDE DEF f, ms
<1>3. IsFiniteSet(1..Len(ms)) /\ Cardinality(1..Len(ms)) = Len(ms)
  <2> DEFINE N == Len(ms)
  <2>1. N \in Nat
    BY <1>1
  <2> HIDE DEF N
  <2>2. IsFiniteSet(1..N) /\ Cardinality(1..N) = IF 1 > N THEN 0 ELSE N - 1 + 1
    BY <2>1, FS_Interval
  <2>3. IsFiniteSet(1..N) /\ Cardinality(1..N) = N
    BY <2>1, <2>2
  <2> QED
    BY <2>3 DEF N
<1>4. ~(Cardinality(Presets) < Len(ms))
  BY <1>1, <1>2, <1>3, FS_PigeonHole
<1>5. j \in 1..Cardinality(Presets)
  BY <1>1, <1>2, <1>4 DEF ms
<1> QED
  BY <1>5 DEF RealityMembers

\* THEOREM.  When no request failed, a smoke probe of any member of any active set reaches the
\* inbound it is meant for, unless the member shares its SNI with a Reality member: whatever the
\* slots, ports and SNIs of the sets, the reassignments of Reality SNIs, and the profiles.
THEOREM ProbesReach == Spec => []ProbeReaches
<1>1. SetsInv /\ Shape /\ BoxFresh /\ PoolHonoured => ProbeReaches
  <2> SUFFICES ASSUME SetsInv, Shape, BoxFresh, PoolHonoured, Settled, NEW n \in ActiveSets,
                      NEW m \in Indexed(sets[n].members), ~Shadowed(n, m), NEW h \in SmokeHellos(n, m),
                      NEW x \in Indexed(running.cfg[n].inbounds), x.preset = m.preset
               PROVE  x.port = IF running.cfg[n].demux THEN Route(running.cfg[n].rules, h) ELSE m.port
    BY DEF ProbeReaches, Reached
  <2>1. n \in DOMAIN sets /\ WellBuilt(sets[n])
    BY DEF SetsInv, ActiveSets
  <2>2. running.cfg[n] =
          [demux    |-> sets[n].demux,
           inbounds |-> [i \in DOMAIN sets[n].members |-> BuildInbound(n, sets[n].members[i], ActiveSets, assigned, profiles)],
           rules    |-> RulesOf(n)]
    <3>1. running.cfg = Build(ActiveSets, assigned, profiles)
      BY DEF BoxFresh
    <3> QED
      BY <3>1 DEF Build, RulesOf
  <2>3. PICK c \in DOMAIN sets[n].members : m = sets[n].members[c]
    BY DEF Indexed
  <2>4. PICK i \in DOMAIN sets[n].members : x = BuildInbound(n, sets[n].members[i], ActiveSets, assigned, profiles)
    BY <2>2 DEF Indexed
  <2>5. x.preset = sets[n].members[i].preset /\ x.port = sets[n].members[i].port
    BY <2>4 DEF BuildInbound
  <2>6. x.port = m.port
    BY <2>1, <2>3, <2>5 DEF WellBuilt
  <2>7. ASSUME NEW j \in DOMAIN sets[n].members PROVE Sni(n, sets[n].members[j]) # None
    <3>1. CASE UsesReality(sets[n].members[j].preset)
      <4>1. <<n, j>> \in RealityMembers(ActiveSets)
        BY <2>1, <3>1, RealityListed
      <4>2. RealityOf(n, sets[n].members[j]).sni \in pool
        BY <4>1 DEF PoolHonoured
      <4> QED
        BY <3>1, <4>2, PublishAssumption DEF Sni, SetsInv
    <3>2. CASE ~UsesReality(sets[n].members[j].preset)
      BY <2>1, <3>2 DEF Sni, WellBuilt
    <3> QED
      BY <3>1, <3>2
  <2>8. CASE sets[n].demux
    <3>1. Route(RulesOf(n), h) = m.port
      BY <2>1, <2>3, <2>7, <2>8, Routed
    <3> QED
      BY <2>2, <2>6, <2>8, <3>1
  <2>9. CASE ~sets[n].demux
    BY <2>2, <2>6, <2>9
  <2> QED
    BY <2>8, <2>9
<1>2. IInv => Shape
  BY DEF IInv
<1> QED
  BY <1>1, <1>2, SetsAlways, Invariant, BoxIsFresh, PoolIsHonoured, PTL


\* A member of a demux set whose inbound and rule name its own SNI, and whose subscription the one of
\* its SSL profile.
Renamed(n, m) ==
  /\ sets[n].demux /\ ~UsesReality(m.preset)
  /\ HasProfile(profiles, m) /\ ServerName(profiles, m.ssl) # m.sni

\* THEOREM.  When no request failed, a client that uses its subscription reaches every member, too,
\* unless an SSL profile gives it a name other than the SNI of the member: which is all that is wrong
\* with ClientReaches.
THEOREM SubscriptionsReach ==
  Spec => [](Settled => \A n \in ActiveSets : \A m \in Indexed(sets[n].members) :
               Shadowed(n, m) \/ Renamed(n, m) \/ Reached(n, m, SubHellos(n, m)))
<1>1. BoxFresh /\ ProbeReaches /\ Settled => \A n \in ActiveSets : \A m \in Indexed(sets[n].members) :
                                   Shadowed(n, m) \/ Renamed(n, m) \/ Reached(n, m, SubHellos(n, m))
  <2> SUFFICES ASSUME BoxFresh, ProbeReaches, Settled, NEW n \in ActiveSets, NEW m \in Indexed(sets[n].members),
                      ~Shadowed(n, m), ~Renamed(n, m)
               PROVE  Reached(n, m, SubHellos(n, m))
    OBVIOUS
  <2>1. Reached(n, m, SmokeHellos(n, m))
    BY DEF ProbeReaches
  <2>2. CASE sets[n].demux
    <3>1. UsesReality(m.preset) \/ ~HasProfile(profiles, m) \/ ServerName(profiles, m.ssl) = m.sni
      BY <2>2 DEF Renamed
    <3>2. SubHellos(n, m) = SmokeHellos(n, m)
      BY <3>1 DEF SubHellos, SmokeHellos
    <3> QED
      BY <2>1, <3>2
  <2>3. CASE ~sets[n].demux
    <3>1. running.cfg[n].demux = sets[n].demux
      BY DEF BoxFresh, Build
    <3>2. \A sni : \E h : h \in Hellos(m, sni)
      <4>1. CASE SlotOf[m.preset] = "plain"
        BY <4>1 DEF Hellos
      <4>2. CASE SlotOf[m.preset] = "dual"
        BY <4>2 DEF Hellos
      <4>3. CASE SlotOf[m.preset] \notin {"plain", "dual"}
        BY <4>3 DEF Hellos
      <4> QED
        BY <4>1, <4>2, <4>3
    <3>3. PICK h : h \in SmokeHellos(n, m)
      BY <3>2 DEF SmokeHellos
    <3> QED
      BY <2>1, <2>3, <3>1, <3>3 DEF Reached
  <2> QED
    BY <2>2, <2>3
<1> QED
  BY <1>1, BoxIsFresh, ProbesReach, PTL

=============================================================================
