---------------------------- MODULE WgHubProofs -----------------------------
(***************************************************************************)
(* Proofs about WgHub, for every value of its constants: any number of     *)
(* clients, users and requests.                                            *)
(*                                                                         *)
(* Shape     what the hub, the users and the goroutines keep has its form; *)
(* KeyInv    every pathology key in use is one wg_hub.json has held;       *)
(* ServeInv  somebody is about to rebuild, or what is being applied, or    *)
(*           else what runs, is what the stores want;                      *)
(* CopyInv   a copy about to be saved keeps the key of the hub it is a     *)
(*           copy of, unless the body named one.                           *)
(***************************************************************************)
EXTENDS WgHub, FiniteSetTheorems, TLAPS

Fields    == {"kind", "hub", "base", "own", "cfg"}
HubFields == {"on", "profile", "port", "exit", "keyed", "obf"}

IsBlock(b) ==
  /\ DOMAIN b = {"style", "rev", "key"}
  /\ b.style \in Styles \cup {"none"} /\ b.rev \in Nat /\ b.key \in Nat

IsHub(h) == DOMAIN h = HubFields /\ h.on \in BOOLEAN /\ h.profile \in Profiles /\ IsBlock(h.obf)

Shape ==
  /\ DOMAIN pc = Clients /\ DOMAIN job = Clients
  /\ \A t \in Clients : /\ DOMAIN job[t] = Fields
                        /\ IsHub(job[t].hub) /\ IsHub(job[t].base)
                        /\ pc[t] = "apply" => sMu = t
  /\ IsHub(hub) /\ made \in Nat
  /\ DOMAIN users = Users
  /\ \A u \in Users : DOMAIN users[u] = {"is", "keyed", "psk"} /\ users[u].psk \in Nat

\* No key is in use that wg_hub.json has not held.
KeyInv ==
  /\ IsFiniteSet(given)
  /\ KeysOf(hub) \subseteq given
  /\ \A u \in Users : users[u].psk \in given \cup {NoKey}

\* The stores want this of the box, and can have it.
Wanted   == BuildWireGuardEndpoint(hub, users)
Complete ==
  /\ hub.keyed /\ (NeedsObfuscation(hub.profile) => HasObfuscation(hub))
  /\ \A u \in EligibleUsers : users[u].keyed

ServeInv ==
  hub.on /\ ~erred /\ (\A t \in Clients : pc[t] # "remat") =>
    /\ Complete
    /\ \A t \in Clients : pc[t] = "apply" => job[t].cfg = Wanted
    /\ (\A t \in Clients : pc[t] # "apply") => running = Wanted

\* The hub b is of pathology and has a key, and h is of pathology.
Stays(b, h) == b.profile = "pathology" /\ HasObfuscation(b) /\ h.profile = "pathology"

CopyInv == \A t \in Clients :
  pc[t] = "save" /\ ~job[t].own /\ Stays(job[t].base, job[t].hub) => job[t].hub.obf.key = job[t].base.obf.key

-----------------------------------------------------------------------------
(* Blocks and hubs *)

LEMMA Blocks ==
  /\ IsBlock(NoBlock)
  /\ \A b, mode : \A fresh \in Nat : IsBlock(Bundle(b, mode, fresh)) /\ Bundle(b, mode, fresh) # NoBlock
  /\ \A b, auto : \A fresh \in Nat \ {0} : IsBlock(b) =>
       LET r == RegeneratePathology(b, auto, fresh) IN
       IsBlock(r) /\ r # NoBlock /\ r.key # NoKey /\ (b.key # NoKey => r.key = b.key)
<1>1. IsBlock(NoBlock)
  BY DEF IsBlock, NoBlock, NoKey
<1>2. ASSUME NEW b, NEW mode, NEW fresh \in Nat
      PROVE  IsBlock(Bundle(b, mode, fresh)) /\ Bundle(b, mode, fresh) # NoBlock
  <2>1. Bundle(b, mode, fresh).style \in {"sugar", "manual"}
    BY DEF Bundle
  <2> QED
    BY <2>1 DEF Bundle, IsBlock, NoBlock, NoKey, Styles
<1>3. ASSUME NEW b, NEW auto, NEW fresh \in Nat \ {0}, IsBlock(b)
      PROVE  LET r == RegeneratePathology(b, auto, fresh) IN
             IsBlock(r) /\ r # NoBlock /\ r.key # NoKey /\ (b.key # NoKey => r.key = b.key)
  BY <1>3 DEF RegeneratePathology, IsBlock, NoBlock, NoKey, Styles
<1> QED
  BY <1>1, <1>2, <1>3

LEMMA ReprofiledHub ==
  ASSUME NEW h, IsHub(h), NEW p \in Profiles
  PROVE  LET g == Reprofiled(h, p) IN
         IsHub(g) /\ g.on = h.on /\ g.profile = p /\ (p = h.profile => g.obf = h.obf)
BY Blocks DEF Reprofiled, IsHub, HubFields

\* mergeWgObfuscation never wipes a pathology key.
LEMMA MergedHub ==
  ASSUME NEW h, IsHub(h), NEW nested, IsBlock(nested)
  PROVE  LET g == MergeWgObfuscation(h, nested) IN
         /\ IsHub(g) /\ g.on = h.on /\ g.profile = h.profile
         /\ Stays(h, h) /\ nested.key = NoKey => Stays(g, g) /\ g.obf.key = h.obf.key
<1> DEFINE g == MergeWgObfuscation(h, nested)
<1>1. IsBlock(MergeAWGMap(h.obf, nested))
  BY DEF MergeAWGMap, IsBlock, Styles, NoKey
<1>2. /\ IsBlock(MergePathologyMap(h.obf, nested))
      /\ MergePathologyMap(h.obf, nested).key = IF nested.key # NoKey THEN nested.key ELSE h.obf.key
  BY DEF MergePathologyMap, IsBlock, IsHub
<1>3. \/ ~(nested # NoBlock /\ NeedsObfuscation(h.profile)) /\ g.obf = h.obf
      \/ h.profile \in AWG /\ g.obf = MergeAWGMap(h.obf, nested)
      \/ h.profile = "pathology" /\ g.obf = MergePathologyMap(h.obf, nested)
  BY DEF MergeWgObfuscation, IsHub, HubFields, NeedsObfuscation, Profiles
<1>4. IsHub(g) /\ g.on = h.on /\ g.profile = h.profile
  <2>1. /\ DOMAIN g = HubFields /\ g.on = h.on /\ g.profile = h.profile
    BY DEF MergeWgObfuscation, IsHub, HubFields
  <2> QED
    BY <1>1, <1>2, <1>3, <2>1 DEF IsHub
<1>5. ASSUME Stays(h, h), nested.key = NoKey
      PROVE  Stays(g, g) /\ g.obf.key = h.obf.key
  <2>1. h.profile = "pathology" /\ h.obf.key # NoKey
    BY <1>5 DEF Stays, HasObfuscation
  <2>2. g.obf.key = h.obf.key
    BY <1>2, <1>3, <1>5, <2>1 DEF AWG
  <2>3. g.obf # NoBlock
    BY <2>1, <2>2 DEF NoBlock
  <2> QED
    BY <1>4, <2>1, <2>2, <2>3 DEF Stays, HasObfuscation
<1> QED
  BY <1>4, <1>5

\* ensureWgHubSecrets leaves nothing of the hub missing, and keeps a pathology key.
LEMMA EnsuredHub ==
  ASSUME NEW h, IsHub(h), NEW force \in BOOLEAN, NEW fresh \in Nat \ {0}
  PROVE  LET g == EnsureWgHubSecrets(h, force, fresh) IN
         /\ IsHub(g) /\ g.on = h.on /\ g.profile = h.profile /\ g.keyed = TRUE
         /\ NeedsObfuscation(g.profile) => HasObfuscation(g)
         /\ Stays(h, h) => g.obf.key = h.obf.key
<1> DEFINE g == EnsureWgHubSecrets(h, force, fresh)
<1>1. \/ h.profile = "plain" /\ g.obf = NoBlock
      \/ h.profile = "pathology" /\ ~HasObfuscation(h) /\ g.obf = RegeneratePathology(NoBlock, TRUE, fresh)
      \/ h.profile \in AWG /\ g.obf = Bundle(h.obf, "", fresh)
      \/ HasObfuscation(h) /\ g.obf = h.obf
  <2>1. g.obf = CASE ~NeedsObfuscation(h.profile) -> NoBlock
                  [] h.profile = "pathology" /\ ~HasObfuscation(h) -> RegeneratePathology(NoBlock, TRUE, fresh)
                  [] h.profile \in AWG /\ (force \/ ~HasObfuscation(h)) -> Bundle(h.obf, "", fresh)
                  [] OTHER -> h.obf
    BY DEF EnsureWgHubSecrets, IsHub, HubFields
  <2>2. h.profile \in {"plain", "pathology"} \cup AWG /\ "plain" \notin AWG /\ "pathology" \notin AWG
    BY DEF IsHub, Profiles, AWG
  <2>3. CASE h.profile = "plain"
    BY <2>1, <2>3 DEF NeedsObfuscation
  <2>4. CASE h.profile = "pathology"
    BY <2>1, <2>2, <2>4 DEF NeedsObfuscation
  <2>5. CASE h.profile \in AWG /\ (force \/ ~HasObfuscation(h))
    BY <2>1, <2>2, <2>5 DEF NeedsObfuscation
  <2>6. CASE h.profile \in AWG /\ ~force /\ HasObfuscation(h)
    BY <2>1, <2>2, <2>6 DEF NeedsObfuscation
  <2> HIDE DEF g
  <2> QED
    BY <2>2, <2>3, <2>4, <2>5, <2>6
<1>2. DOMAIN g = HubFields /\ g.on = h.on /\ g.profile = h.profile /\ g.keyed = TRUE
  BY DEF EnsureWgHubSecrets, IsHub, HubFields
<1>3. IsBlock(g.obf)
  BY <1>1, Blocks DEF IsHub
<1>4. NeedsObfuscation(g.profile) => HasObfuscation(g)
  <2>1. CASE h.profile = "pathology" /\ g.obf = RegeneratePathology(NoBlock, TRUE, fresh)
    <3> DEFINE r == RegeneratePathology(NoBlock, TRUE, fresh)
    <3>1. r # NoBlock /\ r.key # NoKey
      BY Blocks
    <3>2. g.obf = r /\ g.profile = h.profile
      BY <1>2, <2>1
    <3> HIDE DEF g, r
    <3> QED
      BY <3>1, <3>2 DEF HasObfuscation
  <2>2. CASE h.profile \in AWG /\ g.obf = Bundle(h.obf, "", fresh)
    BY <1>2, <2>2, Blocks DEF HasObfuscation, AWG
  <2>3. CASE HasObfuscation(h) /\ g.obf = h.obf
    BY <1>2, <2>3 DEF HasObfuscation
  <2> HIDE DEF g
  <2> QED
    BY <1>1, <1>2, <2>1, <2>2, <2>3 DEF NeedsObfuscation
<1>5. Stays(h, h) => g.obf.key = h.obf.key
  BY <1>1 DEF Stays, AWG
<1> QED
  BY <1>2, <1>3, <1>4, <1>5 DEF IsHub

\* ensureWgUserCreds gives the group its keys and takes nothing from anybody.
LEMMA CredsGiven ==
  ASSUME Shape, NEW group \in SUBSET Users, NEW h, IsHub(h)
  PROVE  LET us == EnsureWgUserCreds(users, group, h) IN
         /\ DOMAIN us = Users
         /\ \A u \in Users :
              /\ DOMAIN us[u] = {"is", "keyed", "psk"} /\ us[u].is = users[u].is
              /\ us[u].psk \in {users[u].psk, h.obf.key}
              /\ us[u].keyed = IF u \in group THEN TRUE ELSE users[u].keyed
BY DEF EnsureWgUserCreds, Shape


-----------------------------------------------------------------------------
(* Steps *)

\* Only goroutine t moves.
Only(t) ==
  /\ DOMAIN pc' = Clients /\ DOMAIN job' = Clients
  /\ \A u \in Clients \ {t} : pc'[u] = pc[u] /\ job'[u] = job[u]

LEMMA GotoOnly ==
  ASSUME Shape, NEW t \in Clients, NEW l, NEW j, Goto(t, l, j)
  PROVE  Only(t) /\ pc'[t] = l /\ job'[t] = j
BY DEF Shape, Goto, Only

LEMMA Jobs ==
  /\ DOMAIN NoJob = Fields /\ IsHub(NoJob.hub) /\ IsHub(NoJob.base)
  /\ \A k : LET j == [NoJob EXCEPT !.kind = k] IN DOMAIN j = Fields /\ IsHub(j.hub) /\ IsHub(j.base)
BY Blocks DEF NoJob, DefaultWgHub, Fields, HubFields, IsHub, Profiles

\* A step of one goroutine keeps the shape.
LEMMA Moved ==
  ASSUME Shape, NEW t \in Clients, Only(t),
         DOMAIN job'[t] = Fields, IsHub(job'[t].hub), IsHub(job'[t].base),
         pc'[t] = "apply" => sMu' = t,
         \A u \in Clients \ {t} : pc[u] = "apply" => sMu' = u,
         IsHub(hub'), made' \in Nat, DOMAIN users' = Users,
         \A u \in Users : DOMAIN users'[u] = {"is", "keyed", "psk"} /\ users'[u].psk \in Nat
  PROVE  Shape'
<1>1. \A u \in Clients : /\ DOMAIN job'[u] = Fields
                         /\ IsHub(job'[u].hub) /\ IsHub(job'[u].base)
                         /\ pc'[u] = "apply" => sMu' = u
  BY DEF Shape, Only
<1> QED
  BY <1>1 DEF Shape, Only, IsHub, IsBlock, Fields, HubFields, Styles, AWG, Profiles

\* The copies of the others stay as they are.
LEMMA CopiesKept ==
  ASSUME CopyInv, NEW t \in Clients, Only(t),
         pc'[t] = "save" /\ ~job'[t].own /\ Stays(job'[t].base, job'[t].hub)
           => job'[t].hub.obf.key = job'[t].base.obf.key
  PROVE  CopyInv'
<1>1. \A u \in Clients : pc'[u] = "save" /\ ~job'[u].own /\ Stays(job'[u].base, job'[u].hub)
                           => job'[u].hub.obf.key = job'[u].base.obf.key
  BY DEF CopyInv, Only
<1> QED
  BY <1>1 DEF CopyInv, Stays, HasObfuscation, NoBlock, NoKey

\* What PUT wg makes of the hub it loaded.
LEMMA PutHub ==
  ASSUME Shape, NEW b \in Bodies, NEW force \in BOOLEAN
  PROVE  LET prev == Reprofiled([hub EXCEPT !.on = b.on, !.port = b.port, !.exit = b.exit], b.profile)
             h    == EnsureWgHubSecrets(MergeWgObfuscation(prev, b.obf), force, made + 1)
         IN  IsHub(h) /\ (b.obf.key # OwnKey /\ Stays(hub, h) => h.obf.key = hub.obf.key)
<1> DEFINE copy == [hub EXCEPT !.on = b.on, !.port = b.port, !.exit = b.exit]
           prev == Reprofiled(copy, b.profile)
           m    == MergeWgObfuscation(prev, b.obf)
           h    == EnsureWgHubSecrets(m, force, made + 1)
<1>1. b.on \in BOOLEAN /\ b.profile \in Profiles /\ IsBlock(b.obf) /\ b.obf.key \in {NoKey, OwnKey}
  <2>1. b \in Body
    BY WgHubAssumption
  <2>2. b.on \in BOOLEAN /\ b.profile \in Profiles
        /\ b.obf \in {NoBlock} \cup [style : Styles, rev : {Operator}, key : {NoKey, OwnKey}]
    BY <2>1 DEF Body
  <2>3. OwnKey \in Nat
    BY WgHubAssumption
  <2>4. CASE b.obf = NoBlock
    BY <2>2, <2>4, Blocks DEF NoBlock, NoKey
  <2>5. CASE b.obf \in [style : Styles, rev : {Operator}, key : {NoKey, OwnKey}]
    BY <2>2, <2>3, <2>5 DEF IsBlock, Operator, NoKey
  <2> QED
    BY <2>2, <2>4, <2>5
<1>2. IsHub(copy) /\ copy.profile = hub.profile /\ copy.obf = hub.obf
  BY <1>1 DEF Shape, IsHub, HubFields
<1>3. IsHub(prev) /\ prev.profile = b.profile /\ (b.profile = hub.profile => prev.obf = hub.obf)
  <2> HIDE DEF copy
  <2> QED
    BY <1>1, <1>2, ReprofiledHub
<1>4. /\ IsHub(m) /\ m.profile = prev.profile
      /\ Stays(prev, prev) /\ b.obf.key = NoKey => Stays(m, m) /\ m.obf.key = prev.obf.key
  <2> HIDE DEF prev
  <2> QED
    BY <1>1, <1>3, MergedHub
<1>5. IsHub(h) /\ h.profile = m.profile /\ (Stays(m, m) => h.obf.key = m.obf.key)
  <2>1. made + 1 \in Nat \ {0}
    BY DEF Shape
  <2> HIDE DEF m
  <2> QED
    BY <1>4, <2>1, EnsuredHub
<1> HIDE DEF prev, m, h
<1>6. ASSUME b.obf.key # OwnKey, Stays(hub, h)
      PROVE  h.obf.key = hub.obf.key
  <2>1. prev.profile = "pathology" /\ prev.obf = hub.obf
    BY <1>3, <1>4, <1>5, <1>6 DEF Stays
  <2>2. Stays(prev, prev)
    BY <1>6, <2>1 DEF Stays, HasObfuscation
  <2> QED
    BY <1>1, <1>4, <1>5, <1>6, <2>1, <2>2
<1> QED
  BY <1>5, <1>6 DEF prev, m, h

\* What regenerate makes of it.
LEMMA RegeneratedHub ==
  ASSUME Shape, NEW p \in Profiles, NEW auto, NEW mode, NEW fresh \in Nat \ {0}
  PROVE  LET h == Reprofiled(hub, p)
             g == [h EXCEPT !.keyed = TRUE,
                            !.obf = IF h.profile = "pathology" THEN RegeneratePathology(@, auto, fresh)
                                    ELSE Bundle(@, mode, fresh)]
         IN  IsHub(g) /\ (Stays(hub, g) => g.obf.key = hub.obf.key)
<1> DEFINE h == Reprofiled(hub, p)
           obf == IF h.profile = "pathology" THEN RegeneratePathology(h.obf, auto, fresh)
                  ELSE Bundle(h.obf, mode, fresh)
           g == [h EXCEPT !.keyed = TRUE, !.obf = obf]
<1>1. IsHub(h) /\ h.profile = p /\ (p = hub.profile => h.obf = hub.obf)
  BY ReprofiledHub DEF Shape
<1> HIDE DEF h
<1>2. IsBlock(obf)
  BY <1>1, Blocks DEF IsHub
<1>3. IsHub(g) /\ g.profile = h.profile /\ g.obf = obf
  <2> HIDE DEF obf
  <2> QED
    BY <1>1, <1>2 DEF IsHub, HubFields
<1>4. ASSUME Stays(hub, g) PROVE g.obf.key = hub.obf.key
  <2>1. hub.profile = "pathology" /\ hub.obf.key # NoKey /\ h.profile = "pathology"
    BY <1>3, <1>4 DEF Stays, HasObfuscation
  <2>2. h.obf = hub.obf /\ obf = RegeneratePathology(hub.obf, auto, fresh)
    BY <1>1, <2>1
  <2>3. LET r == RegeneratePathology(hub.obf, auto, fresh) IN hub.obf.key # NoKey => r.key = hub.obf.key
    BY Blocks DEF Shape, IsHub
  <2> HIDE DEF obf, g
  <2> QED
    BY <1>3, <2>1, <2>2, <2>3
<1> QED
  BY <1>3, <1>4 DEF h, obf


IInv == Shape /\ KeyInv /\ ServeInv /\ CopyInv

\* Nothing that is wanted, built or run changes.
LEMMA Untouched ==
  ASSUME KeyInv, ServeInv, NEW t \in Clients, Only(t),
         pc[t] \notin {"remat", "apply"}, pc'[t] \notin {"remat", "apply"},
         UNCHANGED <<hub, users, running, given, erred>>
  PROVE  KeyInv' /\ ServeInv'
<1>1. KeyInv'
  BY DEF KeyInv, KeysOf
<1>2. Wanted' = Wanted /\ (Complete' <=> Complete)
  BY DEF Wanted, Complete, BuildWireGuardEndpoint, ApplyToEndpoint, EligibleUsers, HasObfuscation, NeedsObfuscation
<1>3. \A u \in Clients : /\ pc'[u] = "remat" <=> pc[u] = "remat"
                         /\ pc'[u] = "apply" <=> pc[u] = "apply"
                         /\ pc'[u] = "apply" => job'[u] = job[u]
  BY DEF Only
<1> QED
  BY <1>1, <1>2, <1>3 DEF ServeInv

LEMMA PutStep ==
  ASSUME IInv, NEW t \in Clients, HandleWgPut(t)
  PROVE  IInv'
<1>1. PICK b \in Bodies : HandleWgPut(t)!(b)
  BY DEF HandleWgPut
<1> DEFINE prev == Reprofiled([hub EXCEPT !.on = b.on, !.port = b.port, !.exit = b.exit], b.profile)
           force == NeedsObfuscation(b.profile) /\ (b.profile # hub.profile \/ ~HasObfuscation(prev))
           h == EnsureWgHubSecrets(MergeWgObfuscation(prev, b.obf), force, made + 1)
           j == [kind |-> "put", hub |-> h, base |-> hub, own |-> b.obf.key = OwnKey, cfg |-> NoEndpoint]
<1>2. /\ pc[t] = "idle" /\ Goto(t, "save", j) /\ made' \in {made, made + 1}
      /\ UNCHANGED <<hub, users, given, running, sMu, erred>>
  BY <1>1 DEF Request
<1>3. IsHub(h) /\ (b.obf.key # OwnKey /\ Stays(hub, h) => h.obf.key = hub.obf.key)
  <2>1. force \in BOOLEAN
    OBVIOUS
  <2> HIDE DEF force
  <2> QED
    BY <2>1, PutHub DEF IInv
<1> HIDE DEF h
<1>4. Only(t) /\ pc'[t] = "save" /\ job'[t] = j
  BY <1>2, GotoOnly DEF IInv
<1>5. Shape'
  BY <1>2, <1>3, <1>4, Moved DEF IInv, Shape, Fields
<1>6. CopyInv'
  <2> DEFINE own == b.obf.key = OwnKey
  <2>1. job'[t].own = own /\ job'[t].hub = h /\ job'[t].base = hub
    BY <1>4
  <2>2. ~job'[t].own => b.obf.key # OwnKey
    BY <2>1, Zenon
  <2> QED
    BY <1>3, <1>4, <2>1, <2>2, CopiesKept DEF IInv
<1> QED
  BY <1>2, <1>4, <1>5, <1>6, Untouched DEF IInv

LEMMA RegenerateStep ==
  ASSUME IInv, NEW t \in Clients, HandleWgRegenerateObfuscation(t)
  PROVE  IInv'
<1> DEFINE g(p, mode, auto) ==
             LET h == Reprofiled(hub, p) IN
             [h EXCEPT !.keyed = TRUE,
                       !.obf = IF h.profile = "pathology" THEN RegeneratePathology(@, auto, made + 1)
                               ELSE Bundle(@, mode, made + 1)]
           j(x) == [kind |-> "regenerate", base |-> hub, own |-> FALSE, cfg |-> NoEndpoint, hub |-> x]
<1>1. PICK mode \in Modes, override \in Profiles \cup {"none"}, auto \in BOOLEAN :
        HandleWgRegenerateObfuscation(t)!(mode, override, auto)
  BY DEF HandleWgRegenerateObfuscation
<1> DEFINE p == CASE override # "none" -> override
                  [] mode = "pathology" -> "pathology"
                  [] OTHER -> hub.profile
           h == g(p, mode, auto)
<1>2. /\ pc[t] = "idle" /\ Goto(t, "save", j(h)) /\ made' = made + 1
      /\ UNCHANGED <<hub, users, given, running, sMu, erred>>
  BY <1>1 DEF Request
<1>3. IsHub(h) /\ (Stays(hub, h) => h.obf.key = hub.obf.key)
  <2>1. p \in Profiles /\ made + 1 \in Nat \ {0}
    <3>1. made + 1 \in Nat \ {0} /\ hub.profile \in Profiles /\ "pathology" \in Profiles
      BY DEF IInv, Shape, IsHub, Profiles
    <3> QED
      BY <3>1
  <2> HIDE DEF p
  <2> QED
    BY <2>1, RegeneratedHub DEF IInv
<1> HIDE DEF h
<1>4. Only(t) /\ pc'[t] = "save" /\ job'[t] = j(h)
  BY <1>2, GotoOnly DEF IInv
<1>5. Shape'
  BY <1>2, <1>3, <1>4, Moved DEF IInv, Shape, Fields
<1>6. CopyInv'
  BY <1>3, <1>4, CopiesKept DEF IInv
<1> QED
  BY <1>2, <1>4, <1>5, <1>6, Untouched DEF IInv


LEMMA SaveStep ==
  ASSUME IInv, NEW t \in Clients, SaveWgHub(t)
  PROVE  IInv'
<1> DEFINE j == job[t]
<1>1. /\ hub' = j.hub /\ given' = given \cup KeysOf(j.hub)
      /\ UNCHANGED <<users, running, made, sMu, erred>>
      /\ \/ Goto(t, "remat", j)
         \/ ~j.hub.on /\ Goto(t, "idle", NoJob)
  BY DEF SaveWgHub
<1>2. Only(t) /\ pc'[t] \in {"remat", "idle"} /\ (j.hub.on => pc'[t] = "remat")
      /\ DOMAIN job'[t] = Fields /\ IsHub(job'[t].hub) /\ IsHub(job'[t].base)
  BY <1>1, GotoOnly, Jobs DEF IInv, Shape
<1>3. Shape'
  BY <1>1, <1>2, Moved DEF IInv, Shape
<1>4. KeyInv'
  <2>1. IsFiniteSet(given')
    <3>1. IsFiniteSet({j.hub.obf.key}) /\ KeysOf(j.hub) \subseteq {j.hub.obf.key}
      BY FS_Singleton DEF KeysOf
    <3>2. IsFiniteSet(KeysOf(j.hub))
      BY <3>1, FS_Subset
    <3> QED
      BY <1>1, <3>2, FS_Union DEF IInv, KeyInv
  <2> QED
    BY <1>1, <2>1 DEF IInv, KeyInv, KeysOf
<1>5. ServeInv'
  BY <1>1, <1>2 DEF ServeInv
<1>6. CopyInv'
  BY <1>2, CopiesKept DEF IInv
<1> QED
  BY <1>3, <1>4, <1>5, <1>6 DEF IInv

\* A step that leaves a rebuild to do.
LEMMA RebuildStep ==
  ASSUME IInv, NEW t \in Clients, NEW k, Goto(t, "remat", [NoJob EXCEPT !.kind = k]),
         UNCHANGED <<running, sMu, erred, given, made>>,
         IsHub(hub'), hub'.obf \in {hub.obf, NoBlock}, DOMAIN users' = Users,
         \A u \in Users : /\ DOMAIN users'[u] = {"is", "keyed", "psk"}
                          /\ users'[u].psk \in {users[u].psk, NoKey}
  PROVE  IInv'
<1> DEFINE j == [NoJob EXCEPT !.kind = k]
<1>1. DOMAIN j = Fields /\ IsHub(j.hub) /\ IsHub(j.base)
  BY Jobs
<1> HIDE DEF j
<1>2. Only(t) /\ pc'[t] = "remat" /\ job'[t] = j
  BY GotoOnly DEF IInv, j
<1>3. Shape'
  <2>1. \A u \in Users : users'[u].psk \in Nat
    BY DEF IInv, Shape, NoKey
  <2> QED
    BY <1>1, <1>2, <2>1, Moved DEF IInv, Shape
<1>4. KeyInv'
  <2>1. KeysOf(hub') \subseteq given
    BY DEF IInv, KeyInv, KeysOf, NoBlock
  <2> QED
    BY <2>1 DEF IInv, KeyInv, KeysOf
<1>5. ServeInv'
  BY <1>2 DEF ServeInv
<1>6. CopyInv'
  BY <1>2, CopiesKept DEF IInv
<1> QED
  BY <1>3, <1>4, <1>5, <1>6 DEF IInv

LEMMA BlockStep ==
  ASSUME IInv, NEW t \in Clients, PersistWgBlock(t)
  PROVE  IInv'
<1>1. PICK b \in Bodies : PersistWgBlock(t)!(b)
  BY DEF PersistWgBlock
<1> DEFINE copy == [hub EXCEPT !.on = b.on, !.port = b.port]
<1>2. b.on \in BOOLEAN /\ b.profile \in Profiles
  BY WgHubAssumption DEF Body
<1>3. IsHub(copy) /\ copy.obf = hub.obf
  BY <1>2 DEF IInv, Shape, IsHub, HubFields
<1>4. hub' = Reprofiled(copy, b.profile) /\ Goto(t, "remat", [NoJob EXCEPT !.kind = "block"])
      /\ UNCHANGED <<running, sMu, erred, given, made, users>>
  BY <1>1 DEF Request
<1> HIDE DEF copy
<1>5. IsHub(hub') /\ hub'.obf \in {hub.obf, NoBlock}
  <2>1. IsHub(hub')
    BY <1>2, <1>3, <1>4, ReprofiledHub
  <2>2. hub'.obf \in {copy.obf, NoBlock}
    BY <1>3, <1>4 DEF Reprofiled, IsHub, HubFields
  <2> QED
    BY <1>3, <2>1, <2>2
<1> QED
  BY <1>4, <1>5, RebuildStep DEF IInv, Shape

LEMMA UserStep ==
  ASSUME IInv, NEW t \in Clients, UserChanges(t)
  PROVE  IInv'
<1>1. PICK u \in Users, deleted \in BOOLEAN : \E is \in {"none", "off", "on"} \ {users[u].is} :
        /\ users' = [users EXCEPT ![u] = IF is = "none" THEN [is |-> is, keyed |-> FALSE, psk |-> NoKey]
                                         ELSE [@ EXCEPT !.is = is]]
        /\ hub' = IF deleted /\ hub.exit = u THEN [hub EXCEPT !.exit = NoUser] ELSE hub
        /\ Goto(t, "remat", [NoJob EXCEPT !.kind = "user"])
        /\ UNCHANGED <<running, sMu, erred, given, made>>
  BY DEF UserChanges, Request
<1>2. IsHub(hub') /\ hub'.obf = hub.obf
  BY <1>1 DEF IInv, Shape, IsHub, HubFields
<1>3. /\ DOMAIN users' = Users
      /\ \A v \in Users : /\ DOMAIN users'[v] = {"is", "keyed", "psk"}
                          /\ users'[v].psk \in {users[v].psk, NoKey}
  BY <1>1 DEF IInv, Shape
<1> QED
  BY <1>1, <1>2, <1>3, RebuildStep

LEMMA SubStep ==
  ASSUME IInv, NEW t \in Clients, HandleSub(t)
  PROVE  IInv'
<1>1. PICK u \in EligibleUsers : users' = EnsureWgUserCreds(users, {u}, hub)
  BY DEF HandleSub
<1>2. UNCHANGED <<hub, given, made, pc, job, running, sMu, erred>>
  BY DEF HandleSub, Request
<1>3. u \in Users /\ users[u].is = "on"
  BY DEF EligibleUsers
<1>4. /\ DOMAIN users' = Users
      /\ \A v \in Users :
           /\ DOMAIN users'[v] = {"is", "keyed", "psk"} /\ users'[v].is = users[v].is
           /\ users'[v].psk \in {users[v].psk, hub.obf.key}
           /\ users'[v].keyed = IF v \in {u} THEN TRUE ELSE users[v].keyed
  <2> DEFINE us == EnsureWgUserCreds(users, {u}, hub)
  <2>1. Shape /\ {u} \in SUBSET Users /\ IsHub(hub)
    BY <1>3 DEF IInv, Shape
  <2>2. /\ DOMAIN us = Users
        /\ \A v \in Users :
             /\ DOMAIN us[v] = {"is", "keyed", "psk"} /\ us[v].is = users[v].is
             /\ us[v].psk \in {users[v].psk, hub.obf.key}
             /\ us[v].keyed = IF v \in {u} THEN TRUE ELSE users[v].keyed
    BY <2>1, CredsGiven
  <2> HIDE DEF us
  <2> QED
    BY <1>1, <2>2 DEF us
<1>5. Shape'
  <2>1. Only(t)
    BY <1>2 DEF IInv, Shape, Only
  <2>2. \A v \in Users : users'[v].psk \in Nat
    BY <1>4 DEF IInv, Shape, IsHub, IsBlock
  <2> QED
    BY <1>2, <1>4, <2>1, <2>2, Moved DEF IInv, Shape
<1>6. KeyInv'
  BY <1>2, <1>4 DEF IInv, KeyInv, KeysOf
<1>7. ServeInv'
  <2>1. EligibleUsers' = EligibleUsers
    BY <1>4 DEF EligibleUsers
  <2>2. Complete => Complete' /\ Wanted' = Wanted
    <3>1. ASSUME Complete, NEW v \in Users, users[v].is = "on"
          PROVE  users[v].keyed /\ users'[v].keyed
      BY <1>4, <3>1 DEF Complete, EligibleUsers
    <3>2. ASSUME Complete
          PROVE  {v \in Users : users'[v].is = "on" /\ users'[v].keyed} = {v \in Users : users[v].is = "on" /\ users[v].keyed}
      BY <1>4, <3>1, <3>2
    <3> QED
      BY <1>2, <2>1, <3>1, <3>2
         DEF Complete, Wanted, BuildWireGuardEndpoint, ApplyToEndpoint, NeedsObfuscation, HasObfuscation, EligibleUsers
  <2> QED
    BY <1>2, <2>2 DEF IInv, ServeInv
<1>8. CopyInv'
  BY <1>2 DEF IInv, CopyInv
<1> QED
  BY <1>5, <1>6, <1>7, <1>8 DEF IInv


LEMMA ReadStep ==
  ASSUME IInv, NEW t \in Clients, RematRead(t)
  PROVE  IInv'
<1> DEFINE h  == IF hub.on THEN EnsureWgHubSecrets(hub, FALSE, made + 1) ELSE hub
           us == IF hub.on THEN EnsureWgUserCreds(users, EligibleUsers, hub) ELSE users
           j  == [job[t] EXCEPT !.cfg = IF h.on THEN BuildWireGuardEndpoint(h, us) ELSE NoEndpoint]
<1>1. /\ pc[t] = "remat" /\ sMu = Free /\ UNCHANGED running
      /\ hub' = h /\ users' = us /\ given' = given \cup KeysOf(h) /\ made' \in {made, made + 1}
      /\ \/ erred' = TRUE /\ Goto(t, "idle", NoJob) /\ UNCHANGED sMu
         \/ sMu' = t /\ Goto(t, "apply", j)
  <2>1. /\ pc[t] = "remat" /\ sMu = Free /\ UNCHANGED running
        /\ hub' = h /\ users' = us /\ given' = given \cup KeysOf(h)
        /\ \/ erred' = TRUE /\ Goto(t, "idle", NoJob) /\ UNCHANGED sMu
           \/ sMu' = t /\ Goto(t, "apply", j)
    BY DEF RematRead
  <2>2. made' \in {made, made + 1}
    BY DEF RematRead
  <2> QED
    BY <2>1, <2>2
<1>2. /\ IsHub(h) /\ h.on = hub.on
      /\ hub.on => h.keyed = TRUE /\ (NeedsObfuscation(h.profile) => HasObfuscation(h))
  <2>1. IsHub(hub) /\ made + 1 \in Nat \ {0}
    BY DEF IInv, Shape
  <2> QED
    BY <2>1, EnsuredHub
<1>3. /\ DOMAIN us = Users
      /\ \A u \in Users :
           /\ DOMAIN us[u] = {"is", "keyed", "psk"} /\ us[u].is = users[u].is
           /\ us[u].psk \in {users[u].psk, hub.obf.key}
           /\ hub.on /\ u \in EligibleUsers => us[u].keyed = TRUE
  <2> DEFINE vs == EnsureWgUserCreds(users, EligibleUsers, hub)
  <2>1. Shape /\ EligibleUsers \in SUBSET Users /\ IsHub(hub)
    BY DEF IInv, Shape, EligibleUsers
  <2>2. /\ DOMAIN vs = Users
        /\ \A u \in Users :
             /\ DOMAIN vs[u] = {"is", "keyed", "psk"} /\ vs[u].is = users[u].is
             /\ vs[u].psk \in {users[u].psk, hub.obf.key}
             /\ vs[u].keyed = IF u \in EligibleUsers THEN TRUE ELSE users[u].keyed
    BY <2>1, CredsGiven
  <2> HIDE DEF vs
  <2>3. CASE hub.on
    <3>1. us = vs
      BY <2>3 DEF vs
    <3> QED
      BY <2>2, <3>1
  <2>4. CASE ~hub.on
    <3>1. us = users
      BY <2>4
    <3> QED
      BY <2>4, <3>1 DEF IInv, Shape
  <2> QED
    BY <2>3, <2>4
<1>4. DOMAIN j = Fields /\ IsHub(j.hub) /\ IsHub(j.base)
      /\ (hub.on => j.cfg = BuildWireGuardEndpoint(h, us))
  <2> HIDE DEF h, us
  <2> QED
    BY <1>2 DEF IInv, Shape, Fields
<1> HIDE DEF h, us, j
<1>5. /\ Only(t) /\ DOMAIN job'[t] = Fields /\ IsHub(job'[t].hub) /\ IsHub(job'[t].base)
      /\ \/ erred' = TRUE /\ pc'[t] = "idle" /\ UNCHANGED sMu
         \/ sMu' = t /\ pc'[t] = "apply" /\ job'[t] = j
  BY <1>1, <1>4, GotoOnly, Jobs DEF IInv
<1>6. \A u \in Clients : pc[u] # "apply"
  BY <1>1, WgHubAssumption DEF IInv, Shape
<1>7. Shape'
  <2>1. \A u \in Users : users'[u].psk \in Nat
    BY <1>1, <1>3 DEF IInv, Shape, IsHub, IsBlock
  <2>2. made' \in Nat
    BY <1>1 DEF IInv, Shape
  <2> QED
    BY <1>1, <1>2, <1>3, <1>5, <1>6, <2>1, <2>2, Moved DEF IInv
<1>8. KeyInv'
  <2>1. IsFiniteSet(given')
    <3>1. IsFiniteSet({h.obf.key}) /\ KeysOf(h) \subseteq {h.obf.key}
      BY FS_Singleton DEF KeysOf
    <3>2. IsFiniteSet(KeysOf(h))
      BY <3>1, FS_Subset
    <3> QED
      BY <1>1, <3>2, FS_Union DEF IInv, KeyInv
  <2>2. KeysOf(hub)' = KeysOf(h)
    BY <1>1 DEF KeysOf
  <2>3. \A u \in Users : users'[u].psk \in given \cup {NoKey}
    BY <1>1, <1>3 DEF IInv, KeyInv, KeysOf
  <2> QED
    BY <1>1, <2>1, <2>2, <2>3 DEF KeyInv
<1>9. ServeInv'
  <2> SUFFICES ASSUME hub'.on, ~erred'
               PROVE  /\ Complete'
                      /\ \A u \in Clients : pc'[u] = "apply" => job'[u].cfg = Wanted'
                      /\ \E u \in Clients : pc'[u] = "apply"
    BY DEF ServeInv
  <2>1. hub.on /\ sMu' = t /\ pc'[t] = "apply" /\ job'[t] = j
    BY <1>1, <1>2, <1>5
  <2>2. Wanted' = BuildWireGuardEndpoint(h, us)
    BY <1>1 DEF Wanted, BuildWireGuardEndpoint
  <2>3. \A u \in Clients : pc'[u] = "apply" => u = t
    BY <1>5, <1>6 DEF Only
  <2>4. EligibleUsers' = EligibleUsers
    BY <1>1, <1>3 DEF EligibleUsers
  <2>5. /\ hub'.keyed = TRUE /\ (NeedsObfuscation(hub'.profile) => HasObfuscation(hub'))
        /\ \A u \in EligibleUsers : users'[u].keyed = TRUE
    BY <1>1, <1>2, <1>3, <2>1 DEF EligibleUsers
  <2>6. Complete'
    BY <2>4, <2>5 DEF Complete, NeedsObfuscation, HasObfuscation, NoBlock, NoKey
  <2> QED
    BY <1>4, <2>1, <2>2, <2>3, <2>6
<1>10. CopyInv'
  BY <1>5, CopiesKept DEF IInv
<1> QED
  BY <1>7, <1>8, <1>9, <1>10 DEF IInv

LEMMA ApplyStep ==
  ASSUME IInv, NEW t \in Clients, RematApply(t)
  PROVE  IInv'
<1>1. /\ pc[t] = "apply" /\ Goto(t, "idle", NoJob) /\ UNCHANGED <<hub, users, given, made>>
      /\ (running' = job[t].cfg /\ UNCHANGED erred) \/ erred'
  BY DEF RematApply
<1>2. Only(t) /\ pc'[t] = "idle" /\ job'[t] = NoJob
  BY <1>1, GotoOnly DEF IInv
<1>3. \A u \in Clients \ {t} : pc[u] # "apply"
  BY <1>1 DEF IInv, Shape
<1>4. Shape'
  BY <1>1, <1>2, <1>3, Jobs, Moved DEF IInv, Shape
<1>5. KeyInv'
  BY <1>1 DEF IInv, KeyInv, KeysOf
<1>6. ServeInv'
  <2>1. Wanted' = Wanted /\ (Complete' <=> Complete)
    BY <1>1 DEF Wanted, Complete, BuildWireGuardEndpoint, ApplyToEndpoint, EligibleUsers, HasObfuscation,
                NeedsObfuscation
  <2>2. /\ \A u \in Clients : pc'[u] # "apply"
        /\ (\A u \in Clients : pc'[u] # "remat") => (\A u \in Clients : pc[u] # "remat")
    BY <1>1, <1>2, <1>3 DEF Only
  <2> QED
    BY <1>1, <2>1, <2>2 DEF IInv, ServeInv
<1>7. CopyInv'
  BY <1>2, CopiesKept DEF IInv
<1> QED
  BY <1>4, <1>5, <1>6, <1>7 DEF IInv


LEMMA Starts == Init => IInv
<1> SUFFICES ASSUME Init PROVE IInv
  OBVIOUS
<1>1. IsHub(DefaultWgHub)
  BY Blocks DEF DefaultWgHub, IsHub, HubFields, Profiles
<1>2. Shape
  BY <1>1, Jobs DEF Init, Shape, NoKey
<1>3. KeyInv
  BY FS_EmptySet DEF Init, KeyInv, KeysOf, DefaultWgHub, NoBlock
<1>4. ServeInv /\ CopyInv
  BY DEF Init, ServeInv, CopyInv, DefaultWgHub
<1> QED
  BY <1>2, <1>3, <1>4 DEF IInv

LEMMA Steps == IInv /\ [Next]_vars => IInv'
<1> SUFFICES ASSUME IInv, [Next]_vars PROVE IInv'
  OBVIOUS
<1>1. CASE Next
  BY <1>1, PutStep, RegenerateStep, SaveStep, BlockStep, UserStep, SubStep, ReadStep, ApplyStep DEF Next
<1>2. CASE UNCHANGED vars
  <2>1. Shape'
    BY <1>2 DEF vars, IInv, Shape
  <2>2. KeyInv' /\ CopyInv'
    BY <1>2 DEF vars, IInv, KeyInv, KeysOf, CopyInv
  <2>3. Wanted' = Wanted /\ (Complete' <=> Complete)
    BY <1>2 DEF vars, Wanted, Complete, BuildWireGuardEndpoint, ApplyToEndpoint, EligibleUsers, HasObfuscation,
                NeedsObfuscation
  <2>4. ServeInv'
    BY <1>2, <2>3 DEF vars, IInv, ServeInv
  <2> QED
    BY <2>1, <2>2, <2>4 DEF IInv
<1> QED
  BY <1>1, <1>2

LEMMA Invariant == Spec => []IInv
BY Starts, Steps, PTL DEF Spec

-----------------------------------------------------------------------------
(* The theorems *)

\* A set with one element at most.
LEMMA OneElement ==
  ASSUME NEW S, IsFiniteSet(S), Cardinality(S) <= 1, NEW x \in S, NEW y \in S
  PROVE  x = y
<1> SUFFICES ASSUME x # y PROVE FALSE
  OBVIOUS
<1>1. IsFiniteSet(S \ {x}) /\ Cardinality(S \ {x}) = Cardinality(S) - 1 /\ Cardinality(S) \in Nat
  BY FS_RemoveElement, FS_CardinalityType
<1>2. Cardinality(S \ {x}) \in Nat /\ Cardinality(S \ {x}) # 0
  BY <1>1, FS_CardinalityType, FS_EmptySet
<1> QED
  BY <1>1, <1>2

\* THEOREM.  When no request is under way and nobody was told of an error since the box was
\* built, a hub that is on has its key pair and its obfuscation block, and every eligible user
\* is a peer of the box and gets an end of the tunnel that fits: the profile, the port, the
\* exit, every obfuscation value, and the pathology key while there has been one only.
THEOREM BothEndsMeet == Spec => []EndsMeet
<1>1. IInv => EndsMeet
  <2> SUFFICES ASSUME IInv, Quiet, ~erred, hub.on
               PROVE  /\ hub.keyed /\ (NeedsObfuscation(hub.profile) => HasObfuscation(hub))
                      /\ running.peers = EligibleUsers
                      /\ \A u \in EligibleUsers :
                           LET mine == RenderWireGuardClientEndpoint(u, hub)
                               its  == running.hub
                           IN  /\ mine.profile = its.profile /\ mine.port = its.port /\ mine.advertises = (u = its.exit)
                               /\ [mine.obf EXCEPT !.key = NoKey] = [its.obf EXCEPT !.key = NoKey]
                               /\ Cardinality(given) <= 1 => mine.obf.key = its.obf.key
    BY DEF EndsMeet
  <2>1. Complete /\ running = Wanted
    BY DEF Quiet, IInv, ServeInv
  <2>2. running.peers = EligibleUsers
    BY <2>1 DEF Complete, Wanted, BuildWireGuardEndpoint, EligibleUsers
  <2> DEFINE its == running.hub
             obf == ApplyToEndpoint(hub)
  <2>3. /\ its.profile = hub.profile /\ its.port = hub.port /\ its.exit = hub.exit /\ its.obf = obf
    BY <2>1 DEF Wanted, BuildWireGuardEndpoint, IInv, Shape, IsHub, HubFields
  <2>4. IsBlock(obf)
    BY Blocks DEF ApplyToEndpoint, IInv, Shape, IsHub
  <2>5. ASSUME NEW u \in EligibleUsers
        PROVE  LET mine == RenderWireGuardClientEndpoint(u, hub)
               IN  /\ mine.profile = its.profile /\ mine.port = its.port /\ mine.advertises = (u = its.exit)
                   /\ [mine.obf EXCEPT !.key = NoKey] = [its.obf EXCEPT !.key = NoKey]
                   /\ Cardinality(given) <= 1 => mine.obf.key = its.obf.key
    <3> DEFINE mine == RenderWireGuardClientEndpoint(u, hub)
               psk == users[u].psk
    <3>1. mine.profile = hub.profile /\ mine.port = hub.port /\ mine.advertises = (u = hub.exit)
      BY DEF RenderWireGuardClientEndpoint
    <3>2. mine.obf = IF hub.profile = "pathology" /\ psk # NoKey THEN [obf EXCEPT !.key = psk] ELSE obf
      BY DEF RenderWireGuardClientEndpoint
    <3> HIDE DEF its, obf, mine
    <3>3. [mine.obf EXCEPT !.key = NoKey] = [obf EXCEPT !.key = NoKey]
      BY <2>4, <3>2 DEF IsBlock
    <3>4. ASSUME Cardinality(given) <= 1, hub.profile = "pathology", psk # NoKey
          PROVE  psk = obf.key
      <4>1. psk \in given
        BY <3>4 DEF IInv, KeyInv, EligibleUsers
      <4>2. obf.key = hub.obf.key /\ obf.key # NoKey
        BY <2>1, <3>4 DEF obf, ApplyToEndpoint, Complete, NeedsObfuscation, HasObfuscation
      <4>3. obf.key \in given
        BY <4>2 DEF IInv, KeyInv, KeysOf
      <4> QED
        BY <3>4, <4>1, <4>3, OneElement DEF IInv, KeyInv
    <3>5. Cardinality(given) <= 1 => mine.obf.key = obf.key
      BY <2>4, <3>2, <3>4 DEF IsBlock
    <3> QED
      BY <2>3, <3>1, <3>3, <3>5 DEF mine
  <2> QED
    BY <2>1, <2>2, <2>5 DEF Complete
<1> QED
  BY <1>1, Invariant, PTL

\* THEOREM.  While the profile is pathology its key stays, whatever is regenerated, merged,
\* committed or rebuilt, unless a PUT sends a key or an older copy is saved.
THEOREM KeyStays == Spec => KeySticky
<1> DEFINE A == hub.profile = "pathology" /\ HasObfuscation(hub) /\ hub'.profile = "pathology" =>
                  \/ hub'.obf.key = hub.obf.key
                  \/ \E t \in Clients : pc[t] = "save" /\ (job[t].own \/ hub # job[t].base)
<1>1. IInv /\ [Next]_vars => [A]_vars
  <2> SUFFICES ASSUME IInv, Next, hub.profile = "pathology", HasObfuscation(hub), hub'.profile = "pathology"
               PROVE  \/ hub'.obf.key = hub.obf.key
                      \/ \E t \in Clients : pc[t] = "save" /\ (job[t].own \/ hub # job[t].base)
    OBVIOUS
  <2>1. ASSUME NEW t \in Clients,
               HandleWgPut(t) \/ HandleWgRegenerateObfuscation(t) \/ HandleSub(t) \/ RematApply(t)
        PROVE  hub' = hub
    BY <2>1 DEF HandleWgPut, HandleWgRegenerateObfuscation, HandleSub, RematApply
  <2>2. ASSUME NEW t \in Clients, SaveWgHub(t), ~job[t].own, hub = job[t].base
        PROVE  hub'.obf.key = hub.obf.key
    BY <2>2 DEF SaveWgHub, IInv, CopyInv, Stays
  <2>3. ASSUME NEW t \in Clients, PersistWgBlock(t)
        PROVE  hub'.obf.key = hub.obf.key
    BY <2>3 DEF PersistWgBlock, Reprofiled, IInv, Shape, IsHub, HubFields
  <2>4. ASSUME NEW t \in Clients, UserChanges(t)
        PROVE  hub'.obf.key = hub.obf.key
    BY <2>4 DEF UserChanges, IInv, Shape, IsHub, HubFields
  <2>5. ASSUME NEW t \in Clients, RematRead(t)
        PROVE  hub'.obf.key = hub.obf.key
    <3>1. hub' = IF hub.on THEN EnsureWgHubSecrets(hub, FALSE, made + 1) ELSE hub
      BY <2>5 DEF RematRead
    <3>2. IsHub(hub) /\ made + 1 \in Nat \ {0} /\ Stays(hub, hub)
      BY DEF IInv, Shape, Stays
    <3> QED
      BY <3>1, <3>2, EnsuredHub
  <2> QED
    BY <2>1, <2>2, <2>3, <2>4, <2>5 DEF Next, SaveWgHub
<1>2. Spec => [][A]_vars
  BY <1>1, Invariant, PTL DEF Spec
<1> QED
  BY <1>2 DEF KeySticky


=============================================================================
