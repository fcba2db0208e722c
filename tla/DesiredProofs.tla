--------------------------- MODULE DesiredProofs ----------------------------
(***************************************************************************)
(* Proofs about Desired, for every value of its constants: any number of   *)
(* clients, sets, users, commits and restarts.                             *)
(*                                                                         *)
(* PortsDisjoint  no two sets share a port of a network; what is posted    *)
(*            has its form (Posted), and an install keeps the sets apart   *)
(*            from each other and from the stored ones (GoingApart);       *)
(* Owned      what is active or enabled has its owner, or an error was     *)
(*            reported;                                                    *)
(* ServeInv   somebody is about to rebuild, or what is being applied, or   *)
(*            else what runs, is what the stores want.                     *)
(***************************************************************************)
EXTENDS Desired, FiniteSetTheorems, TLAPS

\* The shape of what goroutines keep.
Fields == DOMAIN NoJob

Shape ==
  /\ DOMAIN pc = Threads /\ DOMAIN job = Threads
  /\ \A t \in Threads : DOMAIN job[t] = Fields

\* Service.mu is held from build to apply.
Held == \A t \in Threads : pc[t] = "apply" => sMu = t

UsersOK == users \in [Users -> [eligible : BOOLEAN, idx : Hosts \cup {0}]]

\* Somebody is going to rebuild, or to report an error.
Unsettled == \E t \in Threads : pc[t] \in {"persist", "accept", "run", "remat", "fail"}

Wanted == Build(active \cap DOMAIN sets, users)

Owned == ~erred /\ Live(active, hub) => owner = "controlplane"

Settled == ~erred /\ owner = "controlplane" /\ Live(active, hub) /\ ~Unsettled

ServeInv ==
  Settled =>
    /\ active \subseteq DOMAIN sets
    /\ hub.on => \A u \in EligibleUsers : users[u].idx # 0
    /\ \A t \in Threads : pc[t] = "apply" => job[t].cfg = Wanted
    /\ (\A t \in Threads : pc[t] # "apply") => running = Wanted

-----------------------------------------------------------------------------
(* Finite sets of numbers *)

\* A finite set of numbers has an element with k smaller ones.
LEMMA KthElement ==
  ASSUME NEW F \in SUBSET Nat, IsFiniteSet(F), NEW k \in Nat, k < Cardinality(F)
  PROVE  \E h \in F : Cardinality({y \in F : y < h}) = k
<1> DEFINE below(h) == {y \in F : y < h}
           n == Cardinality(F)
           I == 0..(n - 1)
           r == [h \in F |-> Cardinality(below(h))]
<1>1. n \in Nat /\ n > 0
  BY FS_CardinalityType
<1>2. IsFiniteSet(I) /\ Cardinality(I) = n
  <2>1. 0 \in Int /\ n - 1 \in Int /\ ~(0 > n - 1)
    BY <1>1
  <2>2. IsFiniteSet(0..(n - 1)) /\ Cardinality(0..(n - 1)) = (n - 1) - 0 + 1
    BY <2>1, FS_Interval
  <2> QED
    BY <1>1, <2>2
<1>3. ASSUME NEW h \in F
      PROVE  IsFiniteSet(below(h)) /\ Cardinality(below(h)) \in I
  <2>1. IsFiniteSet(F \ {h}) /\ Cardinality(F \ {h}) = n - 1 /\ below(h) \in SUBSET (F \ {h})
    BY FS_RemoveElement
  <2>2. IsFiniteSet(below(h)) /\ Cardinality(below(h)) <= Cardinality(F \ {h})
    BY <2>1, FS_Subset
  <2>3. Cardinality(below(h)) \in Nat
    BY <2>2, FS_CardinalityType
  <2> HIDE DEF below, n
  <2> QED
    BY <1>1, <2>1, <2>2, <2>3
<1>4. ASSUME NEW g \in F, NEW h \in F, g < h
      PROVE  Cardinality(below(g)) # Cardinality(below(h))
  <2>0. \A y \in F : (y < g => y < h) /\ ~(g < g)
    <3> SUFFICES ASSUME NEW y \in F PROVE (y < g => y < h) /\ ~(g < g)
      OBVIOUS
    <3>1. y \in Nat /\ g \in Nat /\ h \in Nat
      OBVIOUS
    <3> QED
      BY <1>4, <3>1
  <2>1. below(g) \in SUBSET below(h) /\ g \in below(h) /\ g \notin below(g)
    BY <1>4, <2>0
  <2>2. IsFiniteSet(below(h))
    BY <1>3
  <2> HIDE DEF below
  <2> QED
    BY <2>1, <2>2, FS_Subset
<1>5. r \in Injection(F, I)
  <2>1. r \in [F -> I]
    BY <1>3
  <2>2. ASSUME NEW g \in F, NEW h \in F, r[g] = r[h] PROVE g = h
    <3>1. g \in Nat /\ h \in Nat /\ (g = h \/ g < h \/ h < g)
      OBVIOUS
    <3> QED
      BY <1>4, <2>2, <3>1
  <2> HIDE DEF r, I
  <2> QED
    BY <2>1, <2>2 DEF Injection, IsInjective
<1>6. r \in Surjection(F, I)
  <2> HIDE DEF r, I, n
  <2> QED
    BY <1>2, <1>5, FS_Injection DEF n
<1>7. \E h \in F : r[h] = k
  <2>1. k \in I
    BY <1>1
  <2> HIDE DEF r, I
  <2> QED
    BY <1>6, <2>1 DEF Surjection
<1> QED
  BY <1>7

\* A set of positions has a first one.
LEMMA First ==
  ASSUME NEW F \in SUBSET Nat, IsFiniteSet(F), F # {}
  PROVE  \E i \in F : \A j \in F : i <= j
<1>1. Cardinality(F) \in Nat /\ Cardinality(F) # 0
  BY FS_CardinalityType, FS_EmptySet
<1>2. PICK h \in F : Cardinality({y \in F : y < h}) = 0
  BY <1>1, KthElement
<1>3. {y \in F : y < h} = {}
  <2>1. {y \in F : y < h} \in SUBSET F
    OBVIOUS
  <2> QED
    BY <1>2, <2>1, FS_Subset, FS_EmptySet
<1> QED
  BY <1>3

-----------------------------------------------------------------------------
(* WireGuard host indices *)

\* Every user of the group gets a host index, nobody loses or changes one, and nothing else of a
\* user is touched.
LEMMA EnsureGives ==
  ASSUME UsersOK, NEW group \in SUBSET Users, ~WgConflict(users, group)
  PROVE  LET us == EnsureWgUserCreds(users, group) IN
         /\ us \in [Users -> [eligible : BOOLEAN, idx : Hosts \cup {0}]]
         /\ \A u \in Users : /\ us[u].eligible = users[u].eligible
                             /\ users[u].idx # 0 => us[u] = users[u]
         /\ \A u \in group : us[u].idx # 0
         /\ (\A u \in group : users[u].idx # 0) => us = users
<1> DEFINE new  == {u \in group : users[u].idx = 0}
           free == Hosts \ {users[u].idx : u \in group}
           rank(S, x) == Cardinality({y \in S : y < x})
           pick(u) == CHOOSE h \in free : rank(free, h) = rank(new, u)
           us == EnsureWgUserCreds(users, group)
<1>1. IsFiniteSet(new) /\ new \in SUBSET Nat /\ IsFiniteSet(free) /\ free \in SUBSET Nat
  <2>1. NUsers \in Int /\ IsFiniteSet(Hosts) /\ Hosts \subseteq Nat
    BY DesiredAssumption
  <2>2. IsFiniteSet(Users) /\ Users \subseteq Nat
    BY <2>1, FS_Interval DEF Users
  <2> QED
    BY <2>1, <2>2, FS_Subset
<1>2. Cardinality(new) <= Cardinality(free) /\ Cardinality(new) \in Nat /\ Cardinality(free) \in Nat
  <2>1. ~(Cardinality(new) > Cardinality(free))
    BY DEF WgConflict
  <2>2. Cardinality(new) \in Nat /\ Cardinality(free) \in Nat
    BY <1>1, FS_CardinalityType
  <2> QED
    BY <2>1, <2>2
<1>3. ASSUME NEW u \in new PROVE pick(u) \in free
  <2>1. {y \in new : y < u} \in SUBSET (new \ {u})
    <3>1. u \in Nat /\ ~(u < u)
      BY <1>1
    <3> QED
      BY <3>1
  <2>2. IsFiniteSet(new \ {u}) /\ Cardinality(new \ {u}) = Cardinality(new) - 1
    BY <1>1, FS_RemoveElement
  <2>3. rank(new, u) <= Cardinality(new) - 1 /\ IsFiniteSet({y \in new : y < u})
    BY <2>1, <2>2, FS_Subset
  <2>4. rank(new, u) \in Nat
    BY <2>3, FS_CardinalityType
  <2>5. rank(new, u) < Cardinality(free)
    <3> DEFINE x == rank(new, u)
               a == Cardinality(new)
               b == Cardinality(free)
    <3>1. x \in Nat /\ a \in Nat /\ b \in Nat /\ x <= a - 1 /\ a <= b
      BY <1>2, <2>3, <2>4
    <3> HIDE DEF x, a, b
    <3>2. x < b
      BY <3>1
    <3> QED
      BY <3>2 DEF x, b
  <2>6. \E h \in free : rank(free, h) = rank(new, u)
    <3> HIDE DEF free, new
    <3> QED
      BY <1>1, <2>4, <2>5, KthElement
  <2> HIDE DEF rank, free, new
  <2> QED
    BY <2>6
<1>4. us = [u \in Users |-> IF u \in new THEN [users[u] EXCEPT !.idx = pick(u)] ELSE users[u]]
  BY DEF EnsureWgUserCreds
<1> HIDE DEF us, pick
<1>5. ASSUME NEW u \in new PROVE pick(u) \in Hosts /\ pick(u) # 0
  <2>1. Hosts \subseteq Nat \ {0}
    BY DesiredAssumption
  <2>2. pick(u) \in Hosts
    BY <1>3
  <2> QED
    BY <2>1, <2>2
<1>6. us \in [Users -> [eligible : BOOLEAN, idx : Hosts \cup {0}]]
  BY <1>4, <1>5 DEF UsersOK
<1>7. \A u \in Users : us[u].eligible = users[u].eligible /\ (users[u].idx # 0 => us[u] = users[u])
  BY <1>4 DEF UsersOK
<1>8. \A u \in group : us[u].idx # 0
  BY <1>4, <1>5 DEF UsersOK
<1>9. ASSUME \A u \in group : users[u].idx # 0 PROVE us = users
  <2>1. new = {}
    BY <1>9
  <2>2. users = [u \in Users |-> users[u]]
    BY DEF UsersOK
  <2> HIDE DEF new
  <2> QED
    BY <1>4, <2>1, <2>2
<1> QED
  BY <1>6, <1>7, <1>8, <1>9 DEF us

-----------------------------------------------------------------------------
(* Installing sets *)

\* What an install has done so far: it may only have taken sets out of active_sets, and has
\* touched nothing that was there unless it may replace.
Going(i, replace) ==
  /\ DOMAIN i = DOMAIN Fresh
  /\ i.act \subseteq active /\ i.disk = i.mem
  /\ ~replace => i.mem = sets /\ i.act = active /\ DOMAIN i.made \cap DOMAIN sets = {}

LEMMA FreshGoing == \A replace : Going(Fresh, replace)
BY DEF Fresh, Going

LEMMA Rejected ==
  ASSUME NEW r, NEW replace, Going(r, replace)
  PROVE  Going([r EXCEPT !.ok = FALSE], replace)
BY DEF Going, Fresh

LEMMA Built ==
  ASSUME NEW r, NEW n, NEW set, NEW replace, Going(r, replace), ~replace => n \notin DOMAIN sets
  PROVE  Going([r EXCEPT !.made = With(@, n, set)], replace)
<1>1. DOMAIN With(r.made, n, set) = DOMAIN r.made \cup {n}
  BY DEF With
<1> QED
  BY <1>1 DEF Going, Fresh

\* Replacing keeps what was built; a name that is taken is freed or refused.
LEMMA ReplaceGoing ==
  ASSUME NEW i, NEW n, NEW replace, Going(i, replace)
  PROVE  LET r == ReplaceOrConflictSet(i, n, replace) IN
         /\ Going(r, replace) /\ r.made = i.made
         /\ r.mem = i.mem \/ r.mem = Without(i.mem, {n})
         /\ \/ r.ok = i.ok /\ n \notin DOMAIN r.mem
            \/ r.ok = FALSE
<1> DEFINE r == ReplaceOrConflictSet(i, n, replace)
           out == Without(i.mem, {n})
<1>1. /\ n \notin DOMAIN i.mem => r = i
      /\ n \in DOMAIN i.mem /\ ~replace => r = [i EXCEPT !.ok = FALSE]
      /\ n \in DOMAIN i.mem /\ replace => r = [i EXCEPT !.mem = out, !.disk = out, !.act = @ \ {n}]
  BY DEF ReplaceOrConflictSet
<1>2. n \notin DOMAIN out
  BY DEF Without
<1> SUFFICES /\ Going(r, replace) /\ r.made = i.made
             /\ r.mem = i.mem \/ r.mem = out
             /\ \/ r.ok = i.ok /\ n \notin DOMAIN r.mem
                \/ r.ok = FALSE
  OBVIOUS
<1> HIDE DEF r, out
<1>3. CASE n \notin DOMAIN i.mem
  BY <1>1, <1>3
<1>4. CASE n \in DOMAIN i.mem /\ ~replace
  BY <1>1, <1>4, Rejected DEF Going, Fresh
<1>5. CASE n \in DOMAIN i.mem /\ replace
  BY <1>1, <1>2, <1>5 DEF Going, Fresh
<1> QED
  BY <1>3, <1>4, <1>5

LEMMA PresetGoing ==
  ASSUME NEW i, NEW n, NEW b, NEW replace, Going(i, replace)
  PROVE  Going(InstallPreset(i, n, b, replace), replace)
<1> DEFINE r == ReplaceOrConflictSet(i, n, replace)
           p == InstallPreset(i, n, b, replace)
<1>1. \/ p = [r EXCEPT !.ok = FALSE]
      \/ r.ok /\ \E set : p = [r EXCEPT !.made = With(@, n, set)]
  BY DEF InstallPreset
<1>2. Going(r, replace) /\ (r.ok /\ ~replace => n \notin DOMAIN sets)
  <2>1. Going(r, replace) /\ (r.ok => n \notin DOMAIN r.mem)
    BY ReplaceGoing
  <2> HIDE DEF r
  <2> QED
    BY <2>1 DEF Going
<1> SUFFICES Going(p, replace)
  OBVIOUS
<1> HIDE DEF r, p
<1>3. CASE p = [r EXCEPT !.ok = FALSE]
  BY <1>2, <1>3, Rejected
<1>4. ASSUME r.ok, NEW set, p = [r EXCEPT !.made = With(@, n, set)]
      PROVE  Going(p, replace)
  BY <1>2, <1>4, Built
<1> QED
  BY <1>1, <1>3, <1>4

LEMMA DemuxGoing ==
  ASSUME NEW n, NEW b, NEW replace
  PROVE  Going(InstallDemux(n, b, replace), replace)
<1> DEFINE r == ReplaceOrConflictSet(Fresh, n, replace)
           p == InstallDemux(n, b, replace)
<1>1. \/ p = [r EXCEPT !.ok = FALSE]
      \/ r.ok /\ \E set : p = [r EXCEPT !.made = With(@, n, set)]
  BY DEF InstallDemux
<1>2. Going(r, replace) /\ (r.ok /\ ~replace => n \notin DOMAIN sets)
  <2>1. Going(Fresh, replace)
    BY FreshGoing
  <2>2. Going(r, replace) /\ (r.ok => n \notin DOMAIN r.mem)
    BY <2>1, ReplaceGoing
  <2> HIDE DEF r
  <2> QED
    BY <2>2 DEF Going
<1> SUFFICES Going(p, replace)
  OBVIOUS
<1> HIDE DEF r, p
<1>3. CASE p = [r EXCEPT !.ok = FALSE]
  BY <1>2, <1>3, Rejected
<1>4. ASSUME r.ok, NEW set, p = [r EXCEPT !.made = With(@, n, set)]
      PROVE  Going(p, replace)
  BY <1>2, <1>4, Built
<1> QED
  BY <1>1, <1>3, <1>4

\* What both install handlers come to.
LEMMA InstallSteps ==
  ASSUME NEW t, HandleSetsFromPresets(t) \/ HandleSetsFromDemuxGroup(t)
  PROVE  \E i, activate, replace, j :
           /\ \E op : Request(t, op)
           /\ Asked(activate, replace)
           /\ Going(i, replace)
           /\ j \in {Job("install"), Job("activate")}
           /\ Installed(t, i, activate, j)
<1>1. CASE HandleSetsFromPresets(t)
  <2>1. PICK n \in Names, m \in Names, b \in SetBodies, c \in SetBodies,
             activate \in BOOLEAN, replace \in BOOLEAN :
        LET one == InstallPreset(Fresh, n, b, replace)
            two == IF (n = m /\ b = c) \/ ~one.ok THEN one ELSE InstallPreset(one, m, c, replace)
        IN  Request(t, "fromPresets") /\ Asked(activate, replace)
            /\ Installed(t, two, activate, Job("install"))
    BY <1>1 DEF HandleSetsFromPresets
  <2> DEFINE one == InstallPreset(Fresh, n, b, replace)
             two == IF (n = m /\ b = c) \/ ~one.ok THEN one ELSE InstallPreset(one, m, c, replace)
  <2>2. Going(one, replace)
    <3>1. Going(Fresh, replace)
      BY FreshGoing
    <3> QED
      BY <3>1, PresetGoing
  <2>3. Going(InstallPreset(one, m, c, replace), replace)
    <3> HIDE DEF one
    <3> QED
      BY <2>2, PresetGoing
  <2>4. Going(two, replace)
    BY <2>2, <2>3
  <2>5. Request(t, "fromPresets") /\ Asked(activate, replace) /\ Installed(t, two, activate, Job("install"))
    BY <2>1
  <2> HIDE DEF one, two
  <2> QED
    BY <2>4, <2>5
<1>2. CASE HandleSetsFromDemuxGroup(t)
  <2>1. PICK n \in Names, b \in SetBodies, activate \in BOOLEAN, replace \in BOOLEAN :
          /\ Request(t, "fromDemux") /\ Asked(activate, replace)
          /\ Installed(t, InstallDemux(n, b, replace), activate, Job("activate"))
    BY <1>2 DEF HandleSetsFromDemuxGroup
  <2>2. Going(InstallDemux(n, b, replace), replace)
    BY DemuxGoing
  <2> QED
    BY <2>1, <2>2
<1> QED
  BY <1>1, <1>2

-----------------------------------------------------------------------------
(* The owner of what is active *)

\* Every step leaves the owner where the active sets and the hub are, or reports an error.
LEMMA OwnedStep == Owned /\ [Next]_vars => Owned'
<1> SUFFICES ASSUME Owned, [Next]_vars PROVE Owned'
  OBVIOUS
<1> USE DEF Owned, Live
<1>1. CASE UNCHANGED vars
  BY <1>1 DEF vars, stores
<1>2. ASSUME NEW t, \/ HandleSetsCreate(t) \/ HandleSetsPut(t) \/ HandleSetsDelete(t)
                    \/ HandleConfigFragment(t) \/ UserFlips(t) \/ HandleCommitsPost(t)
      PROVE  Owned'
  BY <1>2 DEF HandleSetsCreate, HandleSetsPut, HandleSetsDelete, HandleConfigFragment, UserFlips,
              HandleCommitsPost, stores, Then
<1>3. ASSUME NEW t, HandleSetsActivate(t) PROVE Owned'
  BY <1>3 DEF HandleSetsActivate
<1>4. ASSUME NEW t, HandleSetsDeactivate(t) PROVE Owned'
  BY <1>4 DEF HandleSetsDeactivate, Then
<1>5. ASSUME NEW t, HandleWgPut(t) PROVE Owned'
  BY <1>5 DEF HandleWgPut, Then
<1>6. ASSUME NEW t, HandleSub(t) PROVE Owned'
  BY <1>6 DEF HandleSub, Scrubbed
<1>7. ASSUME NEW t, HandleSetsFromPresets(t) \/ HandleSetsFromDemuxGroup(t) PROVE Owned'
  <2>1. PICK i, activate, replace, j : Going(i, replace) /\ Installed(t, i, activate, j)
    BY <1>7, InstallSteps
  <2> QED
    BY <2>1 DEF Installed, Going, Then
<1>8. ASSUME NEW t, PersistCommitBlock(t) PROVE Owned'
  <2>1. PICK i \in job[t].todo :
        LET b == job[t].blocks[i] IN
        \/ erred' = TRUE
        \/ /\ hub' = IF i = Wg THEN [b EXCEPT !.exit = hub.exit] ELSE hub
           /\ owner' = IF i = Wg /\ hub'.on THEN "controlplane" ELSE owner
           /\ UNCHANGED <<active, erred>>
    BY <1>8 DEF PersistCommitBlock
  <2> QED
    BY <2>1
<1>9. ASSUME NEW t, SaveHeads(t) \/ Accept(t) \/ RematApply(t) PROVE Owned'
  BY <1>9 DEF SaveHeads, Accept, RematApply, stores
<1>10. ASSUME NEW t, ActivateCommitSets(t) PROVE Owned'
  BY <1>10 DEF ActivateCommitSets
<1>11. ASSUME NEW t, RematReturns(t) PROVE Owned'
  BY <1>11 DEF RematReturns, Scrubbed
<1>12. ASSUME NEW t, RematRead(t) PROVE Owned'
  BY <1>12 DEF RematRead
<1>13. ASSUME NEW t, Undo(t) \/ Done(t) \/ CommitFinishes(t) PROVE Owned'
  BY <1>13 DEF Undo, Done, CommitFinishes
<1>14. CASE CrashAndBoot
  BY <1>14 DEF CrashAndBoot, Scrubbed
<1> QED
  BY <1>1, <1>2, <1>3, <1>4, <1>5, <1>6, <1>7, <1>8, <1>9, <1>10, <1>11, <1>12, <1>13, <1>14
     DEF Next, Continue

\* No request, commit, failure or restart leaves an active set or an enabled hub under another
\* owner, unless an error was reported (LiveOwned).
THEOREM ActiveIsOwned == Spec => []LiveOwned
<1>1. Init => Owned
  BY DEF Init, Owned, Live, NoHub
<1>2. Owned => LiveOwned
  BY DEF Owned, LiveOwned
<1> QED
  BY <1>1, <1>2, OwnedStep, PTL DEF Spec

-----------------------------------------------------------------------------
(* Goroutines and Service.mu *)

LEMMA JobFields == DOMAIN NoJob = Fields /\ \A k : DOMAIN Job(k) = Fields
BY DEF Fields, Job, NoJob

LEMMA Moves ==
  ASSUME Shape, NEW t \in Threads, NEW l, NEW j, DOMAIN j = Fields, Goto(t, l, j)
  PROVE  /\ Shape'
         /\ pc'[t] = l /\ job'[t] = j
         /\ \A x \in Threads \ {t} : pc'[x] = pc[x] /\ job'[x] = job[x]
BY DEF Shape, Goto

\* A goroutine that moves on without Service.mu leaves it to its holder.
LEMMA HeldMoves ==
  ASSUME Shape, Held, NEW t \in Threads, NEW l, NEW j, DOMAIN j = Fields, Goto(t, l, j),
         l # "apply", sMu' = sMu
  PROVE  Held'
BY Moves DEF Held

Grounded == Shape /\ Held

LEMMA GroundedMoves ==
  ASSUME Grounded, NEW t \in Threads, NEW l, NEW j, DOMAIN j = Fields, Goto(t, l, j),
         l # "apply", sMu' = sMu
  PROVE  Grounded'
BY Moves, HeldMoves DEF Grounded

LEMMA GroundedStep == Grounded /\ [Next]_vars => Grounded'
<1> SUFFICES ASSUME Grounded, [Next]_vars PROVE Grounded'
  OBVIOUS
<1>a. Clients \subseteq Threads
  BY DEF Threads
<1>b. \A t \in Threads : DOMAIN job[t] = Fields
  BY DEF Grounded, Shape
<1>1. CASE UNCHANGED vars
  BY <1>1 DEF vars, Grounded, Shape, Held
<1>2. ASSUME NEW t \in Clients,
             \/ HandleSetsCreate(t) \/ HandleSetsDelete(t) \/ HandleSub(t)
      PROVE  Grounded'
  <2>1. Goto(t, "idle", NoJob) /\ sMu' = sMu
    BY <1>2 DEF HandleSetsCreate, HandleSetsDelete, HandleSub, Answer, Request
  <2> QED
    BY <1>a, <2>1, GroundedMoves, JobFields
<1>3. ASSUME NEW t \in Clients, HandleSetsPut(t) \/ HandleConfigFragment(t) \/ UserFlips(t)
      PROVE  Grounded'
  <2>1. sMu' = sMu /\ (Goto(t, "idle", NoJob) \/ Goto(t, "remat", Job("edit")))
    BY <1>3 DEF HandleSetsPut, HandleConfigFragment, UserFlips, Answer, Then, Request
  <2> QED
    BY <1>a, <2>1, GroundedMoves, JobFields
<1>4. ASSUME NEW t \in Clients, HandleSetsActivate(t) \/ HandleSetsDeactivate(t)
      PROVE  Grounded'
  <2>1. /\ sMu' = sMu
        /\ \/ Goto(t, "idle", NoJob)
           \/ \E j : DOMAIN j = Fields /\ Goto(t, "remat", j)
    <3>1. CASE HandleSetsActivate(t)
      <4>1. PICK n : sMu' = sMu /\ Goto(t, "remat", [Job("activate") EXCEPT
                !.prev = Scrubbed(sets), !.was = (owner = "controlplane"), !.names = {n}])
        BY <3>1 DEF HandleSetsActivate, Then, Request
      <4> DEFINE j == [Job("activate") EXCEPT
                !.prev = Scrubbed(sets), !.was = (owner = "controlplane"), !.names = {n}]
      <4>2. DOMAIN j = Fields
        BY JobFields
      <4> QED
        BY <4>1, <4>2
    <3>2. CASE HandleSetsDeactivate(t)
      <4>1. sMu' = sMu /\ (Goto(t, "idle", NoJob) \/ Goto(t, "remat", [Job("deactivate") EXCEPT !.prev = active]))
        BY <3>2 DEF HandleSetsDeactivate, Then, Request, Answer
      <4>2. DOMAIN [Job("deactivate") EXCEPT !.prev = active] = Fields
        BY JobFields
      <4> QED
        BY <4>1, <4>2
    <3> QED
      BY <1>4, <3>1, <3>2
  <2> QED
    BY <1>a, <2>1, GroundedMoves, JobFields
<1>5. ASSUME NEW t \in Clients, HandleWgPut(t) PROVE Grounded'
  <2>1. sMu' = sMu /\ (Goto(t, "ok", Job("wg")) \/ Goto(t, "remat", Job("wg")))
    BY <1>5 DEF HandleWgPut, Then, Request
  <2> QED
    BY <1>a, <2>1, GroundedMoves, JobFields
<1>6. ASSUME NEW t \in Clients, HandleSetsFromPresets(t) \/ HandleSetsFromDemuxGroup(t)
      PROVE  Grounded'
  <2>1. PICK i, activate, replace, j :
          (\E op : Request(t, op)) /\ j \in {Job("install"), Job("activate")} /\ Installed(t, i, activate, j)
    BY <1>6, InstallSteps
  <2> DEFINE k == [j EXCEPT !.prev = i.act \cap DOMAIN sets', !.was = (owner = "controlplane"),
                            !.names = DOMAIN i.made]
  <2>2. sMu' = sMu /\ (Goto(t, "idle", NoJob) \/ Goto(t, "remat", k))
    BY <2>1 DEF Installed, Then, Answer, Request
  <2>3. DOMAIN k = Fields
    BY <2>1, JobFields
  <2> HIDE DEF k
  <2> QED
    BY <1>a, <2>2, <2>3, GroundedMoves, JobFields
<1>7. ASSUME NEW t \in Clients, HandleCommitsPost(t) PROVE Grounded'
  <2>1. PICK b : sMu' = sMu /\ Goto(t, "persist", [Job("post") EXCEPT !.blocks = b, !.todo = DOMAIN b, !.heads = heads])
    BY <1>7 DEF HandleCommitsPost, Request
  <2> DEFINE j == [Job("post") EXCEPT !.blocks = b, !.todo = DOMAIN b, !.heads = heads]
  <2>2. DOMAIN j = Fields
    BY JobFields
  <2> HIDE DEF j
  <2>3. Goto(t, "persist", j)
    BY <2>1 DEF j
  <2> QED
    BY <1>a, <2>1, <2>2, <2>3, GroundedMoves
<1>8. ASSUME NEW t \in Threads, PersistCommitBlock(t) PROVE Grounded'
  <2>1. PICK i : /\ sMu' = sMu
                 /\ \/ Goto(t, "idle", NoJob)
                    \/ pc' = pc /\ job' = [job EXCEPT ![t].todo = @ \ {i}]
    BY <1>8 DEF PersistCommitBlock, Answer
  <2>2. CASE Goto(t, "idle", NoJob)
    BY <2>1, <2>2, GroundedMoves, JobFields
  <2>3. CASE pc' = pc /\ job' = [job EXCEPT ![t].todo = @ \ {i}]
    BY <2>1, <2>3 DEF Grounded, Shape, Held
  <2> QED
    BY <2>1, <2>2, <2>3
<1>9. ASSUME NEW t \in Threads, SaveHeads(t) PROVE Grounded'
  <2>1. sMu' = sMu /\ Goto(t, "accept", job[t])
    BY <1>9 DEF SaveHeads
  <2> QED
    BY <1>b, <2>1, GroundedMoves
<1>10. ASSUME NEW t \in Threads, Accept(t) PROVE Grounded'
  <2>1. PICK id \in Commits :
          /\ sMu' = sMu /\ pc' = [pc EXCEPT ![t] = "idle", ![id] = "run"]
          /\ job' = [job EXCEPT ![t] = NoJob, ![id] = [Job("commit") EXCEPT !.id = id, !.prev = active]]
    BY <1>10 DEF Accept
  <2> DEFINE j == [Job("commit") EXCEPT !.id = id, !.prev = active]
  <2>2. DOMAIN j = Fields
    BY JobFields
  <2>3. job' = [job EXCEPT ![t] = NoJob, ![id] = j]
    BY <2>1
  <2> HIDE DEF j
  <2> QED
    BY <2>1, <2>2, <2>3, JobFields DEF Grounded, Shape, Held
<1>11. ASSUME NEW t \in Threads, ActivateCommitSets(t) PROVE Grounded'
  <2>1. sMu' = sMu /\ Goto(t, "remat", job[t])
    BY <1>11 DEF ActivateCommitSets
  <2> QED
    BY <1>b, <2>1, GroundedMoves
<1>12. ASSUME NEW t \in Threads, RematReturns(t) PROVE Grounded'
  <2>1. sMu' = sMu /\ \E l \in {"fail", "ok"} : Goto(t, l, job[t])
    BY <1>12 DEF RematReturns
  <2> QED
    BY <1>b, <2>1, GroundedMoves
<1>13. ASSUME NEW t \in Threads, RematRead(t) PROVE Grounded'
  <2>1. PICK c : sMu = Free /\ sMu' = t /\ Goto(t, "apply", [job[t] EXCEPT !.cfg = c])
    BY <1>13 DEF RematRead
  <2> DEFINE j == [job[t] EXCEPT !.cfg = c]
  <2>2. DOMAIN j = Fields
    BY <1>b
  <2> HIDE DEF j
  <2>3. Shape' /\ pc'[t] = "apply" /\ \A x \in Threads \ {t} : pc'[x] = pc[x]
    BY <2>1, <2>2, Moves DEF j, Grounded
  <2>4. \A x \in Threads : pc[x] # "apply"
    BY <2>1, DesiredAssumption DEF Grounded, Held
  <2> QED
    BY <2>1, <2>3, <2>4 DEF Grounded, Held
<1>14. ASSUME NEW t \in Threads, RematApply(t) PROVE Grounded'
  <2>1. pc[t] = "apply" /\ sMu' = Free /\ \E l \in {"fail", "ok"} : Goto(t, l, job[t])
    BY <1>14 DEF RematApply
  <2>2. Shape' /\ pc'[t] # "apply" /\ \A x \in Threads \ {t} : pc'[x] = pc[x]
    BY <1>b, <2>1, Moves DEF Grounded
  <2>3. \A x \in Threads \ {t} : pc[x] # "apply"
    BY <2>1 DEF Grounded, Held
  <2> QED
    BY <2>2, <2>3 DEF Grounded, Held
<1>15. ASSUME NEW t \in Threads, Undo(t) \/ Done(t) \/ CommitFinishes(t) PROVE Grounded'
  <2>1. sMu' = sMu /\ Goto(t, "idle", NoJob)
    BY <1>15 DEF Undo, Done, CommitFinishes, Answer
  <2> QED
    BY <2>1, GroundedMoves, JobFields
<1>16. CASE CrashAndBoot
  <2>1. /\ \E S : pc' = [t \in Threads |-> IF t = Boot /\ S THEN "remat" ELSE "idle"]
        /\ job' = [t \in Threads |-> IF t = Boot THEN Job("boot") ELSE NoJob]
    BY <1>16 DEF CrashAndBoot
  <2> QED
    BY <2>1, JobFields DEF Grounded, Shape, Held
<1> QED
  BY <1>1, <1>2, <1>3, <1>4, <1>5, <1>6, <1>7, <1>8, <1>9, <1>10, <1>11, <1>12, <1>13, <1>14, <1>15, <1>16
     DEF Next, Continue

\* Users keep their shape: only eligibility and host indices change.
LEMMA UsersStep == UsersOK /\ [Next]_vars => UsersOK'
<1> SUFFICES ASSUME UsersOK, [Next]_vars PROVE UsersOK'
  OBVIOUS
<1>1. ASSUME NEW t, UserFlips(t) PROVE UsersOK'
  BY <1>1 DEF UserFlips, UsersOK
<1>2. ASSUME NEW t, HandleSub(t) PROVE UsersOK'
  <2>1. PICK u \in Users : \/ users' = users
                           \/ ~WgConflict(users, {u}) /\ users' = EnsureWgUserCreds(users, {u})
    BY <1>2 DEF HandleSub, EligibleUsers
  <2>2. ~WgConflict(users, {u}) =>
          EnsureWgUserCreds(users, {u}) \in [Users -> [eligible : BOOLEAN, idx : Hosts \cup {0}]]
    BY EnsureGives
  <2> QED
    BY <2>1, <2>2 DEF UsersOK
<1>3. ASSUME NEW t, RematRead(t) PROVE UsersOK'
  <2>1. \/ users' = users
        \/ ~WgConflict(users, EligibleUsers) /\ users' = EnsureWgUserCreds(users, EligibleUsers)
    BY <1>3 DEF RematRead
  <2>2. EligibleUsers \in SUBSET Users
    BY DEF EligibleUsers
  <2>3. ~WgConflict(users, EligibleUsers) =>
          EnsureWgUserCreds(users, EligibleUsers) \in [Users -> [eligible : BOOLEAN, idx : Hosts \cup {0}]]
    BY <2>2, EnsureGives
  <2> QED
    BY <2>1, <2>3 DEF UsersOK
<1>4. ASSUME UNCHANGED users PROVE UsersOK'
  BY <1>4 DEF UsersOK
<1>5. ASSUME NEW t, \/ HandleSetsCreate(t) \/ HandleSetsPut(t) \/ HandleSetsDelete(t)
                    \/ HandleSetsActivate(t) \/ HandleSetsDeactivate(t)
                    \/ HandleWgPut(t) \/ HandleConfigFragment(t) \/ HandleCommitsPost(t)
      PROVE  UNCHANGED users
  BY <1>5 DEF HandleSetsCreate, HandleSetsPut, HandleSetsDelete, HandleSetsActivate, HandleSetsDeactivate,
              HandleWgPut, HandleConfigFragment, HandleCommitsPost, stores
<1>6. ASSUME NEW t, HandleSetsFromPresets(t) \/ HandleSetsFromDemuxGroup(t) PROVE UNCHANGED users
  BY <1>6, InstallSteps DEF Installed
<1>7. ASSUME NEW t, \/ PersistCommitBlock(t) \/ SaveHeads(t) \/ Accept(t) \/ ActivateCommitSets(t)
                    \/ RematReturns(t) \/ RematApply(t) \/ Undo(t) \/ Done(t) \/ CommitFinishes(t)
      PROVE  UNCHANGED users
  BY <1>7 DEF PersistCommitBlock, SaveHeads, Accept, ActivateCommitSets, RematReturns, RematApply,
              Undo, Done, CommitFinishes, stores
<1>8. CrashAndBoot => UNCHANGED users
  BY DEF CrashAndBoot
<1>9. UNCHANGED vars => UNCHANGED users
  BY DEF vars, stores
<1> QED
  BY <1>1, <1>2, <1>3, <1>4, <1>5, <1>6, <1>7, <1>8, <1>9 DEF Next, Continue

-----------------------------------------------------------------------------
(* What runs is what the stores want *)

\* What is active is installed, and every user the hub serves has its host index.
Steady ==
  /\ active \subseteq DOMAIN sets
  /\ hub.on => \A u \in EligibleUsers : users[u].idx # 0

\* As long as somebody is going to rebuild, nothing is claimed.
LEMMA Dirty ==
  ASSUME NEW t \in Threads, pc'[t] \in {"persist", "accept", "run", "remat", "fail"}
  PROVE  ServeInv'
BY DEF ServeInv, Settled, Unsettled

LEMMA DirtyMoves ==
  ASSUME Shape, NEW t \in Threads, NEW l \in {"persist", "accept", "run", "remat", "fail"}, NEW j, Goto(t, l, j)
  PROVE  ServeInv'
<1>1. pc'[t] = l
  BY DEF Shape, Goto
<1> QED
  BY <1>1, Dirty

\* The end of a request that changes nothing the box is built of.
LEMMA CalmMoves ==
  ASSUME Shape, ServeInv, NEW t \in Threads, NEW l \in {"idle", "ok"}, NEW j, DOMAIN j = Fields,
         Goto(t, l, j), pc[t] \in {"idle", "ok"}, UNCHANGED running,
         ~erred' => ~erred, owner' = "controlplane" => owner = "controlplane",
         Live(active, hub)' => Live(active, hub),
         Steady /\ ~erred' /\ Live(active, hub)' => Steady' /\ Wanted' = Wanted
  PROVE  ServeInv'
<1>1. /\ pc'[t] = l /\ job'[t] = j
      /\ \A x \in Threads \ {t} : pc'[x] = pc[x] /\ job'[x] = job[x]
  BY Moves
<1>2. SUFFICES ASSUME Settled'
               PROVE  /\ Steady'
                      /\ \A x \in Threads : pc'[x] = "apply" => job'[x].cfg = Wanted'
                      /\ (\A x \in Threads : pc'[x] # "apply") => running' = Wanted'
  BY DEF ServeInv, Steady
<1>3. ~Unsettled
  BY <1>1, <1>2 DEF Settled, Unsettled
<1>4. Settled
  BY <1>2, <1>3 DEF Settled
<1>5. Steady' /\ Wanted' = Wanted
  BY <1>2, <1>4 DEF ServeInv, Settled, Steady
<1> QED
  BY <1>1, <1>4, <1>5 DEF ServeInv

\* What was built stays right when only sets that are not active change.
LEMMA SameWanted ==
  ASSUME Steady, UNCHANGED <<active, docs, users>>, active \subseteq DOMAIN sets',
         \A n \in active : sets'[n] = sets[n],
         hub'.on <=> hub.on, hub.on => hub' = hub
  PROVE  Steady' /\ Wanted' = Wanted
<1>1. active \cap DOMAIN sets = active /\ active' \cap DOMAIN sets' = active
  BY DEF Steady
<1>2. [n \in active |-> sets'[n]] = [n \in active |-> sets[n]]
  OBVIOUS
<1>3. EligibleUsers' = EligibleUsers
  BY DEF EligibleUsers
<1>4. Steady'
  BY <1>3 DEF Steady
<1>5. Build(active, users)' = Build(active, users)
  BY <1>2, <1>3 DEF Build
<1> QED
  BY <1>1, <1>4, <1>5 DEF Wanted

\* Everything is built from one reading of the stores.
LEMMA ReadServes ==
  ASSUME Grounded, UsersOK, NEW t \in Threads, RematRead(t)
  PROVE  ServeInv'
<1> DEFINE act == Scrubbed(sets)
           us == IF hub.on THEN EnsureWgUserCreds(users, EligibleUsers) ELSE users
           c == Build(act, us)
           j == [job[t] EXCEPT !.cfg = c]
<1>1. /\ sMu = Free
      /\ hub.on => ~WgConflict(users, EligibleUsers)
      /\ active' = act /\ users' = us /\ Goto(t, "apply", j) /\ UNCHANGED <<sets, docs, hub>>
  BY DEF RematRead
<1>2. act \subseteq DOMAIN sets
  BY DEF Scrubbed
<1>3. EligibleUsers \in SUBSET Users
  BY DEF EligibleUsers
<1>4. /\ \A u \in Users : us[u].eligible = users[u].eligible
      /\ hub.on => \A u \in EligibleUsers : us[u].idx # 0
  <2>1. CASE hub.on
    <3>1. ~WgConflict(users, EligibleUsers)
      BY <1>1, <2>1
    <3>2. us = EnsureWgUserCreds(users, EligibleUsers)
      BY <2>1
    <3> HIDE DEF us
    <3> QED
      BY <1>3, <3>1, <3>2, EnsureGives
  <2>2. CASE ~hub.on
    BY <2>2
  <2> QED
    BY <2>1, <2>2
<1>5. DOMAIN j = Fields /\ j.cfg = c
  BY JobFields DEF Grounded, Shape, Fields, NoJob
<1> HIDE DEF act, us, c, j
<1>6. EligibleUsers' = EligibleUsers
  BY <1>1, <1>4 DEF EligibleUsers
<1>7. Steady'
  BY <1>1, <1>2, <1>4, <1>6 DEF Steady
<1>8. Wanted' = c
  <2>1. active' \cap DOMAIN sets' = act
    BY <1>1, <1>2
  <2>2. Wanted' = [sets  |-> [n \in act |-> sets[n]],
                   docs  |-> docs,
                   wg    |-> IF hub.on THEN hub ELSE NoHub,
                   peers |-> IF hub.on THEN {<<u, us[u].idx>> : u \in EligibleUsers} ELSE {}]
    BY <1>1, <1>6, <2>1 DEF Wanted, Build
  <2> QED
    BY <2>2 DEF Build, c
<1>9. pc'[t] = "apply" /\ job'[t] = j /\ \A x \in Threads \ {t} : pc'[x] = pc[x]
  BY <1>1, <1>5, Moves DEF Grounded
<1>10. \A x \in Threads \ {t} : pc'[x] # "apply"
  BY <1>1, <1>9, DesiredAssumption DEF Grounded, Held
<1>11. \A x \in Threads : pc'[x] = "apply" => job'[x].cfg = Wanted'
  BY <1>5, <1>8, <1>9, <1>10
<1> QED
  BY <1>7, <1>9, <1>11 DEF ServeInv, Steady

\* What starts is what was built; what does not start is reported.
LEMMA ApplyServes ==
  ASSUME Grounded, ServeInv, NEW t \in Threads, RematApply(t)
  PROVE  ServeInv'
<1>1. CASE Goto(t, "fail", job[t])
  BY <1>1, DirtyMoves DEF Grounded
<1>2. CASE running' = job[t].cfg /\ Goto(t, "ok", job[t])
  <2>1. pc[t] = "apply" /\ UNCHANGED <<stores, erred>> /\ DOMAIN job[t] = Fields
    BY DEF RematApply, Grounded, Shape
  <2>2. pc'[t] = "ok" /\ \A x \in Threads \ {t} : pc'[x] = pc[x]
    BY <1>2, <2>1, Moves DEF Grounded
  <2>3. \A x \in Threads \ {t} : pc[x] # "apply"
    BY <2>1 DEF Grounded, Held
  <2>4. Settled' => Settled
    BY <2>1, <2>2 DEF Settled, Unsettled, stores, Live
  <2>5. Wanted' = Wanted /\ EligibleUsers' = EligibleUsers
    BY <2>1 DEF Wanted, EligibleUsers, Build, stores
  <2>6. Settled => running' = Wanted
    BY <1>2, <2>1 DEF ServeInv
  <2> QED
    BY <2>1, <2>2, <2>3, <2>4, <2>5, <2>6 DEF ServeInv, stores
<1> QED
  BY <1>1, <1>2 DEF RematApply

\* Rendering a subscription gives credentials only to a user the box does not know.
LEMMA SubServes ==
  ASSUME Grounded, UsersOK, ServeInv, NEW t \in Threads, HandleSub(t)
  PROVE  ServeInv'
<1>1. PICK u \in EligibleUsers :
        /\ active' = Scrubbed(sets)
        /\ users' = IF hub.on /\ ~WgConflict(users, {u}) THEN EnsureWgUserCreds(users, {u}) ELSE users
  BY DEF HandleSub
<1>2. /\ Goto(t, "idle", NoJob) /\ pc[t] = "idle"
      /\ UNCHANGED <<running, erred, owner, sets, hub, docs>>
  BY DEF HandleSub, Answer, Request
<1>3. ASSUME Steady PROVE UNCHANGED <<active, users>>
  <2>1. active' = active
    BY <1>1, <1>3 DEF Steady, Scrubbed
  <2>2. CASE hub.on /\ ~WgConflict(users, {u})
    <3>1. {u} \in SUBSET Users /\ \A v \in {u} : users[v].idx # 0
      BY <1>3, <2>2 DEF Steady, EligibleUsers
    <3>2. EnsureWgUserCreds(users, {u}) = users
      BY <2>2, <3>1, EnsureGives
    <3> QED
      BY <1>1, <2>1, <2>2, <3>2
  <2>3. CASE ~(hub.on /\ ~WgConflict(users, {u}))
    BY <1>1, <2>1, <2>3
  <2> QED
    BY <2>2, <2>3
<1>4. Live(active, hub)' => Live(active, hub)
  BY <1>1, <1>2 DEF Live, Scrubbed
<1>5. Steady => Steady' /\ Wanted' = Wanted
  <2>1. SUFFICES ASSUME Steady PROVE Steady' /\ Wanted' = Wanted
    OBVIOUS
  <2>2. UNCHANGED <<active, users, docs, sets, hub>> /\ active \subseteq DOMAIN sets'
    BY <1>2, <1>3, <2>1 DEF Steady
  <2> QED
    BY <2>1, <2>2, SameWanted
<1> QED
  BY <1>2, <1>4, <1>5, CalmMoves, JobFields DEF Grounded

\* An install that does not activate adds sets only; one that may take an active set away
\* activates what it put in its place (no "stage" among Ops), or reports an error.
LEMMA InstallServes ==
  ASSUME "stage" \notin Ops, Grounded, ServeInv, NEW t \in Threads,
         HandleSetsFromPresets(t) \/ HandleSetsFromDemuxGroup(t)
  PROVE  ServeInv'
<1>1. PICK i, activate, replace, j :
        /\ \E op : Request(t, op)
        /\ Asked(activate, replace) /\ Going(i, replace) /\ Installed(t, i, activate, j)
  BY InstallSteps
<1>2. pc[t] = "idle" /\ UNCHANGED running
  BY <1>1 DEF Request
<1>3. CASE i.ok /\ activate
  <2>1. PICK k : Goto(t, "remat", k)
    BY <1>1, <1>3 DEF Installed, Then
  <2> QED
    BY <2>1, DirtyMoves DEF Grounded
<1>4. CASE ~(i.ok /\ activate)
  <2>1. /\ active' = i.act /\ erred' = (erred \/ ~i.ok)
        /\ Goto(t, "idle", NoJob) /\ UNCHANGED <<owner, hub, docs, users>>
    BY <1>1, <1>4 DEF Installed, Answer
  <2>2. Live(active, hub)' => Live(active, hub)
    BY <1>1, <2>1 DEF Live, Going
  <2>3. ASSUME Steady, ~erred' PROVE Steady' /\ Wanted' = Wanted
    <3>1. i.ok /\ ~replace
      BY <1>1, <1>4, <2>1, <2>3 DEF Asked
    <3>2. /\ active' = active /\ i.mem = sets /\ DOMAIN i.made \cap DOMAIN sets = {}
          /\ sets' = [x \in DOMAIN i.mem \cup DOMAIN i.made |-> IF x \in DOMAIN i.made THEN i.made[x] ELSE i.mem[x]]
      BY <1>1, <2>1, <3>1 DEF Going, Installed
    <3>3. active \subseteq DOMAIN sets' /\ \A n \in active : sets'[n] = sets[n]
      BY <2>3, <3>2 DEF Steady
    <3> QED
      BY <2>1, <2>3, <3>2, <3>3, SameWanted
  <2> QED
    BY <1>2, <2>1, <2>2, <2>3, CalmMoves, JobFields DEF Grounded
<1> QED
  BY <1>3, <1>4

LEMMA ServeStep ==
  "stage" \notin Ops => (Grounded /\ UsersOK /\ ServeInv /\ [Next]_vars => ServeInv')
<1> SUFFICES ASSUME "stage" \notin Ops, Grounded, UsersOK, ServeInv, [Next]_vars
             PROVE  ServeInv'
  OBVIOUS
<1>a. Clients \subseteq Threads
  BY DEF Threads
<1>b. Shape
  BY DEF Grounded
<1>1. CASE UNCHANGED vars
  <2>1. Wanted' = Wanted /\ EligibleUsers' = EligibleUsers
    BY <1>1 DEF vars, stores, Wanted, EligibleUsers, Build
  <2>2. Settled' => Settled
    BY <1>1 DEF vars, stores, Settled, Live, Unsettled
  <2> QED
    BY <1>1, <2>1, <2>2 DEF vars, stores, ServeInv
<1>2. ASSUME NEW t \in Clients, HandleSetsCreate(t) \/ HandleSetsDelete(t) PROVE ServeInv'
  <2>1. /\ pc[t] = "idle" /\ Goto(t, "idle", NoJob)
        /\ UNCHANGED <<active, hub, docs, users, owner, erred, running>>
        /\ active \subseteq DOMAIN sets =>
             active \subseteq DOMAIN sets' /\ \A n \in active : sets'[n] = sets[n]
    <3>1. CASE HandleSetsCreate(t)
      BY <3>1 DEF HandleSetsCreate, Answer, Request, With
    <3>2. CASE HandleSetsDelete(t)
      BY <3>2 DEF HandleSetsDelete, Answer, Request, Without
    <3> QED
      BY <1>2, <3>1, <3>2
  <2>2. Live(active, hub)' => Live(active, hub)
    BY <2>1 DEF Live
  <2>3. Steady => Steady' /\ Wanted' = Wanted
    BY <2>1, SameWanted DEF Steady
  <2> QED
    BY <1>a, <1>b, <2>1, <2>2, <2>3, CalmMoves, JobFields
<1>3. ASSUME NEW t \in Clients, HandleSetsPut(t) PROVE ServeInv'
  <2>1. PICK n \in DOMAIN sets, b \in SetBodies :
          /\ sets' = With(sets, n, b) /\ pc[t] = "idle"
          /\ UNCHANGED <<active, hub, docs, users, owner, erred, running>>
          /\ IF n \in active THEN Goto(t, "remat", Job("edit")) ELSE Goto(t, "idle", NoJob)
    BY <1>3 DEF HandleSetsPut, Request, Then, Answer
  <2>2. CASE n \in active
    BY <1>a, <1>b, <2>1, <2>2, DirtyMoves
  <2>3. CASE n \notin active
    <3>1. active \subseteq DOMAIN sets =>
            active \subseteq DOMAIN sets' /\ \A m \in active : sets'[m] = sets[m]
      BY <2>1, <2>3 DEF With
    <3>2. Live(active, hub)' => Live(active, hub)
      BY <2>1 DEF Live
    <3>3. Steady => Steady' /\ Wanted' = Wanted
      BY <2>1, <3>1, SameWanted DEF Steady
    <3> QED
      BY <1>a, <1>b, <2>1, <2>3, <3>2, <3>3, CalmMoves, JobFields
  <2> QED
    BY <2>2, <2>3
<1>4. ASSUME NEW t \in Clients, HandleSub(t) PROVE ServeInv'
  BY <1>a, <1>4, SubServes
<1>5. ASSUME NEW t \in Clients,
             HandleSetsActivate(t) \/ HandleConfigFragment(t) \/ UserFlips(t) \/ HandleCommitsPost(t)
      PROVE  ServeInv'
  <2>1. \E l \in {"remat", "persist"} : \E j : Goto(t, l, j)
    BY <1>5 DEF HandleSetsActivate, HandleConfigFragment, UserFlips, HandleCommitsPost, Then
  <2> QED
    BY <1>a, <1>b, <2>1, DirtyMoves
<1>6. ASSUME NEW t \in Clients, HandleSetsDeactivate(t) PROVE ServeInv'
  <2>1. owner' = "idle" \/ \E j : Goto(t, "remat", j)
    BY <1>6 DEF HandleSetsDeactivate, Then
  <2> QED
    BY <1>a, <1>b, <2>1, DirtyMoves DEF ServeInv, Settled
<1>7. ASSUME NEW t \in Clients, HandleWgPut(t) PROVE ServeInv'
  <2>1. PICK h : /\ pc[t] = "idle" /\ hub' = h /\ owner' = (IF h.on THEN "controlplane" ELSE owner)
                 /\ UNCHANGED <<sets, active, docs, users, erred, running>>
                 /\ IF h.on \/ hub.on THEN Goto(t, "remat", Job("wg")) ELSE Goto(t, "ok", Job("wg"))
    BY <1>7 DEF HandleWgPut, Request, Then
  <2>2. CASE h.on \/ hub.on
    BY <1>a, <1>b, <2>1, <2>2, DirtyMoves
  <2>3. CASE ~(h.on \/ hub.on)
    <3>1. Live(active, hub)' => Live(active, hub)
      BY <2>1, <2>3 DEF Live
    <3>2. Steady => Steady' /\ Wanted' = Wanted
      BY <2>1, <2>3, SameWanted DEF Steady
    <3> QED
      BY <1>a, <1>b, <2>1, <2>3, <3>1, <3>2, CalmMoves, JobFields
  <2> QED
    BY <2>2, <2>3
<1>8. ASSUME NEW t \in Clients, HandleSetsFromPresets(t) \/ HandleSetsFromDemuxGroup(t) PROVE ServeInv'
  BY <1>a, <1>8, InstallServes
<1>9. ASSUME NEW t \in Threads, PersistCommitBlock(t) PROVE ServeInv'
  <2>1. erred' = TRUE \/ pc'[t] = "persist"
    BY <1>9 DEF PersistCommitBlock
  <2> QED
    BY <2>1, Dirty DEF ServeInv, Settled
<1>10. ASSUME NEW t \in Threads, SaveHeads(t) \/ ActivateCommitSets(t) PROVE ServeInv'
  <2>1. \E l \in {"accept", "remat"} : Goto(t, l, job[t])
    BY <1>10 DEF SaveHeads, ActivateCommitSets
  <2> QED
    BY <1>b, <2>1, DirtyMoves
<1>11. ASSUME NEW t \in Threads, Accept(t) PROVE ServeInv'
  <2>1. PICK id \in Commits : pc' = [pc EXCEPT ![t] = "idle", ![id] = "run"]
    BY <1>11 DEF Accept
  <2>2. id \in Threads /\ pc'[id] = "run"
    BY <1>b, <2>1 DEF Threads, Shape
  <2> QED
    BY <2>2, Dirty
<1>12. ASSUME NEW t \in Threads, RematReturns(t) PROVE ServeInv'
  <2> DEFINE act == Scrubbed(sets)
             mine == owner = "controlplane"
             bad == mine /\ hub.on /\ (WgConflict(users, EligibleUsers) \/ BuildFails)
  <2>1. /\ ~mine \/ ~Live(act, hub) \/ bad
        /\ active' = IF mine THEN act ELSE active
        /\ Goto(t, IF bad THEN "fail" ELSE "ok", job[t])
        /\ UNCHANGED <<owner, hub>>
    BY <1>12 DEF RematReturns
  <2>2. CASE bad
    <3>1. Goto(t, "fail", job[t])
      BY <2>1, <2>2
    <3> QED
      BY <1>b, <3>1, DirtyMoves
  <2>3. CASE ~bad
    <3>1. ~mine \/ ~Live(act, hub)
      BY <2>1, <2>3
    <3>2. ~(owner' = "controlplane" /\ Live(active, hub)')
      BY <2>1, <3>1 DEF Live
    <3> QED
      BY <3>2 DEF ServeInv, Settled
  <2> QED
    BY <2>2, <2>3
<1>13. ASSUME NEW t \in Threads, RematRead(t) PROVE ServeInv'
  BY <1>13, ReadServes
<1>14. ASSUME NEW t \in Threads, RematApply(t) PROVE ServeInv'
  BY <1>14, ApplyServes
<1>15. ASSUME NEW t \in Threads, Undo(t) PROVE ServeInv'
  BY <1>15 DEF Undo, ServeInv, Settled
<1>16. ASSUME NEW t \in Threads, Done(t) \/ CommitFinishes(t) PROVE ServeInv'
  <2>1. CASE owner' = "idle" \/ erred' = TRUE
    BY <2>1 DEF ServeInv, Settled
  <2>2. CASE ~(owner' = "idle" \/ erred' = TRUE)
    <3>1. /\ pc[t] = "ok" /\ Goto(t, "idle", NoJob)
          /\ ~erred' => ~erred
          /\ owner' = owner
          /\ UNCHANGED <<active, sets, hub, docs, users, running>>
      BY <1>16, <2>2 DEF Done, CommitFinishes, Answer
    <3>2. Live(active, hub)' => Live(active, hub)
      BY <3>1 DEF Live
    <3>3. Steady => Steady' /\ Wanted' = Wanted
      BY <3>1, SameWanted DEF Steady
    <3> QED
      BY <1>b, <3>1, <3>2, <3>3, CalmMoves, JobFields
  <2> QED
    BY <2>1, <2>2
<1>17. CASE CrashAndBoot
  <2>1. owner' # "controlplane" \/ pc'[Boot] = "remat"
    BY <1>17 DEF CrashAndBoot, Threads
  <2> QED
    BY <2>1, Dirty DEF ServeInv, Settled, Threads
<1> QED
  BY <1>1, <1>2, <1>3, <1>4, <1>5, <1>6, <1>7, <1>8, <1>9, <1>10, <1>11, <1>12, <1>13, <1>14, <1>15,
     <1>16, <1>17 DEF Next, Continue

LEMMA InitServes == Init => Grounded /\ UsersOK /\ ServeInv
<1> SUFFICES ASSUME Init PROVE Grounded /\ UsersOK /\ ServeInv
  OBVIOUS
<1>1. Grounded /\ UsersOK
  BY JobFields DEF Init, Grounded, Shape, Held, UsersOK
<1>2. IsSets(sets) /\ active = DOMAIN sets /\ hub = NoHub /\ ~hub.on
  BY DesiredAssumption DEF Init, NoHub
<1>3. active \cap DOMAIN sets = DOMAIN sets /\ sets = [n \in DOMAIN sets |-> sets[n]]
  BY <1>2 DEF IsSets
<1>4. Wanted = [sets |-> sets, docs |-> docs, wg |-> NoHub, peers |-> {}]
  BY <1>2, <1>3 DEF Wanted, Build
<1>5. running = [sets |-> sets, docs |-> docs, wg |-> NoHub, peers |-> {}]
  BY DEF Init, NoConfig
<1>6. \A t \in Threads : pc[t] # "apply"
  BY DEF Init
<1> QED
  BY <1>1, <1>2, <1>4, <1>5, <1>6 DEF ServeInv

\* When no request or commit is under way, the control plane has something to serve and nobody
\* was told of an error since it was built, the box runs exactly what the stores say: after any
\* number of requests, commits and restarts of any number of clients (Served).  Replacing an
\* active set without activating the new one ("stage") is the request that leaves the old one
\* running, and is left out.
THEOREM BoxRunsStores == "stage" \notin Ops => (Spec => []Served)
<1> SUFFICES ASSUME "stage" \notin Ops PROVE Spec => []Served
  OBVIOUS
<1> DEFINE Inv == Grounded /\ UsersOK /\ ServeInv
<1>1. Init => Inv
  BY InitServes
<1>2. Inv /\ [Next]_vars => Inv'
  BY GroundedStep, UsersStep, ServeStep
<1>3. Inv => Served
  BY DEF ServeInv, Settled, Unsettled, Served, Quiet, Wanted
<1> QED
  BY <1>1, <1>2, <1>3, PTL DEF Spec

-----------------------------------------------------------------------------
(* The ports of the sets *)

\* Fewer sets clash no more.
LEMMA ApartWithin ==
  ASSUME NEW f, NEW g, Apart(g), DOMAIN f \subseteq DOMAIN g, \A x \in DOMAIN f : f[x] = g[x]
  PROVE  Apart(f)
BY DEF Apart

\* A set that passed validateSet clashes with no other one.
LEMMA ApartWith ==
  ASSUME NEW f, NEW g, NEW n, NEW b, Apart(g), b.nets \subseteq Networks, ValidateSet(g, n, b),
         DOMAIN f = DOMAIN g \cup {n}, f[n] = b, \A x \in DOMAIN g \ {n} : f[x] = g[x]
  PROVE  Apart(f)
<1>1. b.nets \subseteq FreshNetworks(b)
  BY DEF FreshNetworks
<1>2. \A o \in DOMAIN g \ {n} : g[o].port # b.port \/ g[o].nets \cap b.nets = {}
  BY <1>1 DEF ValidateSet, PortNetworks
<1> QED
  BY <1>2 DEF Apart

\* The sets an install ends with.
Merged(i) == [x \in DOMAIN i.mem \cup DOMAIN i.made |-> IF x \in DOMAIN i.made THEN i.made[x] ELSE i.mem[x]]

\* Neither what is on disk nor what the install will save clashes.
GoingApart(i) == DOMAIN i = DOMAIN Fresh /\ i.disk = i.mem /\ Apart(i.mem) /\ Apart(Merged(i))

LEMMA FreshApart == PortsDisjoint => GoingApart(Fresh)
<1>1. /\ DOMAIN Merged(Fresh) = DOMAIN sets
      /\ \A x \in DOMAIN sets : Merged(Fresh)[x] = sets[x]
  BY DEF Merged, Fresh
<1> QED
  BY <1>1, ApartWithin DEF PortsDisjoint, GoingApart, Fresh

LEMMA ReplaceApart ==
  ASSUME NEW i, NEW n, NEW replace, GoingApart(i)
  PROVE  GoingApart(ReplaceOrConflictSet(i, n, replace))
<1> DEFINE r == ReplaceOrConflictSet(i, n, replace)
           out == Without(i.mem, {n})
<1>1. /\ DOMAIN r = DOMAIN Fresh /\ r.disk = r.mem /\ r.made = i.made
      /\ r.mem = i.mem \/ r.mem = out
  <2>1. \/ r = i
        \/ r = [i EXCEPT !.ok = FALSE]
        \/ r = [i EXCEPT !.mem = out, !.disk = out, !.act = @ \ {n}]
    BY DEF ReplaceOrConflictSet
  <2> HIDE DEF r, out
  <2> QED
    BY <2>1 DEF GoingApart, Fresh
<1>2. DOMAIN r.mem \subseteq DOMAIN i.mem /\ \A x \in DOMAIN r.mem : r.mem[x] = i.mem[x]
  BY <1>1 DEF Without
<1> HIDE DEF r
<1>3. DOMAIN Merged(r) \subseteq DOMAIN Merged(i) /\ \A x \in DOMAIN Merged(r) : Merged(r)[x] = Merged(i)[x]
  BY <1>1, <1>2 DEF Merged
<1>4. GoingApart(r)
  BY <1>1, <1>2, <1>3, ApartWithin DEF GoingApart
<1> QED
  BY <1>4 DEF r

LEMMA RejectedApart ==
  ASSUME NEW r, GoingApart(r)
  PROVE  GoingApart([r EXCEPT !.ok = FALSE])
BY DEF GoingApart, Merged, Fresh

LEMMA BuiltApart ==
  ASSUME NEW r, NEW n, NEW set, GoingApart(r), set.nets \subseteq Networks, ValidateSet(Merged(r), n, set)
  PROVE  GoingApart([r EXCEPT !.made = With(@, n, set)])
<1> DEFINE p == [r EXCEPT !.made = With(@, n, set)]
<1>1. p.mem = r.mem /\ p.disk = r.disk /\ p.made = With(r.made, n, set) /\ DOMAIN p = DOMAIN Fresh
  BY DEF GoingApart, Fresh
<1> HIDE DEF p
<1>2. /\ DOMAIN Merged(p) = DOMAIN Merged(r) \cup {n} /\ Merged(p)[n] = set
      /\ \A x \in DOMAIN Merged(r) \ {n} : Merged(p)[x] = Merged(r)[x]
  BY <1>1 DEF Merged, With
<1>3. GoingApart(p)
  BY <1>1, <1>2, ApartWith DEF GoingApart
<1> QED
  BY <1>3 DEF p

LEMMA PresetApart ==
  ASSUME NEW i, NEW n, NEW b \in SetBody, NEW replace, GoingApart(i)
  PROVE  GoingApart(InstallPreset(i, n, b, replace))
<1> DEFINE r == ReplaceOrConflictSet(i, n, replace)
           p == InstallPreset(i, n, b, replace)
<1>1. \/ p = [r EXCEPT !.ok = FALSE]
      \/ \E port : LET set == [b EXCEPT !.port = port]
                   IN  ValidateSet(Merged(r), n, set) /\ p = [r EXCEPT !.made = With(@, n, set)]
  BY DEF InstallPreset, Merged
<1>2. GoingApart(r)
  BY ReplaceApart
<1>3. \A port : [b EXCEPT !.port = port].nets \subseteq Networks
  BY DEF SetBody
<1> SUFFICES GoingApart(p)
  OBVIOUS
<1> HIDE DEF r, p
<1>4. CASE p = [r EXCEPT !.ok = FALSE]
  BY <1>2, <1>4, RejectedApart
<1>5. ASSUME NEW port, ValidateSet(Merged(r), n, [b EXCEPT !.port = port]),
             p = [r EXCEPT !.made = With(@, n, [b EXCEPT !.port = port])]
      PROVE  GoingApart(p)
  BY <1>2, <1>3, <1>5, BuiltApart
<1> QED
  BY <1>1, <1>4, <1>5

LEMMA DemuxApart ==
  ASSUME PortsDisjoint, NEW n, NEW b \in SetBody, NEW replace
  PROVE  GoingApart(InstallDemux(n, b, replace))
<1> DEFINE r == ReplaceOrConflictSet(Fresh, n, replace)
           p == InstallDemux(n, b, replace)
<1>1. \/ p = [r EXCEPT !.ok = FALSE]
      \/ \E port : LET set == [b EXCEPT !.port = port, !.demux = TRUE]
                   IN  ValidateSet(r.mem, n, set) /\ p = [r EXCEPT !.made = With(@, n, set)]
  BY DEF InstallDemux
<1>2. GoingApart(r) /\ r.made = <<>>
  <2>1. GoingApart(Fresh)
    BY FreshApart
  <2>2. \A x : Going(Fresh, x)
    BY FreshGoing
  <2>3. r.made = Fresh.made
    BY <2>2, ReplaceGoing
  <2>4. GoingApart(r)
    BY <2>1, ReplaceApart
  <2> HIDE DEF r
  <2> QED
    BY <2>3, <2>4 DEF Fresh
<1>3. \A port : [b EXCEPT !.port = port, !.demux = TRUE].nets \subseteq Networks
  BY DEF SetBody
<1> SUFFICES GoingApart(p)
  OBVIOUS
<1> HIDE DEF r, p
<1>4. CASE p = [r EXCEPT !.ok = FALSE]
  BY <1>2, <1>4, RejectedApart
<1>5. ASSUME NEW port, ValidateSet(r.mem, n, [b EXCEPT !.port = port, !.demux = TRUE]),
             p = [r EXCEPT !.made = With(@, n, [b EXCEPT !.port = port, !.demux = TRUE])]
      PROVE  GoingApart(p)
  <2> DEFINE set == [b EXCEPT !.port = port, !.demux = TRUE]
  <2>1. set.nets \subseteq Networks
    BY <1>3
  <2>2. ValidateSet(r.mem, n, set) /\ p = [r EXCEPT !.made = With(@, n, set)]
    BY <1>5
  <2> HIDE DEF set
  <2>3. DOMAIN Merged(r) = DOMAIN r.mem /\ \A x \in DOMAIN r.mem : Merged(r)[x] = r.mem[x]
    BY <1>2 DEF Merged
  <2>4. ValidateSet(Merged(r), n, set)
    BY <2>2, <2>3 DEF ValidateSet
  <2> QED
    BY <1>2, <2>1, <2>2, <2>4, BuiltApart
<1> QED
  BY <1>1, <1>4, <1>5

LEMMA InstallApart ==
  ASSUME PortsDisjoint, NEW t, HandleSetsFromPresets(t) \/ HandleSetsFromDemuxGroup(t)
  PROVE  PortsDisjoint'
<1>a. SetBodies \subseteq SetBody
  BY DesiredAssumption
<1>1. ASSUME NEW i, NEW activate, NEW j, Installed(t, i, activate, j), GoingApart(i)
      PROVE  PortsDisjoint'
  <2>1. sets' = Merged(i) \/ sets' = i.disk
    BY <1>1 DEF Installed, Merged
  <2> QED
    BY <1>1, <2>1 DEF GoingApart, PortsDisjoint
<1>2. CASE HandleSetsFromPresets(t)
  <2>1. PICK n \in Names, m \in Names, b \in SetBodies, c \in SetBodies,
             activate \in BOOLEAN, replace \in BOOLEAN :
        LET one == InstallPreset(Fresh, n, b, replace)
            two == IF (n = m /\ b = c) \/ ~one.ok THEN one ELSE InstallPreset(one, m, c, replace)
        IN  Installed(t, two, activate, Job("install"))
    BY <1>2 DEF HandleSetsFromPresets
  <2> DEFINE one == InstallPreset(Fresh, n, b, replace)
             two == IF (n = m /\ b = c) \/ ~one.ok THEN one ELSE InstallPreset(one, m, c, replace)
  <2>2. GoingApart(one)
    BY <1>a, FreshApart, PresetApart
  <2>3. GoingApart(InstallPreset(one, m, c, replace))
    <3> HIDE DEF one
    <3> QED
      BY <1>a, <2>2, PresetApart
  <2>4. GoingApart(two)
    BY <2>2, <2>3
  <2> HIDE DEF one, two
  <2> QED
    BY <1>1, <2>1, <2>4 DEF one, two
<1>3. CASE HandleSetsFromDemuxGroup(t)
  <2>1. PICK n \in Names, b \in SetBodies, activate \in BOOLEAN, replace \in BOOLEAN :
          Installed(t, InstallDemux(n, b, replace), activate, Job("activate"))
    BY <1>3 DEF HandleSetsFromDemuxGroup
  <2>2. GoingApart(InstallDemux(n, b, replace))
    BY <1>a, DemuxApart
  <2> QED
    BY <1>1, <2>1, <2>2
<1> QED
  BY <1>2, <1>3

\* The blocks a goroutine still has to persist are blocks a client may post.
Posted == \A t \in Threads : pc[t] = "persist" =>
            IsBlocks(job[t].blocks) /\ job[t].todo \subseteq DOMAIN job[t].blocks

LEMMA PostedMoves ==
  ASSUME Shape, Posted, NEW t \in Threads, NEW l, NEW j, l # "persist", Goto(t, l, j)
  PROVE  Posted'
BY DEF Shape, Posted, Goto

LEMMA PostedStep == Grounded /\ Posted /\ [Next]_vars => Posted'
<1> SUFFICES ASSUME Grounded, Posted, [Next]_vars PROVE Posted'
  OBVIOUS
<1>a. Clients \subseteq Threads
  BY DEF Threads
<1>b. Shape
  BY DEF Grounded
<1> DEFINE Labels == {"idle", "accept", "remat", "apply", "ok", "fail"}
<1>1. CASE UNCHANGED vars
  BY <1>1 DEF vars, Posted
<1>2. ASSUME NEW t \in Threads, \E l \in Labels : \E j : Goto(t, l, j) PROVE Posted'
  BY <1>2, <1>b, PostedMoves
<1>3. ASSUME NEW t \in Clients,
             \/ HandleSetsCreate(t) \/ HandleSetsPut(t) \/ HandleSetsDelete(t)
             \/ HandleSetsActivate(t) \/ HandleSetsDeactivate(t)
             \/ HandleWgPut(t) \/ HandleConfigFragment(t) \/ UserFlips(t) \/ HandleSub(t)
      PROVE  \E l \in Labels : \E j : Goto(t, l, j)
  BY <1>3 DEF HandleSetsCreate, HandleSetsPut, HandleSetsDelete, HandleSetsActivate, HandleSetsDeactivate,
              HandleWgPut, HandleConfigFragment, UserFlips, HandleSub, Answer, Then
<1>4. ASSUME NEW t \in Clients, HandleSetsFromPresets(t) \/ HandleSetsFromDemuxGroup(t)
      PROVE  \E l \in Labels : \E j : Goto(t, l, j)
  <2>1. PICK i, activate, replace, j : Installed(t, i, activate, j)
    BY <1>4, InstallSteps
  <2> QED
    BY <2>1 DEF Installed, Answer, Then
<1>5. ASSUME NEW t \in Clients, HandleCommitsPost(t) PROVE Posted'
  <2>1. PICK b \in Batches :
          Goto(t, "persist", [Job("post") EXCEPT !.blocks = b, !.todo = DOMAIN b, !.heads = heads])
    BY <1>5 DEF HandleCommitsPost
  <2>2. IsBlocks(b)
    BY DesiredAssumption
  <2> DEFINE j == [Job("post") EXCEPT !.blocks = b, !.todo = DOMAIN b, !.heads = heads]
  <2>3. j.blocks = b /\ j.todo = DOMAIN b
    BY DEF Job, NoJob
  <2> HIDE DEF j
  <2>4. job'[t] = j /\ \A x \in Threads \ {t} : pc'[x] = pc[x] /\ job'[x] = job[x]
    BY <1>a, <1>b, <2>1 DEF Goto, Shape, j
  <2> QED
    BY <2>2, <2>3, <2>4 DEF Posted
<1>6. ASSUME NEW t \in Threads, PersistCommitBlock(t) PROVE Posted'
  <2>1. PICK i : \/ Goto(t, "idle", NoJob)
                 \/ pc' = pc /\ job' = [job EXCEPT ![t].todo = @ \ {i}]
    BY <1>6 DEF PersistCommitBlock, Answer
  <2>2. CASE Goto(t, "idle", NoJob)
    BY <1>2, <2>2
  <2>3. CASE pc' = pc /\ job' = [job EXCEPT ![t].todo = @ \ {i}]
    <3>1. /\ job'[t].blocks = job[t].blocks /\ job'[t].todo = job[t].todo \ {i}
          /\ \A x \in Threads \ {t} : job'[x] = job[x]
      BY <1>b, <2>3 DEF Shape, Fields, NoJob
    <3> QED
      BY <2>3, <3>1 DEF Posted
  <2> QED
    BY <2>1, <2>2, <2>3
<1>7. ASSUME NEW t \in Threads,
             \/ SaveHeads(t) \/ ActivateCommitSets(t) \/ RematReturns(t) \/ RematRead(t) \/ RematApply(t)
             \/ Undo(t) \/ Done(t) \/ CommitFinishes(t)
      PROVE  \E l \in Labels : \E j : Goto(t, l, j)
  BY <1>7 DEF SaveHeads, ActivateCommitSets, RematReturns, RematRead, RematApply, Undo, Done,
              CommitFinishes, Answer
<1>8. ASSUME NEW t \in Threads, Accept(t) PROVE Posted'
  <2>1. PICK id \in Commits :
          /\ pc' = [pc EXCEPT ![t] = "idle", ![id] = "run"]
          /\ job' = [job EXCEPT ![t] = NoJob, ![id] = [Job("commit") EXCEPT !.id = id, !.prev = active]]
    BY <1>8 DEF Accept
  <2>2. \A x \in Threads : pc'[x] = "persist" => pc[x] = "persist" /\ job'[x] = job[x]
    BY <1>b, <2>1 DEF Shape
  <2> QED
    BY <2>2 DEF Posted
<1>9. CASE CrashAndBoot
  <2>1. \A x \in Threads : pc'[x] # "persist"
    BY <1>9 DEF CrashAndBoot
  <2> QED
    BY <2>1 DEF Posted
<1> HIDE DEF Labels
<1> QED
  BY <1>a, <1>1, <1>2, <1>3, <1>4, <1>5, <1>6, <1>7, <1>8, <1>9 DEF Next, Continue

\* A block that is persisted clashes with nothing, whatever set it replaces.
LEMMA PersistApart ==
  ASSUME Grounded, Posted, PortsDisjoint, NEW t \in Threads, PersistCommitBlock(t)
  PROVE  PortsDisjoint'
<1>1. PICK i \in job[t].todo :
      LET b == job[t].blocks[i] IN
        /\ pc[t] = "persist"
        /\ \/ UNCHANGED sets
           \/ i \in Names /\ ~SetRefused(i, b) /\ sets' = PersistSet(i, b)
  BY DEF PersistCommitBlock, stores
<1> DEFINE b == job[t].blocks[i]
           out == Without(sets, {i})
           set == [b EXCEPT !.port = IF @ # 0 THEN @ ELSE SuggestListenPort(out, b.nets)]
<1>2. CASE UNCHANGED sets
  BY <1>2 DEF PortsDisjoint
<1>3. CASE i \in Names /\ ~SetRefused(i, b) /\ sets' = PersistSet(i, b)
  <2>1. Apart(out)
    <3>1. DOMAIN out \subseteq DOMAIN sets /\ \A x \in DOMAIN out : out[x] = sets[x]
      BY DEF Without
    <3> HIDE DEF out
    <3> QED
      BY <3>1, ApartWithin DEF PortsDisjoint
  <2>2. CASE b = Deleted
    <3>1. sets' = out
      BY <1>3, <2>2 DEF PersistSet
    <3> QED
      BY <2>1, <3>1 DEF PortsDisjoint
  <2>3. CASE b # Deleted
    <3>1. ValidateSet(out, i, set) /\ sets' = With(out, i, set)
      BY <1>3, <2>3 DEF PersistSet, SetRefused
    <3>2. b \in SetBody
      <4>1. IsBlocks(job[t].blocks) /\ i \in DOMAIN job[t].blocks
        BY <1>1 DEF Posted
      <4>2. i \notin Docs /\ i # Wg
        BY <1>3, DesiredAssumption
      <4> QED
        BY <2>3, <4>1, <4>2 DEF IsBlocks
    <3>3. set.nets \subseteq Networks
      BY <3>2 DEF SetBody
    <3> HIDE DEF set, out
    <3>4. /\ DOMAIN sets' = DOMAIN out \cup {i} /\ sets'[i] = set
          /\ \A x \in DOMAIN out \ {i} : sets'[x] = out[x]
      BY <3>1 DEF With
    <3> QED
      BY <2>1, <3>1, <3>3, <3>4, ApartWith DEF PortsDisjoint
  <2> QED
    BY <2>2, <2>3
<1> QED
  BY <1>1, <1>2, <1>3

LEMMA PortsStep == Grounded /\ Posted /\ PortsDisjoint /\ [Next]_vars => PortsDisjoint'
<1> SUFFICES ASSUME Grounded, Posted, PortsDisjoint, [Next]_vars PROVE PortsDisjoint'
  OBVIOUS
<1>1. ASSUME NEW t, HandleSetsCreate(t) \/ HandleSetsPut(t) PROVE PortsDisjoint'
  <2>1. PICK n \in Names \cup DOMAIN sets, b \in SetBodies : ValidateSet(sets, n, b) /\ sets' = With(sets, n, b)
    BY <1>1 DEF HandleSetsCreate, HandleSetsPut
  <2>2. b.nets \subseteq Networks
    BY DesiredAssumption DEF SetBody
  <2>3. /\ DOMAIN sets' = DOMAIN sets \cup {n} /\ sets'[n] = b
        /\ \A x \in DOMAIN sets \ {n} : sets'[x] = sets[x]
    BY <2>1 DEF With
  <2> QED
    BY <2>1, <2>2, <2>3, ApartWith DEF PortsDisjoint
<1>2. ASSUME NEW t, HandleSetsDelete(t) PROVE PortsDisjoint'
  <2>1. DOMAIN sets' \subseteq DOMAIN sets /\ \A x \in DOMAIN sets' : sets'[x] = sets[x]
    BY <1>2 DEF HandleSetsDelete, Without
  <2> QED
    BY <2>1, ApartWithin DEF PortsDisjoint
<1>3. ASSUME NEW t, HandleSetsFromPresets(t) \/ HandleSetsFromDemuxGroup(t) PROVE PortsDisjoint'
  BY <1>3, InstallApart
<1>4. ASSUME NEW t \in Threads, PersistCommitBlock(t) PROVE PortsDisjoint'
  BY <1>4, PersistApart
<1>5. ASSUME UNCHANGED sets PROVE PortsDisjoint'
  BY <1>5 DEF PortsDisjoint
<1>6. ASSUME NEW t, \/ HandleSetsActivate(t) \/ HandleSetsDeactivate(t) \/ HandleWgPut(t)
                    \/ HandleConfigFragment(t) \/ UserFlips(t) \/ HandleSub(t) \/ HandleCommitsPost(t)
      PROVE  UNCHANGED sets
  BY <1>6 DEF HandleSetsActivate, HandleSetsDeactivate, HandleWgPut, HandleConfigFragment, UserFlips,
              HandleSub, HandleCommitsPost, stores
<1>7. ASSUME NEW t, \/ SaveHeads(t) \/ Accept(t) \/ ActivateCommitSets(t) \/ RematReturns(t) \/ RematRead(t)
                    \/ RematApply(t) \/ Undo(t) \/ Done(t) \/ CommitFinishes(t)
      PROVE  UNCHANGED sets
  BY <1>7 DEF SaveHeads, Accept, ActivateCommitSets, RematReturns, RematRead, RematApply, Undo, Done,
              CommitFinishes, stores
<1>8. CrashAndBoot => UNCHANGED sets
  BY DEF CrashAndBoot
<1>9. UNCHANGED vars => UNCHANGED sets
  BY DEF vars, stores
<1> QED
  BY <1>1, <1>2, <1>3, <1>4, <1>5, <1>6, <1>7, <1>8, <1>9 DEF Next, Continue

\* No two sets of sets.json listen on the same port of the same network, however they were created,
\* edited, installed, replaced or committed, and whatever port they were given (PortsDisjoint).
THEOREM PortsNeverClash == Spec => []PortsDisjoint
<1> DEFINE Inv == Grounded /\ Posted /\ PortsDisjoint
<1>1. Init => Inv
  <2>1. Init => Grounded
    BY InitServes
  <2>2. Init => Posted
    BY DEF Init, Posted
  <2>3. Init => PortsDisjoint
    BY DesiredAssumption DEF Init, PortsDisjoint
  <2> QED
    BY <2>1, <2>2, <2>3
<1>2. Inv /\ [Next]_vars => Inv'
  BY GroundedStep, PostedStep, PortsStep
<1> QED
  BY <1>1, <1>2, PTL DEF Spec

=============================================================================
