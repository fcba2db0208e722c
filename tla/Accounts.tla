------------------------------ MODULE Accounts ------------------------------
(***************************************************************************)
(* The users of the control plane: users.json, the HTTP handlers that edit *)
(* it, the import and metrics exchange with a hub, the eligibility ticker, *)
(* the traffic flush loop and the bridge that copies dataplane usage into  *)
(* the users.                                                              *)
(*                                                                         *)
(* users.json is read and written whole.  The handlers of single users     *)
(* load it, edit the copy and save it without a lock (PATCH even reads the *)
(* request's body in between); import, metrics, the bridge and the ticker  *)
(* do so under Service.mu, which keeps them apart from each other and from *)
(* rematerialize but not from those handlers.                              *)
(*                                                                         *)
(* The control plane owns the node and a set is active, so rematerialize   *)
(* builds a configuration of the eligible users; Apply is one step that    *)
(* installs it or fails.  Every user has its credentials, so ensureCreds   *)
(* changes nothing.  Time has two instants, before and after `later'.      *)
(* Definitions marked "Variant:" are wrong versions of the one that        *)
(* follows; no specification uses them.                                    *)
(***************************************************************************)
EXTENDS TrafficStore, SequencesExt

CONSTANTS
  Handlers,    \* goroutines of the HTTP server
  Bridge,      \* cpbridge.Bridge.Run
  Ticker,      \* controlplane.Service.Run
  Flusher,     \* traffic Service.Run
  Loops,       \* which of the three loops run
  SyncIds,     \* identities shared with the hub
  Ops,         \* the requests clients make
  Batches,     \* the sequences of user records a hub imports
  Quota,       \* traffic_limit_bytes, where a user has a limit
  Amounts,     \* values of traffic_used_bytes an administrator or a hub sets
  Seeds,       \* initial contents of users.json
  Faults,      \* which of "users", "counters", "apply" fail
  MaxFaults,   \* bound: failed writes and applies
  MaxCrashes,  \* bound: restarts of the process
  MaxRequests, \* bound: requests
  MaxRev       \* bound: revisions and epochs

VARIABLES
  users,       \* users.json; ids are numbered in the order of the file
  born,        \* how many users there have been
  config,      \* the name of every user in the running configuration
  sMu,         \* who holds controlplane Service.mu
  lastFP,      \* Service.Run's fingerprint of the last tick
  later,       \* expiry and reset times have passed
  hub,         \* the hub's watermark and total per sync_id
  pc, job,     \* where each goroutine is, and its locals
  faults, crashes, requests, carried

accountVars == <<users, born, config, sMu, lastFP, later, hub>>
counts      == <<faults, crashes, requests, carried>>
vars        == <<trafficVars, accountVars, pc, job, counts>>

Threads    == Handlers \cup {Bridge, Ticker, Flusher}
Operations == {"create", "patchUsed", "patchName", "patchSync", "patchReset", "disable", "delete",
               "hardDelete", "rotate", "toggle", "membership", "import", "metrics", "pull"}
NoSync     == "none"
NotYet     == <<>>

User == [name : Names, enabled : BOOLEAN, limited : BOOLEAN, expires : BOOLEAN, due : BOOLEAN,
         used : Nat, ingress : Nat, epoch : Nat, sync : SyncIds \cup {NoSync},
         mode : BOOLEAN, syncOn : BOOLEAN, deleted : BOOLEAN, rev : Nat]

\* A user as a hub sends it.
Record == [sync : SyncIds \cup {NoSync}, name : Names, rev : Nat, deleted : BOOLEAN, enabled : BOOLEAN]

\* The contents users.json may have: a record per id in use.
IsTable(us) == DOMAIN us \subseteq UserIds /\ us \in [DOMAIN us -> User]

Labels == {"idle", "save", "zero", "zeroStore", "setSeries", "check", "tickFP", "remat", "apply",
           "publish", "lock", "samples", "write"}

\* us: the edited copy of users.json; upd: polled usage; fp: the fingerprint read
\* before; zero: ids whose counters are still to be reset; set: the absolute usage
\* to store (0: none); keys, delta, sdelta: of the critical section of flushMu;
\* cfg: the configuration built; then: what follows save and zero.
NoJob == [us |-> <<>>, upd |-> <<>>, fp |-> <<>>, zero |-> {}, set |-> 0, keys |-> {},
          delta |-> Zeros, sdelta |-> [u \in UserIds |-> 0], cfg |-> <<>>,
          then |-> "idle", afterZero |-> "idle"]

ASSUME AccountsAssumption ==
  /\ Cardinality({Bridge, Ticker, Flusher}) = 3 /\ {Bridge, Ticker, Flusher} \cap Handlers = {}
  /\ Loops \subseteq {Bridge, Ticker, Flusher} /\ Ops \subseteq Operations
  /\ UserIds = 1..Cardinality(UserIds) /\ NoName \notin Names /\ NoSync \notin SyncIds /\ Free \notin Threads
  /\ Faults \subseteq {"users", "counters", "apply"}
  /\ {MaxBytes, MaxFaults, MaxCrashes, MaxRequests, MaxRev, Quota} \subseteq Nat
  /\ Amounts \subseteq Nat /\ \A batch \in Batches : batch \in Seq(Record)
  /\ IsFiniteSet(UserIds) /\ \A us \in Seeds : IsTable(us) /\ DOMAIN us = 1..Cardinality(DOMAIN us)

-----------------------------------------------------------------------------
(* domain.User. *)

SyncActive(r) == ~r.deleted /\ r.sync # NoSync /\ r.mode /\ r.syncOn

Eligible(r) ==
  /\ ~r.deleted /\ r.enabled
  /\ ~(r.expires /\ later)
  /\ ~(r.limited /\ r.used >= Quota)

SeedIngressFromUsed(r) ==
  IF r.ingress = 0 /\ r.used > 0 THEN [r EXCEPT !.ingress = r.used] ELSE r

LiveIds(us)   == {u \in DOMAIN us : ~us[u].deleted}
TakenNames(us) == {us[u].name : u \in LiveIds(us)}

\* eligibilityFingerprintLocked; the active sets do not change here.
Fingerprint(us) == [u \in DOMAIN us |-> Eligible(us[u])]

\* eligibleUsers, and the names materialize puts into the configuration.
Build(us) == [u \in {x \in DOMAIN us : Eligible(us[x])} |-> us[u].name]

NewUser(n, s) ==
  [name |-> n, enabled |-> TRUE, limited |-> TRUE, expires |-> FALSE, due |-> FALSE,
   used |-> 0, ingress |-> 0, epoch |-> 0, sync |-> s, mode |-> s # NoSync,
   syncOn |-> s # NoSync, deleted |-> FALSE, rev |-> 1]

-----------------------------------------------------------------------------
(* What the handlers make of the copy they loaded. *)

\* handleUsersCreate: a live user with the name or the sync_id is a conflict.
CreateConflict(us, n, s) ==
  \E x \in LiveIds(us) : us[x].name = n \/ (s # NoSync /\ us[x].sync = s)

\* handleUsersPatch: the tail every PATCH runs after its fields.  A body that sets the
\* revision itself is left out.
Patched(old, r) ==
  LET s == [r EXCEPT !.rev = @ + 1] IN
  IF ~SyncActive(old) /\ SyncActive(s) THEN SeedIngressFromUsed(s) ELSE s

PatchUsed(r, v) ==
  [r EXCEPT !.used = v,
            !.epoch = IF v < r.used /\ ~SyncActive(r) THEN @ + 1 ELSE @,
            !.ingress = IF v < r.used /\ ~SyncActive(r) THEN v ELSE @]

\* A name or a sync_id that some other live user has is a conflict.
PatchConflict(us, u, n, s) ==
  \E x \in LiveIds(us) \ {u} :
    \/ n # us[u].name /\ us[x].name = n
    \/ s # us[u].sync /\ us[x].sync = s

\* Variant: a tombstone without a revision of its own.
Tombstone_NoRev(r) == [r EXCEPT !.deleted = TRUE, !.enabled = FALSE]

\* handleUsersDelete, soft: the tombstone stays in the file.
Tombstone(r) == [r EXCEPT !.deleted = TRUE, !.enabled = FALSE, !.rev = @ + 1]

\* handleUsersSyncToggle.
Toggle(r, on) ==
  IF on THEN SeedIngressFromUsed([r EXCEPT !.mode = TRUE, !.syncOn = TRUE, !.rev = @ + 1])
  ELSE [r EXCEPT !.syncOn = FALSE, !.rev = @ + 1]

\* handleUsersSyncMembership: every user with the id, tombstones included.
Membership(us, s, on) ==
  [u \in DOMAIN us |-> IF us[u].sync = s THEN [us[u] EXCEPT !.syncOn = on] ELSE us[u]]

\* applyTrafficResetsLocked.
Due(us) == {u \in DOMAIN us : us[u].due /\ later}
Resets(us) ==
  [u \in DOMAIN us |-> IF u \in Due(us)
     THEN [us[u] EXCEPT !.used = 0, !.ingress = 0, !.epoch = @ + 1, !.due = FALSE] ELSE us[u]]

\* Variant: usage only ever grows.
ApplyUsage_Grow(us, upd) ==
  [u \in DOMAIN us |->
     IF u \notin DOMAIN upd THEN us[u]
     ELSE [us[u] EXCEPT !.used = Max({@, upd[u]}), !.ingress = Max({@, upd[u]})]]

\* Variant: the comparison that detects a counter that went back is the wrong way round.
ApplyUsage_Swapped(us, upd) ==
  [u \in DOMAIN us |->
     IF u \notin DOMAIN upd THEN us[u]
     ELSE [us[u] EXCEPT !.epoch = IF upd[u] > us[u].ingress THEN @ + 1 ELSE @, !.ingress = upd[u],
                        !.used = IF SyncActive(us[u]) THEN @ ELSE upd[u]]]

\* ApplyTrafficUsage: the hub owns traffic_used_bytes of a syncable user.
ApplyUsage(us, upd) ==
  [u \in DOMAIN us |->
     IF u \notin DOMAIN upd THEN us[u]
     ELSE LET v == upd[u] IN
       IF SyncActive(us[u])
       THEN [us[u] EXCEPT !.epoch = IF v < us[u].ingress THEN @ + 1 ELSE @, !.ingress = v]
       ELSE [us[u] EXCEPT
              !.epoch = IF v < us[u].used \/ v < us[u].ingress THEN @ + 1 ELSE @,
              !.used = v, !.ingress = v]]

\* One item of handleUsersSyncMetricsPost.
Metric(r, item) ==
  [r EXCEPT !.epoch = IF item.reset THEN @ + 1 ELSE @,
            !.ingress = IF item.reset THEN 0 ELSE @,
            !.used = IF item.global >= 0 THEN item.global ELSE @]

-----------------------------------------------------------------------------
(* handleUsersImport.  A batch is applied to the copy record by record,     *)
(* with two indexes that are kept up to date on the way.                    *)

\* The user of a sync_id (the last in the file, tombstones included), and of a
\* name (live users only).
BySync(us) == [s \in {us[u].sync : u \in DOMAIN us} \ {NoSync} |->
                 Max({u \in DOMAIN us : us[u].sync = s})]
ByName(us) == [n \in TakenNames(us) |-> Max({u \in LiveIds(us) : us[u].name = n})]

Without(f, x) == [y \in DOMAIN f \ {x} |-> f[y]]
With(f, x, v) == [y \in DOMAIN f \cup {x} |-> IF y = x THEN v ELSE f[y]]

\* A small bound on the suffixes a name can get.
MaxSuffix == 5

\* uniqueImportName: "a 2", "a 3", ... whichever is free first.
UniqueImportName(n, byName) ==
  Append(n, Min({i \in 2..MaxSuffix : Append(n, i) \notin DOMAIN byName}))

NextRev(r, rev) == IF rev > r.rev THEN rev ELSE r.rev + 1

\* applyImportProfile: takes the profile over, and undeletes.
ImportProfile(r, rec, n) ==
  LET p == [r EXCEPT !.name = n, !.enabled = rec.enabled, !.mode = TRUE, !.syncOn = TRUE,
                     !.deleted = FALSE, !.rev = NextRev(r, rec.rev)]
  IN  IF ~SyncActive(r) /\ SyncActive(p) THEN SeedIngressFromUsed(p) ELSE p

\* newUserFromImport.
ImportedUser(rec, n, tombs) ==
  [NewUser(n, rec.sync) EXCEPT
     !.rev = IF rec.rev > 0 THEN rec.rev ELSE 1,
     !.enabled = rec.enabled /\ ~(rec.deleted /\ tombs),
     !.deleted = rec.deleted /\ tombs]

\* Variant: a record of the same revision is applied again.
ImportKnown_Again(st, rec, policy) ==
  LET u     == st.bySync[rec.sync]
      r     == st.us[u]
      taken == rec.name \in DOMAIN st.byName /\ st.byName[rec.name] # u
      n     == IF taken THEN UniqueImportName(rec.name, st.byName) ELSE rec.name
      freed == IF r.name \in DOMAIN st.byName THEN Without(st.byName, r.name) ELSE st.byName
  IN  IF rec.rev < r.rev /\ ~rec.deleted THEN st
      ELSE IF rec.deleted
      THEN [st EXCEPT !.us[u].deleted = TRUE, !.us[u].enabled = FALSE, !.byName = freed]
      ELSE [st EXCEPT !.us[u] = ImportProfile(r, rec, n),
                      !.byName = IF n # r.name THEN With(freed, n, u) ELSE @]

\* A record whose sync_id is known.
ImportKnown(st, rec, policy) ==
  LET u     == st.bySync[rec.sync]
      r     == st.us[u]
      taken == rec.name \in DOMAIN st.byName /\ st.byName[rec.name] # u
      n     == IF taken THEN UniqueImportName(rec.name, st.byName) ELSE rec.name
      held  == r.name \in DOMAIN st.byName /\ st.byName[r.name] = u
      freed == IF held THEN Without(st.byName, r.name) ELSE st.byName
  IN  IF rec.rev > 0 /\ rec.rev <= r.rev /\ ~rec.deleted THEN st
      ELSE IF rec.deleted /\ policy.tombs
      THEN [st EXCEPT !.us[u] = [r EXCEPT !.deleted = TRUE, !.enabled = FALSE, !.rev = NextRev(r, rec.rev)],
                      !.byName = freed]
      ELSE IF taken /\ policy.reject THEN [st EXCEPT !.ok = FALSE]
      ELSE [st EXCEPT !.us[u] = ImportProfile(r, rec, n),
                      !.byName = IF n # r.name THEN With(freed, n, u) ELSE @]

\* A record nobody has the sync_id of: never merged with a user by name.
ImportUnknown(st, rec, policy) ==
  LET u     == st.born + 1
      taken == rec.name \in DOMAIN st.byName
      n     == IF taken THEN UniqueImportName(rec.name, st.byName) ELSE rec.name
      new   == ImportedUser(rec, n, policy.tombs)
  IN  IF taken /\ policy.reject THEN [st EXCEPT !.ok = FALSE]
      ELSE [st EXCEPT !.us = With(@, u, new), !.born = u,
                      !.bySync = IF rec.sync # NoSync THEN With(@, rec.sync, u) ELSE @,
                      !.byName = IF new.deleted THEN @ ELSE With(@, n, u)]

ImportRecord(st, rec, policy) ==
  IF ~st.ok THEN st
  ELSE IF rec.sync \in DOMAIN st.bySync THEN ImportKnown(st, rec, policy)
  ELSE ImportUnknown(st, rec, policy)

\* The copy after so many records of a batch.
Imports(us, n, batch, policy) ==
  LET after[i \in 0..Len(batch)] ==
        IF i = 0
        THEN [us |-> us, born |-> n, bySync |-> BySync(us), byName |-> ByName(us), ok |-> TRUE]
        ELSE ImportRecord(after[i - 1], batch[i], policy)
  IN  after

\* The copy after the whole batch, and whether it is to be saved at all.
Import(us, n, batch, policy) == Imports(us, n, batch, policy)[Len(batch)]

-----------------------------------------------------------------------------
(* Building blocks of the steps. *)

Goto(t, l)  == pc' = [pc EXCEPT ![t] = l]
Done(t)     == Goto(t, "idle") /\ job' = [job EXCEPT ![t] = NoJob]
NoTraffic   == UNCHANGED trafficVars
NoAccounts  == UNCHANGED accountVars
FreeMu(t)   == sMu' = IF sMu = t THEN Free ELSE sMu

\* A write or an apply of kind k that succeeds, or fails within the bound.
Ok(k)    == UNCHANGED faults
Fails(k) == k \in Faults /\ faults < MaxFaults /\ faults' = faults + 1

InBounds(us) == \A u \in DOMAIN us : us[u].rev <= MaxRev /\ us[u].epoch <= MaxRev

\* The handler has edited its copy and goes on to save it.
Edit(h, us, then) ==
  /\ InBounds(us)
  /\ Goto(h, "save") /\ job' = [job EXCEPT ![h] = [NoJob EXCEPT !.us = us, !.then = then]]

-----------------------------------------------------------------------------
(* Requests: each loads users.json and edits the copy. *)

Request(h, op) ==
  /\ pc[h] = "idle" /\ op \in Ops /\ requests < MaxRequests
  /\ requests' = requests + 1
  /\ NoTraffic /\ UNCHANGED <<faults, crashes, carried>>

\* findUser: an unknown id is a 404.
EditUser(h, u, r, then) == Edit(h, [users EXCEPT ![u] = r], then)

HandleUsersCreate(h) ==
  /\ Request(h, "create")
  /\ \E n \in Names, s \in SyncIds \cup {NoSync} :
       /\ Len(n) = 1 /\ born + 1 \in UserIds /\ ~CreateConflict(users, n, s)
       /\ Edit(h, With(users, born + 1, NewUser(n, s)), "remat")
       /\ born' = born + 1
  /\ UNCHANGED <<users, config, sMu, lastFP, later, hub>>

HandleUsersPatch(h) ==
  /\ \E u \in DOMAIN users :
       LET old == users[u] IN
       \/ /\ Request(h, "patchUsed")
          /\ \E v \in Amounts :
               LET r == Patched(old, PatchUsed(old, v)) IN
               /\ InBounds([users EXCEPT ![u] = r])
               /\ Goto(h, "save")
               /\ job' = [job EXCEPT ![h] = [NoJob EXCEPT
                    !.us = [users EXCEPT ![u] = r], !.set = v,
                    !.zero = IF SyncActive(r) THEN {} ELSE {u},
                    !.then = "zero", !.afterZero = "remat"]]
       \/ /\ Request(h, "patchName")
          /\ \E n \in Names : /\ Len(n) = 1 /\ ~PatchConflict(users, u, n, old.sync)
                              /\ EditUser(h, u, Patched(old, [old EXCEPT !.name = n]), "remat")
       \/ /\ Request(h, "patchSync")
          /\ \E s \in SyncIds :
               /\ ~PatchConflict(users, u, old.name, s)
               /\ EditUser(h, u, Patched(old, [old EXCEPT !.sync = s, !.mode = TRUE, !.syncOn = TRUE]),
                           "remat")
       \/ /\ Request(h, "patchReset")
          /\ EditUser(h, u, Patched(old, [old EXCEPT !.due = TRUE]), "remat")
       \/ /\ Request(h, "disable")
          /\ EditUser(h, u, Patched(old, [old EXCEPT !.enabled = ~@]), "remat")
  /\ NoAccounts

HandleUsersDelete(h) ==
  /\ \E u \in DOMAIN users :
       \/ Request(h, "delete") /\ EditUser(h, u, Tombstone(users[u]), "remat")
       \/ Request(h, "hardDelete") /\ Edit(h, Without(users, u), "remat")
  /\ NoAccounts

\* rotate-token, rotate-creds and PUT creds: secrets change, the whole file is saved.
HandleUsersRotate(h) ==
  /\ Request(h, "rotate")
  /\ \E u \in DOMAIN users, then \in {"idle", "remat"} : EditUser(h, u, users[u], then)
  /\ NoAccounts

\* Neither of these two rematerializes.
HandleUsersSyncToggle(h) ==
  /\ Request(h, "toggle")
  /\ \E u \in LiveIds(users), on \in BOOLEAN :
       /\ users[u].sync # NoSync
       /\ EditUser(h, u, Toggle(users[u], on), "idle")
  /\ NoAccounts

HandleUsersSyncMembership(h) ==
  /\ Request(h, "membership")
  /\ \E s \in SyncIds, on \in BOOLEAN : Edit(h, Membership(users, s, on), "idle")
  /\ NoAccounts

\* Under Service.mu.
HandleUsersImport(h) ==
  /\ Request(h, "import") /\ sMu = Free
  /\ \E batch \in Batches, tombs, reject \in BOOLEAN :
       LET st == Import(users, born, batch, [tombs |-> tombs, reject |-> reject]) IN
       /\ st.ok /\ st.born \in UserIds /\ InBounds(st.us)
       /\ \A u \in DOMAIN st.us : st.us[u].name \in Names
       /\ Edit(h, st.us, "apply") /\ born' = st.born
  /\ sMu' = h
  /\ UNCHANGED <<users, config, lastFP, later, hub>>

\* Under Service.mu; the hub's totals come from the amounts.
HandleUsersSyncMetricsPost(h) ==
  /\ Request(h, "metrics") /\ sMu = Free
  /\ \E s \in DOMAIN BySync(users), reset \in BOOLEAN, g \in Amounts \cup {-1} :
       LET u  == BySync(users)[s]
           us == [users EXCEPT ![u] = Metric(@, [reset |-> reset, global |-> g])]
       IN  /\ reset \/ g >= 0
           /\ InBounds(us)
           /\ Goto(h, "save")
           /\ job' = [job EXCEPT ![h] = [NoJob EXCEPT !.us = us, !.fp = Fingerprint(users),
                        !.zero = IF reset THEN {u} ELSE {}, !.then = "zero", !.afterZero = "check"]]
  /\ sMu' = h
  /\ UNCHANGED <<users, born, config, lastFP, later, hub>>

\* GET users/sync/metrics and what the hub does with it: count what the ingress
\* grew by since its watermark, from zero when the epoch is new.
HubPull(h) ==
  /\ pc[h] = "idle" /\ "pull" \in Ops
  /\ \E u \in LiveIds(users) :
       LET r == users[u]
           w == hub[r.sync]
           m == IF r.epoch > w.epoch THEN 0 ELSE w.mark
       IN  /\ SyncActive(r)
           /\ hub' = [hub EXCEPT ![r.sync] =
                [epoch |-> Max({r.epoch, w.epoch}), mark |-> r.ingress,
                 total |-> w.total + Max({0, r.ingress - m})]]
  /\ NoTraffic /\ UNCHANGED <<users, born, config, sMu, lastFP, later, pc, job, counts>>

-----------------------------------------------------------------------------
(* SaveUsers, and the calls a handler or a loop makes after it. *)

Save(t) ==
  /\ pc[t] = "save"
  /\ \/ /\ Ok("users") /\ users' = job[t].us
        /\ Goto(t, job[t].then) /\ UNCHANGED sMu
        /\ job' = [job EXCEPT ![t].us = <<>>,
                     ![t].cfg = IF job[t].then = "apply" THEN Build(job[t].us) ELSE <<>>]
     \/ /\ Fails("users") /\ UNCHANGED users
        /\ IF t = Ticker
           THEN Goto(t, "tickFP") /\ job' = [job EXCEPT ![t] = NoJob] /\ UNCHANGED sMu
           ELSE Done(t) /\ FreeMu(t)
  /\ NoTraffic /\ UNCHANGED <<born, config, lastFP, later, hub, crashes, requests, carried>>

\* ZeroSubject and SetSubjectUsage: flushMu is taken and the live bytes of the
\* subject's keys are discarded.
Zero(t) ==
  /\ pc[t] = "zero"
  /\ \/ /\ job[t].zero = {} /\ Goto(t, job[t].afterZero)
        /\ UNCHANGED <<job, trafficVars>>
     \/ /\ flushMu = Free /\ flushMu' = t
        /\ \E u \in job[t].zero :
             /\ DiscardUserKeys(SubjectKeys(u))
             /\ job' = [job EXCEPT ![t].keys = SubjectKeys(u)]
        /\ Goto(t, "zeroStore")
  /\ NoAccounts /\ UNCHANGED counts

ZeroStore(t) ==
  /\ pc[t] = "zeroStore"
  /\ \E u \in job[t].zero, ok \in BOOLEAN :
       /\ SubjectKeys(u) = job[t].keys \/ Cardinality(job[t].zero) = 1
       /\ IF ok THEN Ok("counters") ELSE Fails("counters")
       /\ ZeroSubjectKeys(u, job[t].keys, ok)
       /\ IF ok /\ job[t].set > 0
          THEN Goto(t, "setSeries") /\ UNCHANGED <<job, flushMu>>
          ELSE /\ Goto(t, "zero") /\ flushMu' = Free
               /\ job' = [job EXCEPT ![t].zero = @ \ {u}, ![t].keys = {}]
  /\ NoAccounts /\ UNCHANGED <<crashes, requests, carried>>

\* SetSubjectUsage: the absolute value goes to the subject series.
SetSeries(t) ==
  /\ pc[t] = "setSeries"
  /\ \E u \in job[t].zero, ok \in BOOLEAN :
       /\ IF ok THEN Ok("counters") ELSE Fails("counters")
       /\ ApplySamples(Zeros, [[x \in UserIds |-> 0] EXCEPT ![u] = job[t].set], ok)
  /\ flushMu' = Free
  /\ Goto(t, "zero") /\ job' = [job EXCEPT ![t].zero = {}, ![t].keys = {}]
  /\ NoAccounts /\ UNCHANGED <<crashes, requests, carried>>

\* Variant: the eligibility is recorded but the configuration is not rebuilt.
Check_NoRemat(t) ==
  /\ pc[t] = "check" /\ Done(t) /\ sMu' = Free
  /\ NoTraffic /\ UNCHANGED <<users, born, config, lastFP, later, hub, counts>>

\* Under Service.mu: has the eligibility changed?
Check(t) ==
  /\ pc[t] = "check"
  /\ IF Fingerprint(users) = job[t].fp
     THEN Done(t) /\ sMu' = Free
     ELSE /\ Goto(t, "apply") /\ UNCHANGED sMu
          /\ job' = [job EXCEPT ![t].cfg = Build(users)]
  /\ NoTraffic /\ UNCHANGED <<users, born, config, lastFP, later, hub, counts>>

\* rematerialize takes Service.mu and loads the eligible users.
Remat(t) ==
  /\ pc[t] = "remat" /\ sMu = Free /\ sMu' = t
  /\ Goto(t, "apply") /\ job' = [job EXCEPT ![t] = [NoJob EXCEPT !.cfg = Build(users)]]
  /\ NoTraffic /\ UNCHANGED <<users, born, config, lastFP, later, hub, counts>>

Apply(t) ==
  /\ pc[t] = "apply"
  /\ \/ Ok("apply") /\ config' = job[t].cfg /\ Goto(t, "publish") /\ UNCHANGED <<job, sMu>>
     \/ Fails("apply") /\ Done(t) /\ sMu' = Free /\ UNCHANGED config
  /\ NoTraffic /\ UNCHANGED <<users, born, lastFP, later, hub, crashes, requests, carried>>

\* publishTrafficPolicyLocked loads the users, tombstones included; OnMaterialize
\* registers their keys.
Publish(t) ==
  /\ pc[t] = "publish"
  /\ RegisterManifest([u \in UserIds |-> IF u \in DOMAIN users THEN users[u].name ELSE NoName], TRUE)
  /\ Done(t) /\ sMu' = Free
  /\ UNCHANGED <<users, born, config, lastFP, later, hub, counts>>

-----------------------------------------------------------------------------
(* The loops. *)

\* Bridge.syncOnce: lists the users and polls the store, with no lock.
Poll ==
  /\ pc[Bridge] = "idle" /\ Bridge \in Loops
  /\ Goto(Bridge, "lock")
  /\ job' = [job EXCEPT ![Bridge].upd = [u \in LiveIds(users) |-> SubjectUsage(u)]]
  /\ NoTraffic /\ NoAccounts /\ UNCHANGED counts

\* ApplyTrafficUsage, up to its SaveUsers.
ApplyTrafficUsage ==
  /\ pc[Bridge] = "lock" /\ sMu = Free
  /\ LET us == ApplyUsage(users, job[Bridge].upd) IN
     IF us = users THEN Done(Bridge) /\ UNCHANGED sMu
     ELSE /\ InBounds(us) /\ sMu' = Bridge /\ Goto(Bridge, "save")
          /\ job' = [job EXCEPT ![Bridge] =
               [NoJob EXCEPT !.us = us, !.fp = Fingerprint(users), !.then = "check"]]
  /\ NoTraffic /\ UNCHANGED <<users, born, config, lastFP, later, hub, counts>>

\* Service.Run's tick: takes Service.mu and resets the counters that are due.
Tick ==
  /\ pc[Ticker] = "idle" /\ Ticker \in Loops /\ sMu = Free /\ sMu' = Ticker
  /\ IF Due(users) = {} THEN Goto(Ticker, "tickFP") /\ UNCHANGED job
     ELSE /\ InBounds(Resets(users)) /\ Goto(Ticker, "save")
          /\ job' = [job EXCEPT ![Ticker] = [NoJob EXCEPT !.us = Resets(users),
               !.zero = Due(users), !.then = "zero", !.afterZero = "tickFP"]]
  /\ NoTraffic /\ UNCHANGED <<users, born, config, lastFP, later, hub, counts>>

\* The rest of the tick: the fingerprint is remembered before rematerialize, whose
\* error is dropped.
TickFP ==
  /\ pc[Ticker] = "tickFP" /\ sMu' = Free /\ lastFP' = Fingerprint(users)
  /\ IF Fingerprint(users) = lastFP THEN Done(Ticker)
     ELSE Goto(Ticker, "remat") /\ job' = [job EXCEPT ![Ticker] = NoJob]
  /\ NoTraffic /\ UNCHANGED <<users, born, config, later, hub, counts>>

\* Variant: the swap is not covered by flushMu.
FlushSwap_NoLock ==
  /\ pc[Flusher] = "idle" /\ Flusher \in Loops
  /\ UNCHANGED flushMu /\ SwapDeltas
  /\ Goto(Flusher, "samples") /\ job' = [job EXCEPT ![Flusher].delta = live]
  /\ NoAccounts /\ UNCHANGED counts

\* Service.Flush: swap, aggregate per subject, add to the store.
FlushSwap ==
  /\ pc[Flusher] = "idle" /\ Flusher \in Loops /\ flushMu = Free
  /\ flushMu' = Flusher /\ SwapDeltas
  /\ Goto(Flusher, "samples") /\ job' = [job EXCEPT ![Flusher].delta = live]
  /\ NoAccounts /\ UNCHANGED counts

FlushSamples ==
  /\ pc[Flusher] = "samples" /\ Goto(Flusher, "write")
  /\ job' = [job EXCEPT ![Flusher].sdelta = SubjectDeltas(job[Flusher].delta)]
  /\ NoTraffic /\ NoAccounts /\ UNCHANGED counts

FlushWrite ==
  /\ pc[Flusher] = "write" /\ flushMu' = Free /\ Done(Flusher)
  /\ \E ok \in BOOLEAN :
       /\ IF ok THEN Ok("counters") ELSE Fails("counters")
       /\ ApplySamples(job[Flusher].delta, job[Flusher].sdelta, ok)
  /\ NoAccounts /\ UNCHANGED <<crashes, requests, carried>>

-----------------------------------------------------------------------------
(* The environment. *)

\* A connection of a configured user carries a byte.
Carry ==
  /\ carried < MaxBytes /\ carried' = carried + 1
  /\ \E u \in DOMAIN config : Count(config[u])
  /\ NoAccounts /\ UNCHANGED <<pc, job, faults, crashes, requests>>

TimePasses ==
  /\ ~later /\ later' = TRUE
  /\ NoTraffic /\ UNCHANGED <<users, born, config, sMu, lastFP, hub, pc, job, counts>>

\* The process dies and is started again on its files.
Crash ==
  /\ crashes < MaxCrashes /\ crashes' = crashes + 1
  /\ TrafficRestart /\ sMu' = Free /\ lastFP' = NotYet
  /\ pc' = [t \in Threads |-> "idle"] /\ job' = [t \in Threads |-> NoJob]
  /\ UNCHANGED <<users, born, config, later, hub, faults, requests, carried>>

-----------------------------------------------------------------------------

Init ==
  /\ TrafficInit
  /\ users \in Seeds /\ born = Cardinality(DOMAIN users) /\ later = FALSE
  /\ config = Build(users) /\ sMu = Free /\ lastFP = NotYet
  /\ hub = [s \in SyncIds |-> [epoch |-> 0, mark |-> 0, total |-> 0]]
  /\ pc = [t \in Threads |-> "idle"] /\ job = [t \in Threads |-> NoJob]
  /\ faults = 0 /\ crashes = 0 /\ requests = 0 /\ carried = 0

Requests(h) ==
  \/ HandleUsersCreate(h) \/ HandleUsersPatch(h) \/ HandleUsersDelete(h) \/ HandleUsersRotate(h)
  \/ HandleUsersSyncToggle(h) \/ HandleUsersSyncMembership(h) \/ HandleUsersImport(h)
  \/ HandleUsersSyncMetricsPost(h) \/ HubPull(h)

Call(t) ==
  \/ Save(t) \/ Zero(t) \/ ZeroStore(t) \/ SetSeries(t) \/ Check(t) \/ Remat(t)
  \/ Apply(t) \/ Publish(t)

BridgeStep == Poll \/ ApplyTrafficUsage \/ Call(Bridge)
TickerStep == Tick \/ TickFP \/ Call(Ticker)
FlushStep  == FlushSwap \/ FlushSamples \/ FlushWrite

Next ==
  \/ \E h \in Handlers : Requests(h) \/ Call(h)
  \/ BridgeStep \/ TickerStep \/ FlushStep
  \/ Carry \/ TimePasses \/ Crash

Spec == Init /\ [][Next]_vars

\* Goroutines run on, and a mutex is handed to those who wait for it.  Clients,
\* traffic, time and failures are never required.
Fairness ==
  /\ \A h \in Handlers : SF_vars(Call(h))
  /\ SF_vars(BridgeStep) /\ SF_vars(TickerStep) /\ SF_vars(FlushStep)

FairSpec == Spec /\ Fairness

-----------------------------------------------------------------------------
(* Properties. *)

TypeOK ==
  /\ TrafficTypeOK(Threads)
  /\ IsTable(users) /\ born \in 0..Cardinality(UserIds)
  /\ DOMAIN config \subseteq UserIds /\ sMu \in Threads \cup {Free} /\ later \in BOOLEAN
  /\ pc \in [Threads -> Labels]

\* Bytes a Flush has taken from the tracker and not yet added to the store.
InFlight(k) == job[Flusher].delta[k]
Resetting(k) == \E t \in Threads : pc[t] = "zeroStore" /\ k \in job[t].keys

\* A byte is counted exactly once and a reset loses nothing else: what the store,
\* the tracker and a running Flush hold of a key is what was carried since the
\* key's last reset.  It depends on flushMu covering swap and add (service.go).
CountedOnce == \A k \in Names : Resetting(k) \/ ctr[k] + live[k] + InFlight(k) = since[k]

\* The bridge comes to show every local user the usage the store has for it, in
\* spite of stale polls and of saves that are unlocked or fail.
UsageConverges ==
  <>[](\A u \in LiveIds(users) : SyncActive(users[u]) \/ users[u].used = SubjectUsage(u))

\* When nobody edits users any more, the running configuration comes to hold
\* exactly the eligible ones: quota, expiry, reset and deletion all reach the box.
\* (FR-T-10 and FR-T-11.)  It fails where a reset falls into the same tick as the
\* exhaustion it ends: Service.Run compares with the fingerprint of its last tick,
\* finds it unchanged and does not rematerialize.
EligibleServed == <>[](config = Build(users))

\* What the hub has counted for an identity never exceeds what this node carried: across
\* flushes, polls of the bridge that are old when they are written, pulls, an
\* administrator's edits and resets of local users, no ingress is counted twice
\* (users_sync.go, handleUsersSyncMetricsGet; cpbridge/bridge.go, syncOnce).
HubCountsOnce == \A s \in SyncIds : hub[s].total <= carried

\* What the hub owns of a user, other than its secrets and limits.
Profile(r) == [name |-> r.name, enabled |-> r.enabled, deleted |-> r.deleted, sync |-> r.sync]

\* A batch that is delivered twice is applied once: the second import neither
\* creates, renames, revives nor deletes anybody (users_sync.go, handleUsersImport).
ImportIdempotent ==
  (\A t \in Threads : pc[t] = "idle") =>
  \A batch \in Batches, reject \in BOOLEAN :
    LET policy == [tombs |-> TRUE, reject |-> reject]
        once   == Import(users, born, batch, policy)
        twice  == Import(once.us, once.born, batch, policy)
    IN  once.ok => /\ twice.ok /\ twice.born = once.born
                   /\ \A u \in DOMAIN once.us : Profile(twice.us[u]) = Profile(once.us[u])

\* Whoever changes the profile of a user raises its revision, so that a hub's
\* older copy of it is a no-op afterwards (handleUsersPatch and its siblings, for clients
\* that leave the revision to the node).
ProfileVersioned ==
  [][\A u \in DOMAIN users \cap DOMAIN users' :
       Profile(users'[u]) # Profile(users[u]) => users'[u].rev > users[u].rev]_vars

=============================================================================
