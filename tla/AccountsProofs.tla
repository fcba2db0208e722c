--------------------------- MODULE AccountsProofs ---------------------------
(***************************************************************************)
(* Proofs about Accounts, for every value of its constants: any number of  *)
(* users, keys, clients and records in a batch, with all the loops         *)
(* running, failing writes and crashes.                                    *)
(*                                                                         *)
(* FlushInv    flushMu is held from the swap of a Flush to its addition,   *)
(*             and from the discard of a reset to its last store;          *)
(* Balance     what the store, the tracker and a running Flush hold of a   *)
(*             key is what was carried since its last reset; in the middle *)
(*             of a reset, what the tracker holds is;                      *)
(* TableInv    users.json and every edited copy of it hold users, numbered *)
(*             by the users there have been;                               *)
(* VersionInv  where one client at a time edits, its copy differs from the *)
(*             file only in users of a higher revision;                    *)
(* HubInv      where no counter of a shared user is reset, what the hub    *)
(*             has counted is at most what every copy of users.json says,  *)
(*             that at most what the bridge polled, that at most what the  *)
(*             store shows, and that at most what was carried.             *)
(*                                                                         *)
(* An import is the value of a recursive function at the length of its     *)
(* batch.  Reached and Unmoved say what holds of the copy after so many    *)
(* records of a first and of a second import; SetInduction carries them to *)
(* the end of the batch.                                                   *)
(***************************************************************************)
EXTENDS Accounts, FiniteSetTheorems, TLAPS

\* Where a reset holds flushMu.
InReset == {"zeroStore", "setSeries"}

\* A goroutine's locals keep their fields, and no continuation leads into the middle of a reset.
Locals(j) == DOMAIN j = DOMAIN NoJob /\ j.then \notin InReset /\ j.afterZero \notin InReset

Shape ==
  /\ DOMAIN pc = Threads /\ DOMAIN job = Threads
  /\ \A t \in Threads : Locals(job[t])

FlushInv ==
  /\ pc[Flusher] \in {"idle", "samples", "write"}
  /\ pc[Flusher] # "idle" => flushMu = Flusher
  /\ pc[Flusher] = "idle" => job[Flusher].delta = Zeros
  /\ \A t \in Threads : pc[t] \in InReset => flushMu = t

\* The counters are numbers.
Numbers ==
  /\ live \in [Names -> Nat] /\ ctr \in [Names -> Nat] /\ since \in [Names -> Nat]
  /\ job[Flusher].delta \in [Names -> Nat]
  /\ DOMAIN disk = {"ctr", "ser", "subj"} /\ disk.ctr \in [Names -> Nat]

Balance ==
  \A k \in Names :
    IF Resetting(k) THEN live[k] = since[k] ELSE ctr[k] + live[k] + InFlight(k) = since[k]

CountInv == Shape /\ FlushInv /\ Numbers /\ Balance

-----------------------------------------------------------------------------
(* One goroutine moves *)

\* The loops are three goroutines, and none of them serves requests.
LEMMA AccountsDistinct ==
  /\ Bridge # Flusher /\ Ticker # Flusher /\ Bridge # Ticker
  /\ Flusher \notin Handlers /\ Free \notin Threads
<1>1. ASSUME NEW a, NEW b, Cardinality({a, b, b}) = 3 PROVE FALSE
  <2>1. {a, b, b} = {a, b}
    OBVIOUS
  <2>2. CASE a = b
    <3>1. {a, b, b} = {a}
      BY <2>2
    <3> QED
      BY <1>1, <3>1, FS_Singleton
  <2>3. CASE a # b
    <3>1. IsFiniteSet({b}) /\ Cardinality({b}) = 1
      BY FS_Singleton
    <3>2. Cardinality({b} \cup {a}) = 2
      BY <2>3, <3>1, FS_AddElement
    <3>3. {a, b, b} = {b} \cup {a}
      OBVIOUS
    <3> QED
      BY <1>1, <3>2, <3>3
  <2> QED
    BY <2>2, <2>3
<1>2. Cardinality({Bridge, Ticker, Flusher}) = 3 /\ Flusher \notin Handlers /\ Free \notin Threads
  BY AccountsAssumption
<1>3. CASE Bridge = Flusher
  <2>1. {Bridge, Ticker, Flusher} = {Ticker, Flusher, Flusher}
    BY <1>3
  <2> QED
    BY <1>1, <1>2, <2>1
<1>4. CASE Ticker = Flusher
  <2>1. {Bridge, Ticker, Flusher} = {Bridge, Flusher, Flusher}
    BY <1>4
  <2> QED
    BY <1>1, <1>2, <2>1
<1>5. CASE Bridge = Ticker
  <2>1. {Bridge, Ticker, Flusher} = {Flusher, Ticker, Ticker}
    BY <1>5
  <2> QED
    BY <1>1, <1>2, <2>1
<1> QED
  BY <1>2, <1>3, <1>4, <1>5


Moved(t) ==
  /\ DOMAIN pc' = Threads /\ DOMAIN job' = Threads /\ Locals(job'[t])
  /\ \A d \in Threads \ {t} : pc'[d] = pc[d] /\ job'[d] = job[d]

\* A step that stays outside flushMu and leaves the counters alone.
Outside(t) ==
  /\ t # Flusher /\ Moved(t) /\ pc[t] \notin InReset /\ pc'[t] \notin InReset
  /\ UNCHANGED <<live, ctr, since, flushMu>>
  /\ DOMAIN disk' = DOMAIN disk /\ disk'.ctr = disk.ctr

LEMMA OutsideKeeps ==
  ASSUME CountInv, NEW t \in Threads, Outside(t)
  PROVE  CountInv'
<1>1. Flusher \in Threads /\ job'[Flusher] = job[Flusher] /\ pc'[Flusher] = pc[Flusher]
  BY DEF Outside, Moved, Threads
<1>2. Shape'
  BY DEF CountInv, Shape, Outside, Moved
<1>3. FlushInv'
  BY <1>1 DEF CountInv, FlushInv, Outside, Moved
<1>4. Numbers'
  BY <1>1 DEF CountInv, Numbers, Outside
<1>5. \A k \in Names : Resetting(k)' <=> Resetting(k)
  BY DEF Resetting, Outside, Moved, InReset
<1>6. Balance'
  BY <1>1, <1>5 DEF CountInv, Balance, InFlight, Outside
<1> QED
  BY <1>2, <1>3, <1>4, <1>6 DEF CountInv

LEMMA FrameKeeps ==
  ASSUME CountInv, UNCHANGED <<live, ctr, since, disk, flushMu, pc, job>>
  PROVE  CountInv'
BY DEF CountInv, Shape, FlushInv, Numbers, Balance, Resetting, InFlight

LEMMA GotoMoves ==
  ASSUME Shape, NEW t \in Threads, NEW l, Goto(t, l), NEW j, Locals(j),
         job' = [job EXCEPT ![t] = j]
  PROVE  Moved(t) /\ pc'[t] = l
BY DEF Shape, Goto, Moved

LEMMA StillMoves ==
  ASSUME Shape, NEW t \in Threads, NEW l, Goto(t, l), UNCHANGED job
  PROVE  Moved(t) /\ pc'[t] = l
BY DEF Shape, Goto, Moved

LEMMA DoneMoves ==
  ASSUME Shape, NEW t \in Threads, Done(t)
  PROVE  Moved(t) /\ pc'[t] = "idle"
BY DEF Shape, Done, Goto, Moved, Locals, NoJob, InReset

LEMMA EditMoves ==
  ASSUME Shape, NEW t \in Threads, NEW us, NEW l, l \notin InReset, Edit(t, us, l)
  PROVE  Moved(t) /\ pc'[t] = "save"
<1> DEFINE j == [NoJob EXCEPT !.us = us, !.then = l]
<1>1. Goto(t, "save") /\ job' = [job EXCEPT ![t] = j]
  BY DEF Edit
<1>2. Locals(j)
  BY DEF Locals, NoJob, InReset
<1> HIDE DEF j
<1> QED
  BY <1>1, <1>2, GotoMoves

-----------------------------------------------------------------------------
(* The steps outside flushMu *)

LEMMA RequestsOutside ==
  ASSUME Shape, NEW h \in Handlers, Requests(h)
  PROVE  Outside(h) \/ UNCHANGED <<live, ctr, since, disk, flushMu, pc, job>>
<1>1. h \in Threads /\ h # Flusher
  BY AccountsAssumption DEF Threads
<1>2. ASSUME NEW op, Request(h, op)
      PROVE  pc[h] = "idle" /\ UNCHANGED <<live, ctr, since, disk, flushMu>>
  BY <1>2 DEF Request, NoTraffic, trafficVars
<1>3. ASSUME NEW op, Request(h, op), Moved(h), pc'[h] = "save"
      PROVE  Outside(h)
  BY <1>1, <1>2, <1>3 DEF Outside, InReset
<1>4. CASE HandleUsersCreate(h)
  BY <1>1, <1>3, <1>4, EditMoves DEF HandleUsersCreate, InReset
<1>5. CASE HandleUsersPatch(h)
  <2>1. PICK u \in DOMAIN users :
          \/ /\ Request(h, "patchUsed")
             /\ \E v \in Amounts : LET r == Patched(users[u], PatchUsed(users[u], v)) IN
                  /\ Goto(h, "save")
                  /\ job' = [job EXCEPT ![h] = [NoJob EXCEPT
                       !.us = [users EXCEPT ![u] = r], !.set = v,
                       !.zero = IF SyncActive(r) THEN {} ELSE {u},
                       !.then = "zero", !.afterZero = "remat"]]
          \/ \E op : Request(h, op) /\ \E r : EditUser(h, u, r, "remat")
    BY <1>5 DEF HandleUsersPatch
  <2>2. ASSUME NEW r, EditUser(h, u, r, "remat") PROVE Moved(h) /\ pc'[h] = "save"
    BY <1>1, <2>2, EditMoves DEF EditUser, InReset
  <2>3. ASSUME NEW v \in Amounts, NEW r, Goto(h, "save"),
               job' = [job EXCEPT ![h] = [NoJob EXCEPT
                 !.us = [users EXCEPT ![u] = r], !.set = v,
                 !.zero = IF SyncActive(r) THEN {} ELSE {u},
                 !.then = "zero", !.afterZero = "remat"]]
        PROVE  Moved(h) /\ pc'[h] = "save"
    <3> DEFINE j == [NoJob EXCEPT !.us = [users EXCEPT ![u] = r], !.set = v,
                      !.zero = IF SyncActive(r) THEN {} ELSE {u},
                      !.then = "zero", !.afterZero = "remat"]
    <3>1. Locals(j) /\ job' = [job EXCEPT ![h] = j]
      BY <2>3 DEF Locals, NoJob, InReset
    <3> HIDE DEF j
    <3> QED
      BY <1>1, <2>3, <3>1, GotoMoves
  <2>4. CASE Request(h, "patchUsed") /\ Moved(h) /\ pc'[h] = "save"
    BY <1>3, <2>4
  <2>5. CASE \E op : Request(h, op) /\ \E r : EditUser(h, u, r, "remat")
    BY <1>3, <2>2, <2>5
  <2> QED
    BY <2>1, <2>3, <2>4, <2>5
<1>6. CASE HandleUsersDelete(h)
  BY <1>1, <1>3, <1>6, EditMoves DEF HandleUsersDelete, EditUser, InReset
<1>7. CASE HandleUsersRotate(h)
  BY <1>1, <1>3, <1>7, EditMoves DEF HandleUsersRotate, EditUser, InReset
<1>8. CASE HandleUsersSyncToggle(h)
  BY <1>1, <1>3, <1>8, EditMoves DEF HandleUsersSyncToggle, EditUser, InReset
<1>9. CASE HandleUsersSyncMembership(h)
  BY <1>1, <1>3, <1>9, EditMoves DEF HandleUsersSyncMembership, InReset
<1>10. CASE HandleUsersImport(h)
  BY <1>1, <1>3, <1>10, EditMoves DEF HandleUsersImport, InReset
<1>11. CASE HandleUsersSyncMetricsPost(h)
  <2>1. Request(h, "metrics")
    BY <1>11 DEF HandleUsersSyncMetricsPost
  <2>2. PICK s \in DOMAIN BySync(users), reset \in BOOLEAN, g \in Amounts \cup {-1} :
          LET u  == BySync(users)[s]
              us == [users EXCEPT ![u] = Metric(@, [reset |-> reset, global |-> g])]
          IN  /\ Goto(h, "save")
              /\ job' = [job EXCEPT ![h] = [NoJob EXCEPT !.us = us, !.fp = Fingerprint(users),
                           !.zero = IF reset THEN {u} ELSE {}, !.then = "zero",
                           !.afterZero = "check"]]
    BY <1>11 DEF HandleUsersSyncMetricsPost
  <2> DEFINE u == BySync(users)[s]
             j == [NoJob EXCEPT
                     !.us = [users EXCEPT ![u] = Metric(@, [reset |-> reset, global |-> g])],
                     !.fp = Fingerprint(users), !.zero = IF reset THEN {u} ELSE {},
                     !.then = "zero", !.afterZero = "check"]
  <2>3. Locals(j) /\ job' = [job EXCEPT ![h] = j] /\ Goto(h, "save")
    BY <2>2 DEF Locals, NoJob, InReset
  <2> HIDE DEF j
  <2> QED
    BY <1>1, <1>3, <2>1, <2>3, GotoMoves
<1>12. CASE HubPull(h)
  BY <1>12 DEF HubPull, NoTraffic, trafficVars
<1> QED
  BY <1>4, <1>5, <1>6, <1>7, <1>8, <1>9, <1>10, <1>11, <1>12 DEF Requests

LEMMA NoJobLocals == Locals(NoJob) /\ \A c : Locals([NoJob EXCEPT !.cfg = c])
BY DEF Locals, NoJob, InReset

LEMMA CallsOutside ==
  ASSUME Shape, NEW t \in Threads, t # Flusher,
         Save(t) \/ Check(t) \/ Remat(t) \/ Apply(t) \/ Publish(t)
  PROVE  Outside(t)
<1>1. ASSUME pc[t] \notin InReset, Moved(t), pc'[t] \notin InReset,
             UNCHANGED <<live, ctr, since, disk, flushMu>>
      PROVE  Outside(t)
  BY <1>1 DEF Outside
<1>2. CASE Save(t)
  <2>1. pc[t] \notin InReset /\ UNCHANGED <<live, ctr, since, disk, flushMu>>
    BY <1>2 DEF Save, NoTraffic, trafficVars, InReset
  <2>2. \/ Goto(t, job[t].then)
           /\ job' = [job EXCEPT ![t].us = <<>>,
                        ![t].cfg = IF job[t].then = "apply" THEN Build(job[t].us) ELSE <<>>]
        \/ Goto(t, "tickFP") /\ job' = [job EXCEPT ![t] = NoJob]
        \/ Done(t)
    BY <1>2 DEF Save
  <2>3. CASE Goto(t, job[t].then)
             /\ job' = [job EXCEPT ![t].us = <<>>,
                          ![t].cfg = IF job[t].then = "apply" THEN Build(job[t].us) ELSE <<>>]
    <3> DEFINE x == IF job[t].then = "apply" THEN Build(job[t].us) ELSE <<>>
    <3>1. Goto(t, job[t].then) /\ job' = [job EXCEPT ![t].us = <<>>, ![t].cfg = x]
      BY <2>3
    <3> HIDE DEF x
    <3>2. Moved(t) /\ pc'[t] = job[t].then /\ job[t].then \notin InReset
      BY <3>1 DEF Moved, Goto, Shape, Locals
    <3> QED
      BY <1>1, <2>1, <3>2
  <2>4. CASE Goto(t, "tickFP") /\ job' = [job EXCEPT ![t] = NoJob]
    <3>1. Moved(t) /\ pc'[t] = "tickFP"
      BY <2>4, GotoMoves, NoJobLocals
    <3> QED
      BY <1>1, <2>1, <3>1 DEF InReset
  <2>5. CASE Done(t)
    BY <1>1, <2>1, <2>5, DoneMoves DEF InReset
  <2> QED
    BY <2>2, <2>3, <2>4, <2>5
<1>3. CASE Check(t)
  <2>1. pc[t] \notin InReset /\ UNCHANGED <<live, ctr, since, disk, flushMu>>
    BY <1>3 DEF Check, NoTraffic, trafficVars, InReset
  <2>2. \/ Done(t)
        \/ Goto(t, "apply") /\ job' = [job EXCEPT ![t].cfg = Build(users)]
    BY <1>3 DEF Check
  <2>3. ASSUME Goto(t, "apply"), job' = [job EXCEPT ![t].cfg = Build(users)]
        PROVE  Moved(t) /\ pc'[t] = "apply"
    BY <2>3 DEF Moved, Goto, Shape, Locals
  <2> QED
    BY <1>1, <2>1, <2>2, <2>3, DoneMoves DEF InReset
<1>4. CASE Remat(t)
  <2> DEFINE j == [NoJob EXCEPT !.cfg = Build(users)]
  <2>1. /\ pc[t] = "remat" /\ UNCHANGED <<live, ctr, since, disk, flushMu>>
        /\ Goto(t, "apply") /\ job' = [job EXCEPT ![t] = j] /\ Locals(j)
    BY <1>4, NoJobLocals DEF Remat, NoTraffic, trafficVars
  <2> HIDE DEF j
  <2>2. Moved(t) /\ pc'[t] = "apply"
    BY <2>1, GotoMoves
  <2> QED
    BY <1>1, <2>1, <2>2 DEF InReset
<1>5. CASE Apply(t)
  <2>1. /\ pc[t] = "apply" /\ UNCHANGED <<live, ctr, since, disk, flushMu>>
        /\ \/ Done(t)
           \/ Goto(t, "publish") /\ UNCHANGED job
    BY <1>5 DEF Apply, NoTraffic, trafficVars
  <2> QED
    BY <1>1, <2>1, DoneMoves, StillMoves DEF InReset
<1>6. CASE Publish(t)
  <2>1. /\ pc[t] = "publish" /\ UNCHANGED <<live, ctr, since, flushMu>> /\ Done(t)
        /\ \E s : disk' = [disk EXCEPT !.subj = s]
    BY <1>6 DEF Publish, RegisterManifest
  <2>2. DOMAIN disk' = DOMAIN disk /\ disk'.ctr = disk.ctr
    BY <2>1
  <2> QED
    BY <2>1, <2>2, DoneMoves DEF Outside, InReset
<1> QED
  BY <1>2, <1>3, <1>4, <1>5, <1>6

LEMMA LoopsOutside ==
  ASSUME Shape, Poll \/ ApplyTrafficUsage \/ Tick \/ TickFP
  PROVE  Outside(Bridge) \/ Outside(Ticker)
<1>1. ASSUME NEW t \in {Bridge, Ticker}, pc[t] \notin InReset, Moved(t), pc'[t] \notin InReset,
             UNCHANGED <<live, ctr, since, disk, flushMu>>
      PROVE  Outside(Bridge) \/ Outside(Ticker)
  <2>1. t # Flusher
    BY AccountsDistinct
  <2> QED
    BY <1>1, <2>1 DEF Outside
<1>0. Bridge \in Threads /\ Ticker \in Threads
  BY DEF Threads
<1>2. CASE Poll
  <2> DEFINE x == [u \in LiveIds(users) |-> SubjectUsage(u)]
  <2>1. /\ pc[Bridge] = "idle" /\ UNCHANGED <<live, ctr, since, disk, flushMu>>
        /\ Goto(Bridge, "lock") /\ job' = [job EXCEPT ![Bridge].upd = x]
    BY <1>2 DEF Poll, NoTraffic, trafficVars
  <2> HIDE DEF x
  <2>2. Moved(Bridge) /\ pc'[Bridge] = "lock"
    BY <1>0, <2>1 DEF Moved, Goto, Shape, Locals
  <2> QED
    BY <1>1, <2>1, <2>2 DEF InReset
<1>3. CASE ApplyTrafficUsage
  <2> DEFINE us == ApplyUsage(users, job[Bridge].upd)
             j  == [NoJob EXCEPT !.us = us, !.fp = Fingerprint(users), !.then = "check"]
  <2>1. /\ pc[Bridge] = "lock" /\ UNCHANGED <<live, ctr, since, disk, flushMu>>
        /\ \/ Done(Bridge)
           \/ Goto(Bridge, "save") /\ job' = [job EXCEPT ![Bridge] = j]
    BY <1>3 DEF ApplyTrafficUsage, NoTraffic, trafficVars
  <2> HIDE DEF us
  <2>2. Locals(j)
    BY DEF Locals, NoJob, InReset
  <2> HIDE DEF j
  <2> QED
    BY <1>0, <1>1, <2>1, <2>2, GotoMoves, DoneMoves DEF InReset
<1>4. CASE Tick
  <2> DEFINE j == [NoJob EXCEPT !.us = Resets(users), !.zero = Due(users), !.then = "zero",
                                !.afterZero = "tickFP"]
  <2>1. /\ pc[Ticker] = "idle" /\ UNCHANGED <<live, ctr, since, disk, flushMu>>
        /\ \/ Goto(Ticker, "tickFP") /\ UNCHANGED job
           \/ Goto(Ticker, "save") /\ job' = [job EXCEPT ![Ticker] = j]
    BY <1>4 DEF Tick, NoTraffic, trafficVars
  <2>2. Locals(j)
    BY DEF Locals, NoJob, InReset
  <2> HIDE DEF j
  <2> QED
    BY <1>0, <1>1, <2>1, <2>2, GotoMoves, StillMoves DEF InReset
<1>5. CASE TickFP
  <2>1. /\ pc[Ticker] = "tickFP" /\ UNCHANGED <<live, ctr, since, disk, flushMu>>
        /\ \/ Done(Ticker)
           \/ Goto(Ticker, "remat") /\ job' = [job EXCEPT ![Ticker] = NoJob]
    BY <1>5 DEF TickFP, NoTraffic, trafficVars
  <2> QED
    BY <1>0, <1>1, <2>1, GotoMoves, DoneMoves, NoJobLocals DEF InReset
<1> QED
  BY <1>2, <1>3, <1>4, <1>5

-----------------------------------------------------------------------------
(* The steps inside flushMu *)

\* Whoever holds flushMu is alone inside it.
LEMMA OneHolder ==
  ASSUME CountInv
  PROVE  /\ flushMu # Flusher => pc[Flusher] = "idle" /\ \A k \in Names : InFlight(k) = 0
         /\ \A t \in Threads : pc[t] \in InReset => flushMu = t
         /\ \A k \in Names : Resetting(k) => \E t \in Threads : flushMu = t /\ pc[t] = "zeroStore"
                                                               /\ k \in job[t].keys
BY DEF CountInv, FlushInv, InFlight, Zeros, Resetting, InReset

LEMMA ZeroStep ==
  ASSUME CountInv, NEW t \in Threads, t # Flusher, Zero(t)
  PROVE  CountInv'
<1>1. CASE job[t].zero = {} /\ Goto(t, job[t].afterZero) /\ UNCHANGED <<job, trafficVars>>
  <2>1. Moved(t) /\ pc'[t] = job[t].afterZero
    BY <1>1, StillMoves DEF CountInv
  <2>2. pc[t] = "zero" /\ job[t].afterZero \notin InReset
    BY DEF Zero, CountInv, Shape, Locals
  <2>3. Outside(t)
    BY <1>1, <2>1, <2>2 DEF Outside, trafficVars, InReset
  <2> QED
    BY <2>3, OutsideKeeps
<1>2. ASSUME NEW K, flushMu = Free, flushMu' = t, DiscardUserKeys(K),
             job' = [job EXCEPT ![t].keys = K], Goto(t, "zeroStore")
      PROVE  CountInv'
  <2>1. /\ Moved(t) /\ pc'[t] = "zeroStore" /\ job'[t].keys = K
        /\ Shape'
    BY <1>2 DEF Moved, Goto, CountInv, Shape, Locals, NoJob
  <2>2. /\ \A d \in Threads : d # flushMu /\ pc[d] \notin InReset
        /\ pc[Flusher] = "idle" /\ \A k \in Names : InFlight(k) = 0 /\ ~Resetting(k)
    BY <1>2, OneHolder, AccountsDistinct DEF Threads
  <2>3. Flusher \in Threads /\ pc'[Flusher] = pc[Flusher] /\ job'[Flusher] = job[Flusher]
    BY <2>1 DEF Threads, Moved
  <2>4. FlushInv'
    BY <1>2, <2>1, <2>2, <2>3 DEF CountInv, FlushInv, Moved
  <2>5. /\ live' = [k \in Names |-> IF k \in K THEN 0 ELSE live[k]]
        /\ since' = [k \in Names |-> IF k \in K THEN 0 ELSE since[k]]
        /\ UNCHANGED <<ctr, disk>>
    BY <1>2 DEF DiscardUserKeys
  <2>6. Numbers'
    BY <2>3, <2>5 DEF CountInv, Numbers
  <2>7. Balance'
    <3> SUFFICES ASSUME NEW k \in Names
                 PROVE  IF Resetting(k)' THEN live'[k] = since'[k]
                        ELSE ctr'[k] + live'[k] + InFlight(k)' = since'[k]
      BY DEF Balance
    <3>1. Resetting(k)' <=> k \in K
      BY <2>1, <2>2 DEF Resetting, Moved, InReset
    <3>2. CASE k \in K
      BY <2>5, <3>1, <3>2
    <3>3. CASE k \notin K
      <4>1. ctr[k] + live[k] + InFlight(k) = since[k] /\ InFlight(k)' = InFlight(k)
        BY <2>2, <2>3 DEF CountInv, Balance, InFlight
      <4> QED
        BY <2>5, <3>1, <3>3, <4>1
    <3> QED
      BY <3>2, <3>3
  <2> QED
    BY <2>1, <2>4, <2>6, <2>7 DEF CountInv
<1> QED
  BY <1>1, <1>2 DEF Zero

\* A step of the goroutine that resets, with flushMu in its hands, from which only the counters
\* of its keys may change.
LEMMA ResetStep ==
  ASSUME CountInv, NEW t \in Threads, t # Flusher,
         pc[t] \in InReset, Moved(t), pc'[t] # "zeroStore",
         flushMu' = t \/ (flushMu' = Free /\ pc'[t] \notin InReset), UNCHANGED <<live, since>>,
         NEW K, pc[t] = "zeroStore" => K = job[t].keys, pc[t] = "setSeries" => K = {},
         ctr' = [k \in Names |-> IF k \in K THEN 0 ELSE ctr[k]],
         DOMAIN disk' = DOMAIN disk, disk'.ctr \in {disk.ctr, ctr'}
  PROVE  CountInv'
<1>1. /\ flushMu = t /\ \A d \in Threads : d # t => pc[d] \notin InReset
      /\ pc[Flusher] = "idle" /\ \A k \in Names : InFlight(k) = 0
      /\ \A k \in Names : Resetting(k) <=> pc[t] = "zeroStore" /\ k \in K
  BY OneHolder DEF Resetting, InReset
<1>2. Flusher \in Threads /\ pc'[Flusher] = pc[Flusher] /\ job'[Flusher] = job[Flusher]
  BY DEF Threads, Moved
<1>3. Shape'
  BY DEF CountInv, Shape, Moved
<1>4. FlushInv'
  BY <1>1, <1>2 DEF CountInv, FlushInv, Moved
<1>5. Numbers'
  BY <1>2 DEF CountInv, Numbers
<1>6. \A k \in Names : ~Resetting(k)'
  BY <1>1 DEF Resetting, Moved, InReset
<1>7. ASSUME NEW k \in Names PROVE ctr'[k] + live'[k] + InFlight(k)' = since'[k]
  <2>1. InFlight(k)' = 0 /\ ctr[k] \in Nat /\ live[k] \in Nat /\ since[k] \in Nat
    BY <1>1, <1>2 DEF InFlight, CountInv, Numbers
  <2>2. CASE k \in K
    <3>1. Resetting(k)
      BY <1>1, <2>2 DEF InReset
    <3>2. live[k] = since[k]
      BY <3>1 DEF CountInv, Balance
    <3> QED
      BY <2>1, <2>2, <3>2
  <2>3. CASE k \notin K
    <3>1. ctr[k] + live[k] + InFlight(k) = since[k] /\ InFlight(k) = 0
      BY <1>1, <2>3 DEF CountInv, Balance
    <3> QED
      BY <2>1, <2>3, <3>1
  <2> QED
    BY <2>2, <2>3
<1> QED
  BY <1>3, <1>4, <1>5, <1>6, <1>7 DEF CountInv, Balance

LEMMA ZeroStoreKeeps ==
  ASSUME CountInv, NEW t \in Threads, t # Flusher, ZeroStore(t)
  PROVE  CountInv'
<1> DEFINE K == job[t].keys
<1>1. PICK u \in job[t].zero, ok \in BOOLEAN :
        /\ ZeroSubjectKeys(u, K, ok)
        /\ IF ok /\ job[t].set > 0
           THEN Goto(t, "setSeries") /\ UNCHANGED <<job, flushMu>>
           ELSE /\ Goto(t, "zero") /\ flushMu' = Free
                /\ job' = [job EXCEPT ![t].zero = @ \ {u}, ![t].keys = {}]
  BY DEF ZeroStore
<1>2. pc[t] = "zeroStore" /\ flushMu = t /\ Shape
  BY OneHolder DEF ZeroStore, InReset, CountInv
<1>3. /\ ctr' = [k \in Names |-> IF k \in K THEN 0 ELSE ctr[k]] /\ UNCHANGED <<live, since>>
      /\ DOMAIN disk' = DOMAIN disk /\ disk'.ctr \in {disk.ctr, ctr'}
  BY <1>1 DEF ZeroSubjectKeys, CountInv, Numbers
<1>4. /\ Moved(t)
      /\ \/ pc'[t] = "setSeries" /\ flushMu' = t
         \/ pc'[t] = "zero" /\ flushMu' = Free
  <2>1. CASE Goto(t, "setSeries") /\ UNCHANGED <<job, flushMu>>
    BY <1>2, <2>1, StillMoves
  <2>2. CASE Goto(t, "zero") /\ flushMu' = Free
             /\ job' = [job EXCEPT ![t].zero = @ \ {u}, ![t].keys = {}]
    BY <1>2, <2>2 DEF Shape, Goto, Moved, Locals
  <2> QED
    BY <1>1, <2>1, <2>2
<1> HIDE DEF K
<1>5. pc[t] \in InReset /\ pc'[t] # "zeroStore" /\ (pc'[t] = "zero" => pc'[t] \notin InReset)
  BY <1>2, <1>4 DEF InReset
<1> QED
  BY <1>2, <1>3, <1>4, <1>5, ResetStep DEF K

LEMMA SetSeriesKeeps ==
  ASSUME CountInv, NEW t \in Threads, t # Flusher, SetSeries(t)
  PROVE  CountInv'
<1>1. PICK ok \in BOOLEAN : \E x : ApplySamples(Zeros, x, ok)
  BY DEF SetSeries
<1>2. pc[t] = "setSeries" /\ flushMu' = Free /\ Shape
  BY DEF SetSeries, CountInv
<1> DEFINE K == {}
<1>3. /\ ctr' = [k \in Names |-> IF k \in K THEN 0 ELSE ctr[k]] /\ UNCHANGED <<live, since>>
      /\ DOMAIN disk' = DOMAIN disk /\ disk'.ctr \in {disk.ctr, ctr'}
  BY <1>1 DEF ApplySamples, Zeros, CountInv, Numbers
<1>4. Moved(t) /\ pc'[t] = "zero"
  BY <1>2 DEF SetSeries, Shape, Goto, Moved, Locals
<1>5. /\ pc[t] \in InReset /\ pc'[t] # "zeroStore" /\ pc'[t] \notin InReset
      /\ (pc[t] = "zeroStore" => K = job[t].keys)
  BY <1>2, <1>4 DEF InReset
<1>6. pc[t] = "setSeries" => K = {}
  OBVIOUS
<1> HIDE DEF K
<1> QED
  BY <1>2, <1>3, <1>4, <1>5, <1>6, ResetStep

LEMMA FlushKeeps ==
  ASSUME CountInv, FlushStep
  PROVE  CountInv'
<1>0. Flusher \in Threads /\ Shape /\ Numbers /\ Balance
  BY DEF Threads, CountInv
<1>1. \A t \in Threads : pc[t] \in InReset => flushMu = t
  BY OneHolder
<1>2. CASE FlushSwap
  <2>1. /\ pc[Flusher] = "idle" /\ flushMu = Free /\ flushMu' = Flusher
        /\ live' = Zeros /\ UNCHANGED <<ctr, disk, since>>
        /\ Goto(Flusher, "samples") /\ job' = [job EXCEPT ![Flusher].delta = live]
    BY <1>2 DEF FlushSwap, SwapDeltas
  <2>2. /\ Moved(Flusher) /\ pc'[Flusher] = "samples" /\ job'[Flusher].delta = live
    BY <1>0, <2>1 DEF Shape, Goto, Moved, Locals, NoJob
  <2>3. \A t \in Threads : pc[t] \notin InReset
    BY <1>1, <2>1, AccountsDistinct
  <2>4. \A k \in Names : ~Resetting(k) /\ ~Resetting(k)'
    BY <2>2, <2>3 DEF Resetting, Moved, InReset
  <2>5. Shape'
    BY <1>0, <2>2 DEF Shape, Moved
  <2>6. FlushInv'
    BY <2>1, <2>2, <2>3 DEF FlushInv, Moved, InReset
  <2>7. Numbers'
    BY <1>0, <2>1, <2>2 DEF Numbers, Zeros
  <2>8. Balance'
    <3>1. \A k \in Names : /\ ctr[k] + live[k] + InFlight(k) = since[k] /\ InFlight(k) = 0
                           /\ InFlight(k)' = live[k] /\ live'[k] = 0
      BY <1>0, <2>1, <2>2, <2>4, OneHolder, AccountsDistinct DEF Balance, InFlight, Zeros
    <3> QED
      BY <1>0, <2>1, <2>4, <3>1 DEF Balance, Numbers
  <2> QED
    BY <2>5, <2>6, <2>7, <2>8 DEF CountInv
<1>3. CASE FlushSamples
  <2> DEFINE x == SubjectDeltas(job[Flusher].delta)
  <2>1. /\ pc[Flusher] = "samples" /\ UNCHANGED <<live, ctr, disk, since, flushMu>>
        /\ Goto(Flusher, "write") /\ job' = [job EXCEPT ![Flusher].sdelta = x]
    BY <1>3 DEF FlushSamples, NoTraffic, trafficVars
  <2> HIDE DEF x
  <2>2. Moved(Flusher) /\ pc'[Flusher] = "write" /\ job'[Flusher].delta = job[Flusher].delta
    BY <1>0, <2>1 DEF Shape, Goto, Moved, Locals, NoJob
  <2>3. \A k \in Names : Resetting(k)' <=> Resetting(k)
    BY <2>1, <2>2 DEF Resetting, Moved
  <2>4. Shape'
    BY <1>0, <2>2 DEF Shape, Moved
  <2>5. FlushInv'
    BY <2>1, <2>2 DEF CountInv, FlushInv, Moved, InReset
  <2> QED
    BY <1>0, <2>1, <2>2, <2>3, <2>4, <2>5 DEF CountInv, Numbers, Balance, InFlight
<1>4. CASE FlushWrite
  <2>1. PICK ok \in BOOLEAN : \E x : ApplySamples(job[Flusher].delta, x, ok)
    BY <1>4 DEF FlushWrite
  <2>2. pc[Flusher] = "write" /\ flushMu' = Free /\ Done(Flusher)
    BY <1>4 DEF FlushWrite
  <2>3. Moved(Flusher) /\ pc'[Flusher] = "idle" /\ job'[Flusher].delta = Zeros
    BY <1>0, <2>2 DEF Done, Goto, Shape, Moved, Locals, NoJob, InReset
  <2>4. /\ flushMu = Flusher /\ \A t \in Threads : pc[t] \notin InReset
    BY <1>1, <2>2 DEF CountInv, FlushInv, InReset
  <2>5. \A k \in Names : ~Resetting(k) /\ ~Resetting(k)'
    BY <2>3, <2>4 DEF Resetting, Moved, InReset
  <2>6. /\ ctr' = [k \in Names |-> ctr[k] + job[Flusher].delta[k]] /\ UNCHANGED <<live, since>>
        /\ DOMAIN disk' = DOMAIN disk /\ disk'.ctr \in {disk.ctr, ctr'}
    BY <1>0, <2>1 DEF ApplySamples, Numbers
  <2>7. Shape'
    BY <1>0, <2>3 DEF Shape, Moved
  <2>8. FlushInv'
    BY <2>3, <2>4 DEF FlushInv, Moved, InReset
  <2>9. Numbers'
    BY <1>0, <2>3, <2>6 DEF Numbers, Zeros
  <2>10. Balance'
    <3>1. \A k \in Names : ctr[k] + live[k] + InFlight(k) = since[k] /\ InFlight(k)' = 0
      BY <1>0, <2>3, <2>5 DEF Balance, InFlight, Zeros
    <3> QED
      BY <1>0, <2>5, <2>6, <3>1 DEF Balance, InFlight, Numbers
  <2> QED
    BY <2>7, <2>8, <2>9, <2>10 DEF CountInv
<1> QED
  BY <1>2, <1>3, <1>4 DEF FlushStep

LEMMA CarryKeeps ==
  ASSUME CountInv, Carry
  PROVE  CountInv'
<1>1. PICK n : Count(n)
  BY DEF Carry
<1>2. /\ live' = [live EXCEPT ![n] = @ + 1] /\ since' = [since EXCEPT ![n] = @ + 1]
      /\ UNCHANGED <<ctr, disk, flushMu, pc, job>>
  BY <1>1 DEF Carry, Count
<1>3. Shape' /\ FlushInv'
  BY <1>2 DEF CountInv, Shape, FlushInv
<1>4. Numbers'
  <2>1. ASSUME NEW f \in [Names -> Nat] PROVE [f EXCEPT ![n] = @ + 1] \in [Names -> Nat]
    <3>1. CASE n \in Names
      BY <3>1
    <3>2. CASE n \notin Names
      BY <3>2
    <3> QED
      BY <3>1, <3>2
  <2>2. live' \in [Names -> Nat] /\ since' \in [Names -> Nat]
    BY <1>2, <2>1 DEF CountInv, Numbers
  <2> QED
    BY <1>2, <2>2 DEF CountInv, Numbers
<1>5. Balance'
  <2> SUFFICES ASSUME NEW k \in Names
               PROVE  IF Resetting(k) THEN live'[k] = since'[k]
                      ELSE ctr[k] + live'[k] + InFlight(k) = since'[k]
    BY <1>2 DEF Balance, Resetting, InFlight
  <2>1. /\ live[k] \in Nat /\ since[k] \in Nat /\ ctr[k] \in Nat /\ InFlight(k) \in Nat
        /\ \/ live'[k] = live[k] /\ since'[k] = since[k]
           \/ live'[k] = live[k] + 1 /\ since'[k] = since[k] + 1
    BY <1>2 DEF CountInv, Numbers, InFlight
  <2>2. CASE Resetting(k)
    BY <2>1, <2>2 DEF CountInv, Balance
  <2>3. CASE ~Resetting(k)
    <3>1. ctr[k] + live[k] + InFlight(k) = since[k]
      BY <2>3 DEF CountInv, Balance
    <3>2. ctr[k] + live'[k] + InFlight(k) = since'[k]
      BY <2>1, <3>1
    <3> QED
      BY <2>3, <3>2
  <2> QED
    BY <2>2, <2>3
<1> QED
  BY <1>3, <1>4, <1>5 DEF CountInv

LEMMA CrashKeeps ==
  ASSUME CountInv, Crash
  PROVE  CountInv'
<1>1. /\ live' = Zeros /\ ctr' = disk.ctr /\ since' = disk.ctr /\ UNCHANGED disk /\ flushMu' = Free
      /\ pc' = [t \in Threads |-> "idle"] /\ job' = [t \in Threads |-> NoJob]
  BY DEF Crash, TrafficRestart
<1>2. Flusher \in Threads /\ NoJob.delta = Zeros
  BY DEF Threads, NoJob
<1>3. Shape'
  BY <1>1, NoJobLocals DEF Shape
<1>4. FlushInv'
  BY <1>1, <1>2 DEF FlushInv, InReset
<1>5. Numbers'
  BY <1>1, <1>2 DEF CountInv, Numbers, Zeros
<1>6. \A k \in Names : ~Resetting(k)' /\ InFlight(k)' = 0
  BY <1>1, <1>2 DEF Resetting, InFlight, Zeros
<1>7. Balance'
  BY <1>1, <1>6 DEF CountInv, Numbers, Balance, Zeros
<1> QED
  BY <1>3, <1>4, <1>5, <1>7 DEF CountInv

-----------------------------------------------------------------------------
(* The theorem *)

LEMMA CountInit == Init => CountInv
<1> SUFFICES ASSUME Init PROVE CountInv
  OBVIOUS
<1>1. /\ live = Zeros /\ ctr = Zeros /\ since = Zeros /\ flushMu = Free
      /\ disk = [ctr |-> ctr, ser |-> ser, subj |-> subj]
      /\ pc = [t \in Threads |-> "idle"] /\ job = [t \in Threads |-> NoJob]
  BY DEF Init, TrafficInit, Stored
<1>2. Flusher \in Threads /\ NoJob.delta = Zeros
  BY DEF Threads, NoJob
<1>3. Shape
  BY <1>1, NoJobLocals DEF Shape
<1>4. FlushInv
  BY <1>1, <1>2 DEF FlushInv, InReset
<1>5. Numbers
  BY <1>1, <1>2 DEF Numbers, Zeros
<1>6. \A k \in Names : ~Resetting(k) /\ InFlight(k) = 0
  BY <1>1, <1>2 DEF Resetting, InFlight, Zeros
<1>7. Balance
  BY <1>1, <1>6 DEF Balance, Zeros
<1> QED
  BY <1>3, <1>4, <1>5, <1>7 DEF CountInv

LEMMA CountStep ==
  ASSUME CountInv, Next
  PROVE  CountInv'
<1>0. Shape /\ Bridge \in Threads /\ Ticker \in Threads /\ Bridge # Flusher /\ Ticker # Flusher
  BY AccountsDistinct DEF CountInv, Threads
<1>1. ASSUME NEW h \in Handlers, Requests(h) PROVE CountInv'
  <2>1. h \in Threads
    BY DEF Threads
  <2> QED
    BY <1>0, <1>1, <2>1, RequestsOutside, OutsideKeeps, FrameKeeps
<1>2. ASSUME NEW t \in Threads, t # Flusher, Call(t) PROVE CountInv'
  BY <1>0, <1>2, CallsOutside, OutsideKeeps, ZeroStep, ZeroStoreKeeps, SetSeriesKeeps DEF Call
<1>3. ASSUME NEW h \in Handlers, Call(h) PROVE CountInv'
  BY <1>2, <1>3, AccountsDistinct DEF Threads
<1>4. CASE BridgeStep \/ TickerStep
  BY <1>0, <1>2, <1>4, LoopsOutside, OutsideKeeps DEF BridgeStep, TickerStep
<1>5. CASE FlushStep
  BY <1>5, FlushKeeps
<1>6. CASE TimePasses
  BY <1>6, FrameKeeps DEF TimePasses, NoTraffic, trafficVars
<1> QED
  BY <1>1, <1>3, <1>4, <1>5, <1>6, CarryKeeps, CrashKeeps DEF Next

\* No byte is lost or counted twice between the tracker, a running Flush and the store, whoever
\* polls, edits, resets or deletes users meanwhile and whatever fails or crashes: Flush,
\* ZeroSubject and SetSubjectUsage hold flushMu from what they take out of the tracker to what
\* they have written into the store.
THEOREM BytesCountedOnce == Spec => []CountedOnce
<1>1. CountInv /\ [Next]_vars => CountInv'
  <2>1. CASE Next
    BY <2>1, CountStep
  <2>2. CASE UNCHANGED vars
    BY <2>2, FrameKeeps DEF vars, trafficVars
  <2> QED
    BY <2>1, <2>2
<1>2. CountInv => CountedOnce
  BY DEF CountInv, Balance, CountedOnce
<1> QED
  BY <1>1, <1>2, CountInit, PTL DEF Spec

-----------------------------------------------------------------------------
(* Induction over the natural numbers, as a fact about sets of them *)

LEMMA NatMinimum ==
  ASSUME NEW S, S \subseteq Nat, S # {}
  PROVE  \E x \in S : \A y \in S : x <= y
<1> DEFINE R == OpToRel(<, Nat)
<1>1. IsWellFoundedOn(R, Nat)
  BY NatLessThanWellFounded
<1>2. \A x, y \in Nat : y < x => <<y, x>> \in R
  BY DEF OpToRel
<1> HIDE DEF R
<1>3. PICK x \in S : \A y \in S : ~ (<<y, x>> \in R)
  BY <1>1, WFMin
<1>4. \A y \in S : ~ (y < x)
  BY <1>2, <1>3
<1> QED
  BY <1>4

LEMMA SetInduction ==
  ASSUME NEW T, 0 \in T, \A n \in Nat : n \in T => n + 1 \in T
  PROVE  Nat \subseteq T
<1>1. ASSUME Nat \ T # {} PROVE FALSE
  <2>1. PICK x \in Nat \ T : \A y \in Nat \ T : x <= y
    BY <1>1, NatMinimum, Nat \ T \subseteq Nat
  <2>2. x # 0 /\ x - 1 \in Nat /\ ~ (x <= x - 1)
    OBVIOUS
  <2>3. x - 1 \in T
    BY <2>1, <2>2
  <2> QED
    BY <2>2, <2>3
<1> QED
  BY <1>1

-----------------------------------------------------------------------------
(* A batch, record by record *)

\* The recursive definition defines the sequence of copies.
LEMMA ImportsAre ==
  ASSUME NEW us, NEW b, NEW batch, NEW policy, Len(batch) \in Nat
  PROVE  Imports(us, b, batch, policy) =
           [i \in 0..Len(batch) |->
              IF i = 0
              THEN [us |-> us, born |-> b, bySync |-> BySync(us), byName |-> ByName(us), ok |-> TRUE]
              ELSE ImportRecord(Imports(us, b, batch, policy)[i - 1], batch[i], policy)]
<1> DEFINE first == [us |-> us, born |-> b, bySync |-> BySync(us), byName |-> ByName(us), ok |-> TRUE]
           Is(g, m) == g = [i \in 0..m |-> IF i = 0 THEN first ELSE ImportRecord(g[i - 1], batch[i], policy)]
           T == {m \in Nat : \E g : Is(g, m)}
<1> HIDE DEF first
<1>1. 0 \in T
  <2>1. Is([i \in 0..0 |-> first], 0)
    OBVIOUS
  <2> QED
    BY <2>1
<1>2. ASSUME NEW m \in Nat, m \in T PROVE m + 1 \in T
  <2>1. PICK g : Is(g, m)
    BY <1>2
  <2> DEFINE h == [i \in 0..(m + 1) |-> IF i = m + 1 THEN ImportRecord(g[m], batch[i], policy) ELSE g[i]]
  <2>2. \A i \in 0..(m + 1) : h[i] = IF i = 0 THEN first ELSE ImportRecord(h[i - 1], batch[i], policy)
    <3> SUFFICES ASSUME NEW i \in 0..(m + 1)
        PROVE  h[i] = IF i = 0 THEN first ELSE ImportRecord(h[i - 1], batch[i], policy)
      OBVIOUS
    <3>1. CASE i = m + 1
      <4>1. h[m] = g[m]
        OBVIOUS
      <4> QED
        BY <3>1, <4>1
    <3>2. CASE i # m + 1
      <4>1. i \in 0..m /\ h[i] = g[i] /\ (i # 0 => i - 1 \in 0..(m + 1) /\ i - 1 # m + 1)
        BY <3>2
      <4>2. i # 0 => h[i - 1] = g[i - 1]
        BY <4>1
      <4>3. g[i] = IF i = 0 THEN first ELSE ImportRecord(g[i - 1], batch[i], policy)
        BY <2>1, <4>1
      <4> QED
        BY <4>1, <4>2, <4>3
    <3> QED
      BY <3>1, <3>2
  <2>3. Is(h, m + 1)
    BY <2>2
  <2> HIDE DEF h, Is
  <2> QED
    BY <2>3
<1> HIDE DEF T
<1>3. Nat \subseteq T
  BY <1>1, <1>2, SetInduction
<1>4. \E g : Is(g, Len(batch))
  BY <1>3 DEF T
<1>5. Imports(us, b, batch, policy) = CHOOSE g : Is(g, Len(batch))
  BY DEF Imports, first
<1>6. Is(Imports(us, b, batch, policy), Len(batch))
  BY <1>4, <1>5
<1> QED
  BY <1>6 DEF first

\* A user as far as its identity, revision and switches go; an import may make names of its own.
IsUser(r) ==
  r \in [name : {r.name}, enabled : BOOLEAN, limited : {r.limited}, expires : {r.expires}, due : {r.due},
         used : {r.used}, ingress : {r.ingress}, epoch : {r.epoch}, sync : SyncIds \cup {NoSync},
         mode : {r.mode}, syncOn : {r.syncOn}, deleted : BOOLEAN, rev : Nat]

\* Users numbered up to n.
Table(us, n) == \A u \in DOMAIN us : u \in 1..n /\ IsUser(us[u])

\* BySync finds, of every identity somebody has, one who has it.
LEMMA BySyncFinds ==
  ASSUME NEW us, NEW n \in Nat, Table(us, n), NEW s \in DOMAIN BySync(us)
  PROVE  BySync(us)[s] \in DOMAIN us /\ us[BySync(us)[s]].sync = s
<1> DEFINE S == {u \in DOMAIN us : us[u].sync = s}
           D == {n - u : u \in S}
<1>1. S # {} /\ S \subseteq 1..n /\ BySync(us)[s] = CHOOSE x \in S : \A y \in S : x >= y
  BY DEF BySync, Max, Table
<1>2. D # {} /\ D \subseteq Nat
  BY <1>1
<1>3. PICK d \in D : \A e \in D : d <= e
  BY <1>2, NatMinimum
<1>4. PICK x \in S : d = n - x
  OBVIOUS
<1>5. \A y \in S : x >= y
  BY <1>1, <1>3, <1>4
<1>6. BySync(us)[s] \in S
  BY <1>1, <1>5
<1> QED
  BY <1>6

\* It says the same of tables with the same identities,
LEMMA BySyncKeeps ==
  ASSUME NEW us, NEW vs, DOMAIN vs = DOMAIN us, \A u \in DOMAIN us : vs[u].sync = us[u].sync
  PROVE  BySync(vs) = BySync(us)
<1>1. {vs[u].sync : u \in DOMAIN vs} = {us[u].sync : u \in DOMAIN us}
  OBVIOUS
<1>2. \A s : {u \in DOMAIN vs : vs[u].sync = s} = {u \in DOMAIN us : us[u].sync = s}
  OBVIOUS
<1> QED
  BY <1>1, <1>2 DEF BySync

\* and knows a new user with an identity of its own, or none.
LEMMA BySyncAdds ==
  ASSUME NEW us, NEW n \in Nat, Table(us, n), NEW r, r.sync \notin DOMAIN BySync(us)
  PROVE  BySync(With(us, n + 1, r)) =
           IF r.sync # NoSync THEN With(BySync(us), r.sync, n + 1) ELSE BySync(us)
<1> DEFINE vs == With(us, n + 1, r)
           ids(t) == {t[u].sync : u \in DOMAIN t} \ {NoSync}
           has(t, s) == {u \in DOMAIN t : t[u].sync = s}
<1>1. /\ DOMAIN vs = DOMAIN us \cup {n + 1} /\ n + 1 \notin DOMAIN us /\ vs[n + 1] = r
      /\ \A u \in DOMAIN us : vs[u] = us[u]
  BY DEF With, Table
<1> HIDE DEF vs
<1>2. ids(vs) = ids(us) \cup ({r.sync} \ {NoSync})
  BY <1>1
<1>3. \A s : s # r.sync => has(vs, s) = has(us, s)
  BY <1>1
<1>4. r.sync # NoSync => has(vs, r.sync) = {n + 1}
  BY <1>1 DEF BySync
<1>5. Max({n + 1}) = n + 1
  BY DEF Max
<1>6. BySync(us) = [s \in ids(us) |-> Max(has(us, s))] /\ BySync(vs) = [s \in ids(vs) |-> Max(has(vs, s))]
  BY DEF BySync
<1> HIDE DEF ids, has
<1>7. CASE r.sync = NoSync
  <2>1. ids(vs) = ids(us) /\ NoSync \notin ids(us)
    BY <1>2, <1>7 DEF ids
  <2>2. \A s \in ids(us) : has(vs, s) = has(us, s)
    BY <1>3, <1>7, <2>1
  <2> QED
    BY <1>6, <1>7, <2>1, <2>2 DEF vs
<1>8. CASE r.sync # NoSync
  <2>1. ids(vs) = ids(us) \cup {r.sync} /\ r.sync \notin ids(us)
    BY <1>2, <1>6, <1>8
  <2>2. BySync(vs) = [s \in ids(us) \cup {r.sync} |-> IF s = r.sync THEN n + 1 ELSE Max(has(us, s))]
    BY <1>3, <1>4, <1>5, <1>6, <1>8, <2>1
  <2>3. With(BySync(us), r.sync, n + 1) = [s \in ids(us) \cup {r.sync} |-> IF s = r.sync THEN n + 1 ELSE Max(has(us, s))]
    BY <1>6 DEF With
  <2> QED
    BY <1>8, <2>2, <2>3 DEF vs
<1> QED
  BY <1>7, <1>8

-----------------------------------------------------------------------------
(* One record of a batch *)

\* A copy in the middle of an import: the index of identities is the one of its users.
Folded(st) ==
  /\ DOMAIN st = {"us", "born", "bySync", "byName", "ok"} /\ st.ok \in BOOLEAN
  /\ st.born \in Nat /\ Table(st.us, st.born) /\ st.bySync = BySync(st.us)

\* The copy has what the record asks for, or something newer.
Holds(st, rec) ==
  LET r == st.us[st.bySync[rec.sync]]
  IN  rec.sync \in DOMAIN st.bySync /\ IF rec.deleted THEN r.deleted /\ ~r.enabled ELSE rec.rev <= r.rev

\* User u has become v, and nothing else changed but the index of names.
Becomes(st, new, u, v) ==
  /\ DOMAIN new = DOMAIN st /\ new.ok = st.ok /\ new.born = st.born /\ new.bySync = st.bySync
  /\ new.us = [st.us EXCEPT ![u] = v]

\* The user is as new as the record, which is skipped.
Newest(rec, r) == rec.rev > 0 /\ rec.rev <= r.rev /\ ~rec.deleted

LEMMA BecomesSo ==
  ASSUME NEW st, Folded(st), NEW u, NEW v, NEW names
  PROVE  Becomes(st, [st EXCEPT !.us[u] = v, !.byName = names], u, v)
<1> DEFINE new == [st EXCEPT !.us[u] = v, !.byName = names]
<1>1. DOMAIN new = DOMAIN st /\ new.us = [st.us EXCEPT ![u] = v]
  BY DEF Folded
<1>2. new.ok = st.ok /\ new.born = st.born /\ new.bySync = st.bySync
  BY DEF Folded
<1> QED
  BY <1>1, <1>2 DEF Becomes

LEMMA ProfileTaken ==
  ASSUME NEW r, IsUser(r), NEW rec \in Record, NEW n
  PROVE  LET v == ImportProfile(r, rec, n)
         IN  IsUser(v) /\ v.sync = r.sync /\ rec.rev <= v.rev /\ r.rev < v.rev
<1> DEFINE p == [r EXCEPT !.name = n, !.enabled = rec.enabled, !.mode = TRUE, !.syncOn = TRUE,
                          !.deleted = FALSE, !.rev = NextRev(r, rec.rev)]
           v == ImportProfile(r, rec, n)
<1>1. NextRev(r, rec.rev) \in Nat /\ rec.rev <= NextRev(r, rec.rev) /\ r.rev < NextRev(r, rec.rev)
  BY DEF NextRev, IsUser, Record
<1>2. IsUser(p) /\ p.sync = r.sync /\ p.rev = NextRev(r, rec.rev)
  BY <1>1 DEF IsUser, Record
<1> HIDE DEF p
<1>3. v = p \/ v = [p EXCEPT !.ingress = p.used]
  BY DEF ImportProfile, SeedIngressFromUsed, p
<1>4. IsUser([p EXCEPT !.ingress = p.used]) /\ [p EXCEPT !.ingress = p.used].sync = p.sync
      /\ [p EXCEPT !.ingress = p.used].rev = p.rev
  BY <1>2 DEF IsUser
<1> HIDE DEF v
<1>5. IsUser(v) /\ v.sync = r.sync /\ v.rev = NextRev(r, rec.rev)
  BY <1>2, <1>3, <1>4
<1> QED
  BY <1>1, <1>5 DEF v

\* What a known identity's record does to the copy: its user takes over what is newer, or
\* nothing changes.
Known(st, rec, policy, new, u, r) ==
  /\ u \in DOMAIN st.us /\ IsUser(r) /\ r.sync = rec.sync
  /\ \/ new = st /\ Newest(rec, r)
     \/ new = [st EXCEPT !.ok = FALSE] /\ ~Newest(rec, r) /\ ~(rec.deleted /\ policy.tombs)
     \/ \E v : /\ Becomes(st, new, u, v) /\ IsUser(v) /\ v.sync = r.sync
               /\ rec.rev <= v.rev /\ r.rev < v.rev /\ ~Newest(rec, r)
               /\ rec.deleted /\ policy.tombs =>
                    v = [r EXCEPT !.deleted = TRUE, !.enabled = FALSE, !.rev = NextRev(r, rec.rev)]

LEMMA KnownTakes ==
  ASSUME NEW st, Folded(st), NEW rec \in Record, rec.sync \in DOMAIN st.bySync, NEW policy
  PROVE  Known(st, rec, policy, ImportKnown(st, rec, policy), st.bySync[rec.sync], st.us[st.bySync[rec.sync]])
<1> DEFINE u   == st.bySync[rec.sync]
           r   == st.us[u]
           new == ImportKnown(st, rec, policy)
           taken == rec.name \in DOMAIN st.byName /\ st.byName[rec.name] # u
           n     == IF taken THEN UniqueImportName(rec.name, st.byName) ELSE rec.name
           held  == r.name \in DOMAIN st.byName /\ st.byName[r.name] = u
           freed == IF held THEN Without(st.byName, r.name) ELSE st.byName
           renamed == IF n # r.name THEN With(freed, n, u) ELSE st.byName
           buried == [r EXCEPT !.deleted = TRUE, !.enabled = FALSE, !.rev = NextRev(r, rec.rev)]
           skipped == Newest(rec, r)
<1>1. u \in DOMAIN st.us /\ IsUser(r) /\ r.sync = rec.sync
  BY BySyncFinds DEF Folded, Table
<1>2. new = IF skipped THEN st
            ELSE IF rec.deleted /\ policy.tombs THEN [st EXCEPT !.us[u] = buried, !.byName = freed]
            ELSE IF taken /\ policy.reject THEN [st EXCEPT !.ok = FALSE]
            ELSE [st EXCEPT !.us[u] = ImportProfile(r, rec, n), !.byName = renamed]
  BY DEF ImportKnown, Newest
<1>3. IsUser(buried) /\ buried.sync = r.sync /\ rec.rev <= buried.rev /\ r.rev < buried.rev
  <2>1. NextRev(r, rec.rev) \in Nat /\ rec.rev <= NextRev(r, rec.rev) /\ r.rev < NextRev(r, rec.rev)
    BY <1>1 DEF NextRev, IsUser, Record
  <2> HIDE DEF u, r
  <2> QED
    BY <1>1, <2>1 DEF IsUser
<1>4. \A v, names : Becomes(st, [st EXCEPT !.us[u] = v, !.byName = names], u, v)
  BY BecomesSo
<1> HIDE DEF u, r, taken, n, freed, renamed, buried, skipped, new
<1>5. CASE skipped
  BY <1>1, <1>2, <1>5 DEF u, r, new, skipped, Known
<1>6. CASE ~skipped /\ rec.deleted /\ policy.tombs
  <2>1. Becomes(st, new, u, buried)
    BY <1>2, <1>4, <1>6
  <2>2. \E v : /\ Becomes(st, new, u, v) /\ IsUser(v) /\ v.sync = r.sync /\ rec.rev <= v.rev
              /\ r.rev < v.rev /\ v = buried
    BY <1>3, <2>1
  <2> QED
    BY <1>1, <1>6, <2>2 DEF u, r, new, buried, skipped, Known
<1>7. CASE ~skipped /\ ~(rec.deleted /\ policy.tombs) /\ taken /\ policy.reject
  BY <1>1, <1>2, <1>7 DEF u, r, new, skipped, Known
<1>8. CASE ~skipped /\ ~(rec.deleted /\ policy.tombs) /\ ~(taken /\ policy.reject)
  <2>1. Becomes(st, new, u, ImportProfile(r, rec, n))
    BY <1>2, <1>4, <1>8
  <2>2. LET v == ImportProfile(r, rec, n) IN IsUser(v) /\ v.sync = r.sync /\ rec.rev <= v.rev /\ r.rev < v.rev
    BY <1>1, ProfileTaken
  <2>3. \E v : Becomes(st, new, u, v) /\ IsUser(v) /\ v.sync = r.sync /\ rec.rev <= v.rev /\ r.rev < v.rev
    BY <2>1, <2>2
  <2> QED
    BY <1>1, <1>8, <2>3 DEF u, r, new, skipped, Known
<1> QED
  BY <1>5, <1>6, <1>7, <1>8

\* A copy in which u has become v and everything else is as it was.
Renewed(st, new, u, v) ==
  /\ Folded(new) /\ DOMAIN new.us = DOMAIN st.us /\ new.us[u] = v
  /\ \A x \in DOMAIN st.us : x # u => new.us[x] = st.us[x]

\* What becomes of a copy when one user changes and keeps its identity.
LEMMA BecomesFolded ==
  \A st, new, u, v :
    Folded(st) /\ u \in DOMAIN st.us /\ Becomes(st, new, u, v) /\ IsUser(v) /\ v.sync = st.us[u].sync
      => Renewed(st, new, u, v)
<1> SUFFICES ASSUME NEW st, NEW new, NEW u, NEW v, Folded(st), u \in DOMAIN st.us,
                    Becomes(st, new, u, v), IsUser(v), v.sync = st.us[u].sync
             PROVE  Renewed(st, new, u, v)
  OBVIOUS
<1>1. /\ DOMAIN new.us = DOMAIN st.us /\ new.us[u] = v
      /\ \A x \in DOMAIN st.us : x # u => new.us[x] = st.us[x]
  BY DEF Becomes
<1>2. BySync(new.us) = BySync(st.us)
  BY <1>1, BySyncKeeps
<1> QED
  BY <1>1, <1>2 DEF Folded, Becomes, Table, Renewed

\* An unknown identity: a new user, unless that is refused.
Unknown(st, rec, policy, new) ==
  \/ new = [st EXCEPT !.ok = FALSE]
  \/ /\ Folded(new) /\ new.ok = st.ok /\ new.born = st.born + 1
     /\ \A x \in DOMAIN st.us : x \in DOMAIN new.us /\ new.us[x] = st.us[x]
     /\ \A s \in DOMAIN st.bySync : s \in DOMAIN new.bySync /\ new.bySync[s] = st.bySync[s]
     /\ policy.tombs /\ rec.rev > 0 /\ rec.sync # NoSync => Holds(new, rec)

LEMMA UnknownTakes ==
  ASSUME NEW st, Folded(st), NEW rec \in Record, rec.sync \notin DOMAIN st.bySync, NEW policy,
         policy.tombs \in BOOLEAN
  PROVE  Unknown(st, rec, policy, ImportUnknown(st, rec, policy))
<1> DEFINE u   == st.born + 1
           taken == rec.name \in DOMAIN st.byName
           n     == IF taken THEN UniqueImportName(rec.name, st.byName) ELSE rec.name
           r     == ImportedUser(rec, n, policy.tombs)
           vs    == With(st.us, u, r)
           synced == IF rec.sync # NoSync THEN With(st.bySync, rec.sync, u) ELSE st.bySync
           names == IF r.deleted THEN st.byName ELSE With(st.byName, n, u)
           new   == ImportUnknown(st, rec, policy)
<1>1. /\ IsUser(r) /\ r.sync = rec.sync /\ (rec.rev > 0 => r.rev = rec.rev)
      /\ policy.tombs /\ rec.deleted => r.deleted /\ ~r.enabled
  <2> DEFINE base == NewUser(n, rec.sync)
             e == rec.enabled /\ ~(rec.deleted /\ policy.tombs)
             d == rec.deleted /\ policy.tombs
             k == IF rec.rev > 0 THEN rec.rev ELSE 1
  <2>1. r = [base EXCEPT !.rev = k, !.enabled = e, !.deleted = d]
    BY DEF ImportedUser
  <2>2. IsUser(base) /\ base.sync = rec.sync
    BY DEF NewUser, IsUser, Record
  <2>3. /\ e \in BOOLEAN /\ d \in BOOLEAN /\ k \in Nat
        /\ (rec.rev > 0 => k = rec.rev) /\ (policy.tombs /\ rec.deleted => d = TRUE /\ e = FALSE)
    BY DEF Record
  <2> HIDE DEF r, base, e, d, k
  <2> QED
    BY <2>1, <2>2, <2>3 DEF IsUser
<1>2. new = IF taken /\ policy.reject THEN [st EXCEPT !.ok = FALSE]
            ELSE [st EXCEPT !.us = vs, !.born = u, !.bySync = synced, !.byName = names]
  <2>1. st.us = st.us /\ DOMAIN st = {"us", "born", "bySync", "byName", "ok"}
    BY DEF Folded
  <2> QED
    BY <2>1 DEF ImportUnknown
<1> HIDE DEF r, n, names
<1>3. CASE taken /\ policy.reject
  BY <1>2, <1>3 DEF Unknown
<1>4. CASE ~(taken /\ policy.reject)
  <2>1. new = [st EXCEPT !.us = vs, !.born = u, !.bySync = synced, !.byName = names]
    BY <1>2, <1>4
  <2> HIDE DEF new, taken
  <2>2. /\ DOMAIN new = DOMAIN st /\ new.us = vs /\ new.born = u /\ new.bySync = synced
        /\ new.ok = st.ok
    <3> HIDE DEF vs, u, synced
    <3> QED
      BY <2>1 DEF Folded
  <2>3. BySync(vs) = synced
    BY <1>1, BySyncAdds DEF Folded
  <2>4. /\ DOMAIN vs = DOMAIN st.us \cup {u} /\ u \notin DOMAIN st.us /\ vs[u] = r
        /\ \A x \in DOMAIN st.us : vs[x] = st.us[x]
    BY DEF With, Folded, Table
  <2>5. Table(vs, u) /\ u \in Nat
    <3>1. st.born \in Nat /\ Table(st.us, st.born)
      BY DEF Folded
    <3> HIDE DEF vs
    <3> QED
      BY <1>1, <2>4, <3>1 DEF Table
  <2>6. Folded(new)
    BY <2>2, <2>3, <2>5 DEF Folded
  <2>7. \A s \in DOMAIN st.bySync : s \in DOMAIN synced /\ synced[s] = st.bySync[s]
    BY DEF With
  <2>8. ASSUME policy.tombs, rec.rev > 0, rec.sync # NoSync
        PROVE  Holds(new, rec)
    <3>1. rec.sync \in DOMAIN synced /\ synced[rec.sync] = u
      BY <2>8 DEF With
    <3> HIDE DEF synced, vs, u
    <3>2. rec.sync \in DOMAIN new.bySync /\ new.us[new.bySync[rec.sync]] = r
      BY <2>2, <2>4, <3>1
    <3>3. rec.deleted => r.deleted /\ ~r.enabled
      BY <1>1, <2>8
    <3>4. rec.rev <= r.rev
      BY <1>1, <2>8 DEF Record
    <3> QED
      BY <3>2, <3>3, <3>4 DEF Holds
  <2> QED
    BY <2>2, <2>4, <2>6, <2>7, <2>8 DEF new, Unknown
<1> QED
  BY <1>3, <1>4

\* A record of a batch is taken over without touching other identities, or the import has failed.
Taken(st, rec, policy, new) ==
  /\ Folded(new) /\ st.born <= new.born
  /\ new.ok =>
       /\ st.ok
       /\ \A s \in DOMAIN st.bySync :
            /\ s \in DOMAIN new.bySync /\ new.bySync[s] = st.bySync[s]
            /\ s # rec.sync => new.us[st.bySync[s]] = st.us[st.bySync[s]]
       /\ policy.tombs /\ rec.rev > 0 /\ rec.sync # NoSync => Holds(new, rec)

LEMMA RecordTakes ==
  ASSUME NEW st, Folded(st), NEW rec \in Record, NEW policy, policy.tombs \in BOOLEAN
  PROVE  Taken(st, rec, policy, ImportRecord(st, rec, policy))
<1> DEFINE new == ImportRecord(st, rec, policy)
<1>0. ASSUME NEW x, x = [st EXCEPT !.ok = FALSE] PROVE Folded(x) /\ ~x.ok /\ x.born = st.born
  BY <1>0 DEF Folded
<1>b. st.born \in Nat /\ Table(st.us, st.born) /\ st.bySync = BySync(st.us)
  BY DEF Folded
<1>f. \A s \in DOMAIN st.bySync : st.bySync[s] \in DOMAIN st.us /\ st.us[st.bySync[s]].sync = s
  BY <1>b, BySyncFinds
<1>1. CASE ~st.ok
  <2>1. new = st
    BY <1>1 DEF ImportRecord
  <2> QED
    BY <1>1, <1>b, <2>1 DEF Taken
<1>2. CASE st.ok /\ rec.sync \in DOMAIN st.bySync
  <2>u. PICK u, r : u = st.bySync[rec.sync] /\ r = st.us[u]
    OBVIOUS
  <2>1. new = ImportKnown(st, rec, policy)
    BY <1>2 DEF ImportRecord
  <2> HIDE DEF new
  <2>k. Known(st, rec, policy, new, u, r)
    BY <1>2, <2>u, <2>1, KnownTakes
  <2>2. /\ u \in DOMAIN st.us /\ IsUser(r) /\ r.sync = rec.sync
        /\ \/ new = st /\ Newest(rec, r)
           \/ new = [st EXCEPT !.ok = FALSE]
           \/ \E v : /\ Becomes(st, new, u, v) /\ IsUser(v) /\ v.sync = r.sync /\ rec.rev <= v.rev
                     /\ rec.deleted /\ policy.tombs =>
                          v = [r EXCEPT !.deleted = TRUE, !.enabled = FALSE, !.rev = NextRev(r, rec.rev)]
    BY <2>k, Zenon DEF Known
  <2>3. CASE new = st /\ Newest(rec, r)
    BY <1>2, <1>b, <2>u, <2>3 DEF Newest, Holds, new, Taken
  <2>4. CASE new = [st EXCEPT !.ok = FALSE]
    BY <1>0, <1>b, <2>4 DEF new, Taken
  <2>5. CASE \E v : /\ Becomes(st, new, u, v) /\ IsUser(v) /\ v.sync = r.sync /\ rec.rev <= v.rev
                    /\ rec.deleted /\ policy.tombs =>
                         v = [r EXCEPT !.deleted = TRUE, !.enabled = FALSE, !.rev = NextRev(r, rec.rev)]
    <3>1. PICK v : /\ Becomes(st, new, u, v) /\ IsUser(v) /\ v.sync = r.sync /\ rec.rev <= v.rev
                   /\ rec.deleted /\ policy.tombs =>
                        v = [r EXCEPT !.deleted = TRUE, !.enabled = FALSE, !.rev = NextRev(r, rec.rev)]
      BY <2>5
    <3>s. u \in DOMAIN st.us /\ v.sync = st.us[u].sync /\ IsUser(v) /\ Becomes(st, new, u, v)
      BY <2>u, <2>2, <3>1
    <3>2. /\ Folded(new) /\ DOMAIN new.us = DOMAIN st.us /\ new.us[u] = v
          /\ \A x \in DOMAIN st.us : x # u => new.us[x] = st.us[x]
      <4>1. Folded(st)
        OBVIOUS
      <4>2. Renewed(st, new, u, v)
        BY <3>s, <4>1, BecomesFolded
      <4> QED
        BY <4>2 DEF Renewed
    <3>3. new.born = st.born /\ new.bySync = st.bySync
      BY <3>1 DEF Becomes
    <3>4. \A s \in DOMAIN st.bySync : s # rec.sync => st.bySync[s] # u
      BY <1>2, <1>f, <2>u
    <3>5. policy.tombs => Holds(new, rec)
      <4>1. rec.deleted /\ policy.tombs => v.deleted /\ ~v.enabled
        BY <2>2, <3>1 DEF IsUser
      <4> QED
        BY <1>2, <2>u, <3>1, <3>2, <3>3, <4>1 DEF Holds
    <3> QED
      BY <1>2, <1>b, <1>f, <3>2, <3>3, <3>4, <3>5 DEF new, Taken
  <2> QED
    BY <2>2, <2>3, <2>4, <2>5
<1>3. CASE st.ok /\ rec.sync \notin DOMAIN st.bySync
  <2>1. new = ImportUnknown(st, rec, policy)
    BY <1>3 DEF ImportRecord
  <2> HIDE DEF new
  <2>k. Unknown(st, rec, policy, new)
    BY <1>3, <2>1, UnknownTakes
  <2>2. \/ new = [st EXCEPT !.ok = FALSE]
        \/ /\ Folded(new) /\ new.ok = st.ok /\ new.born = st.born + 1
           /\ \A x \in DOMAIN st.us : x \in DOMAIN new.us /\ new.us[x] = st.us[x]
           /\ \A s \in DOMAIN st.bySync : s \in DOMAIN new.bySync /\ new.bySync[s] = st.bySync[s]
           /\ policy.tombs /\ rec.rev > 0 /\ rec.sync # NoSync => Holds(new, rec)
    BY <2>k DEF Unknown
  <2>3. CASE new = [st EXCEPT !.ok = FALSE]
    BY <1>0, <1>b, <2>3 DEF new, Taken
  <2> QED
    <3>1. ASSUME /\ Folded(new) /\ new.ok = st.ok /\ new.born = st.born + 1
                 /\ \A x \in DOMAIN st.us : x \in DOMAIN new.us /\ new.us[x] = st.us[x]
                 /\ \A s \in DOMAIN st.bySync : s \in DOMAIN new.bySync /\ new.bySync[s] = st.bySync[s]
                 /\ policy.tombs /\ rec.rev > 0 /\ rec.sync # NoSync => Holds(new, rec)
          PROVE  Taken(st, rec, policy, new)
      BY <1>3, <1>b, <1>f, <3>1 DEF Taken
    <3> QED
      BY <2>2, <2>3, <3>1 DEF new
<1> QED
  BY <1>1, <1>2, <1>3 DEF Folded

\* No profile has changed and nobody is new.
Unmoved(st, new) ==
  /\ Folded(new) /\ new.ok /\ new.born = st.born /\ new.bySync = st.bySync
  /\ DOMAIN new.us = DOMAIN st.us
  /\ \A x \in DOMAIN st.us : Profile(new.us[x]) = Profile(st.us[x]) /\ st.us[x].rev <= new.us[x].rev

\* A record the copy holds changes no profile.
LEMMA HeldChangesNothing ==
  ASSUME NEW st, Folded(st), st.ok, NEW rec \in Record, Holds(st, rec), rec.rev > 0,
         NEW policy, policy.tombs
  PROVE  Unmoved(st, ImportRecord(st, rec, policy))
<1> DEFINE new == ImportRecord(st, rec, policy)
<1>u. PICK u, r : u = st.bySync[rec.sync] /\ r = st.us[u]
  OBVIOUS
<1> DEFINE buried == [r EXCEPT !.deleted = TRUE, !.enabled = FALSE, !.rev = NextRev(r, rec.rev)]
<1>1. rec.sync \in DOMAIN st.bySync /\ IF rec.deleted THEN r.deleted /\ ~r.enabled ELSE rec.rev <= r.rev
  BY <1>u DEF Holds
<1>2. new = ImportKnown(st, rec, policy)
  BY <1>1 DEF ImportRecord
<1>3. \A x \in DOMAIN st.us : st.us[x].rev \in Nat
  BY DEF Folded, Table, IsUser
<1> HIDE DEF new
<1>k. Known(st, rec, policy, new, u, r)
  BY <1>1, <1>2, <1>u, KnownTakes
<1>4. /\ u \in DOMAIN st.us /\ IsUser(r) /\ r.sync = rec.sync
      /\ \/ new = st
         \/ ~Newest(rec, r) /\ ~(rec.deleted /\ policy.tombs)
         \/ \E v : /\ Becomes(st, new, u, v) /\ IsUser(v) /\ v.sync = r.sync /\ ~Newest(rec, r)
                   /\ rec.deleted /\ policy.tombs => v = buried
  BY <1>k, Zenon DEF Known
<1>5. ~Newest(rec, r) => rec.deleted
  BY <1>1 DEF Newest
<1> HIDE DEF buried
<1>6. CASE new = st
  BY <1>3, <1>6 DEF new, Unmoved
<1>7. CASE rec.deleted /\ Becomes(st, new, u, buried) /\ IsUser(buried) /\ buried.sync = r.sync
  <2>s. u \in DOMAIN st.us /\ buried.sync = st.us[u].sync
    BY <1>u, <1>4, <1>7
  <2>1. /\ Folded(new) /\ DOMAIN new.us = DOMAIN st.us /\ new.us[u] = buried
        /\ \A x \in DOMAIN st.us : x # u => new.us[x] = st.us[x]
    <3>1. Renewed(st, new, u, buried)
      BY <1>7, <2>s, BecomesFolded
    <3> QED
      BY <3>1 DEF Renewed
  <2>2. new.ok /\ new.born = st.born /\ new.bySync = st.bySync
    BY <1>7 DEF Becomes
  <2>3. Profile(buried) = Profile(r) /\ r.rev <= buried.rev
    <3>1. r.deleted = TRUE /\ r.enabled = FALSE
      BY <1>1, <1>4, <1>7 DEF IsUser
    <3>2. NextRev(r, rec.rev) >= r.rev
      BY <1>4 DEF NextRev, IsUser, Record
    <3>3. /\ buried.name = r.name /\ buried.enabled = FALSE /\ buried.deleted = TRUE /\ buried.sync = r.sync
          /\ buried.rev = NextRev(r, rec.rev)
      BY <1>4 DEF IsUser, buried
    <3> QED
      BY <3>1, <3>2, <3>3 DEF Profile
  <2> QED
    BY <1>u, <1>3, <2>1, <2>2, <2>3 DEF new, Unmoved
<1> QED
  BY <1>4, <1>5, <1>6, <1>7

-----------------------------------------------------------------------------
(* The whole batch, once and twice *)

\* What a hub sends: versioned records, one for each identity.
FromHub(batch) ==
  \A i \in 1..Len(batch) :
    /\ batch[i].sync # NoSync /\ batch[i].rev > 0
    /\ \A j \in 1..Len(batch) : batch[j].sync = batch[i].sync => j = i

Start(us, b) == [us |-> us, born |-> b, bySync |-> BySync(us), byName |-> ByName(us), ok |-> TRUE]

LEMMA StartFolded ==
  ASSUME NEW us, NEW b \in Nat, Table(us, b)
  PROVE  Folded(Start(us, b))
BY DEF Folded, Start

LEMMA ImportSteps ==
  ASSUME NEW us, NEW b, NEW batch \in Seq(Record), NEW policy
  PROVE  /\ Len(batch) \in Nat /\ Imports(us, b, batch, policy)[0] = Start(us, b)
         /\ \A m \in Nat : m + 1 <= Len(batch) =>
              /\ batch[m + 1] \in Record
              /\ Imports(us, b, batch, policy)[m + 1]
                   = ImportRecord(Imports(us, b, batch, policy)[m], batch[m + 1], policy)
<1> DEFINE f == Imports(us, b, batch, policy)
<1>1. Len(batch) \in Nat
  OBVIOUS
<1>2. f = [i \in 0..Len(batch) |->
             IF i = 0 THEN Start(us, b) ELSE ImportRecord(f[i - 1], batch[i], policy)]
  BY <1>1, ImportsAre DEF Start
<1> HIDE DEF f
<1>3. 0 \in 0..Len(batch)
  BY <1>1
<1>4. ASSUME NEW m \in Nat, m + 1 <= Len(batch)
      PROVE  batch[m + 1] \in Record /\ f[m + 1] = ImportRecord(f[m], batch[m + 1], policy)
  <2>1. m + 1 \in 0..Len(batch) /\ m + 1 # 0 /\ (m + 1) - 1 = m /\ m + 1 \in 1..Len(batch)
    BY <1>1, <1>4
  <2> QED
    BY <1>2, <2>1
<1> QED
  BY <1>1, <1>2, <1>3, <1>4 DEF f

\* What holds of the copy after m records.
Reached(b, batch, policy, st, m) ==
  /\ Folded(st) /\ b <= st.born
  /\ st.ok /\ policy.tombs /\ FromHub(batch) => \A j \in 1..m : Holds(st, batch[j])

\* The first import leaves a table in which every record of a hub is held.
LEMMA FirstImport ==
  ASSUME NEW us, NEW b \in Nat, Table(us, b), NEW batch \in Seq(Record), NEW policy,
         policy.tombs \in BOOLEAN
  PROVE  Reached(b, batch, policy, Import(us, b, batch, policy), Len(batch))
<1> DEFINE f == Imports(us, b, batch, policy)
           T == {m \in Nat : m <= Len(batch) => Reached(b, batch, policy, f[m], m)}
<1>1. /\ Len(batch) \in Nat /\ f[0] = Start(us, b)
      /\ \A m \in Nat : m + 1 <= Len(batch) =>
           batch[m + 1] \in Record /\ f[m + 1] = ImportRecord(f[m], batch[m + 1], policy)
  BY ImportSteps
<1> HIDE DEF f
<1>2. Reached(b, batch, policy, f[0], 0)
  <2>1. Folded(f[0]) /\ f[0].born = b
    BY <1>1, StartFolded DEF Start
  <2> QED
    BY <2>1 DEF Reached
<1>3. ASSUME NEW m \in Nat, m + 1 <= Len(batch), Reached(b, batch, policy, f[m], m)
      PROVE  Reached(b, batch, policy, f[m + 1], m + 1)
  <2> DEFINE st == f[m]
             rec == batch[m + 1]
             new == f[m + 1]
  <2>1. rec \in Record /\ new = ImportRecord(st, rec, policy) /\ Folded(st)
    BY <1>1, <1>3 DEF Reached
  <2> HIDE DEF st, rec, new
  <2>2. Taken(st, rec, policy, new)
    BY <2>1, RecordTakes
  <2>3. st.born \in Nat /\ new.born \in Nat
    BY <2>1, <2>2 DEF Taken, Folded
  <2>4. Folded(new) /\ b <= new.born
    BY <1>3, <2>2, <2>3 DEF Taken, Reached, st
  <2>5. ASSUME new.ok, policy.tombs, FromHub(batch), NEW j \in 1..(m + 1)
        PROVE  Holds(new, batch[j])
    <3>1. CASE j = m + 1
      <4>1. m + 1 \in 1..Len(batch)
        BY <1>1, <1>3
      <4>2. rec.rev > 0 /\ rec.sync # NoSync
        BY <2>5, <4>1 DEF FromHub, rec
      <4>3. Holds(new, rec)
        BY <2>2, <2>5, <4>2 DEF Taken
      <4> QED
        BY <3>1, <4>3 DEF rec
    <3>2. CASE j # m + 1
      <4>1. j \in 1..m /\ j \in 1..Len(batch) /\ m + 1 \in 1..Len(batch)
        BY <1>1, <1>3, <2>5, <3>2
      <4>2. batch[j].sync # rec.sync
        BY <2>5, <3>2, <4>1 DEF FromHub, rec
      <4>3. st.ok /\ \A s \in DOMAIN st.bySync :
                       /\ s \in DOMAIN new.bySync /\ new.bySync[s] = st.bySync[s]
                       /\ s # rec.sync => new.us[st.bySync[s]] = st.us[st.bySync[s]]
        BY <2>2, <2>5 DEF Taken
      <4>4. Holds(st, batch[j])
        BY <1>3, <2>5, <4>1, <4>3 DEF Reached, st
      <4> DEFINE s == batch[j].sync
      <4>5. s \in DOMAIN st.bySync
        BY <4>4 DEF Holds
      <4>6. s \in DOMAIN new.bySync /\ new.us[new.bySync[s]] = st.us[st.bySync[s]]
        BY <4>2, <4>3, <4>5
      <4> QED
        BY <4>4, <4>6 DEF Holds
    <3> QED
      BY <3>1, <3>2
  <2> QED
    BY <2>4, <2>5 DEF Reached, new
<1>4. 0 \in T
  BY <1>2
<1>5. ASSUME NEW m \in Nat, m \in T PROVE m + 1 \in T
  <2>1. m + 1 <= Len(batch) => m <= Len(batch)
    BY <1>1
  <2> QED
    BY <1>3, <1>5, <2>1
<1>6. Nat \subseteq T
  <2> HIDE DEF T
  <2> QED
    BY <1>4, <1>5, SetInduction
<1> QED
  BY <1>1, <1>6 DEF Import, f

LEMMA UnmovedHolds ==
  ASSUME NEW st, NEW new, Folded(st), Unmoved(st, new), NEW rec \in Record, Holds(st, rec)
  PROVE  Holds(new, rec)
<1> DEFINE u == st.bySync[rec.sync]
<1>1. rec.sync \in DOMAIN st.bySync /\ IF rec.deleted THEN st.us[u].deleted /\ ~st.us[u].enabled
                                        ELSE rec.rev <= st.us[u].rev
  BY DEF Holds
<1>2. u \in DOMAIN st.us
  BY <1>1, BySyncFinds DEF Folded
<1>3. u \in DOMAIN new.us /\ st.us[u].rev \in Nat /\ new.us[u].rev \in Nat
  BY <1>2 DEF Unmoved, Folded, Table, IsUser
<1>4. Profile(new.us[u]) = Profile(st.us[u]) /\ st.us[u].rev <= new.us[u].rev /\ new.bySync = st.bySync
  BY <1>2 DEF Unmoved
<1>5. new.us[u].deleted = st.us[u].deleted /\ new.us[u].enabled = st.us[u].enabled
  BY <1>4 DEF Profile
<1> QED
  BY <1>1, <1>3, <1>4, <1>5 DEF Holds, Record

\* The second import moves nobody.
LEMMA SecondImport ==
  ASSUME NEW once, Folded(once), once.ok, NEW batch \in Seq(Record), NEW policy, policy.tombs,
         FromHub(batch), \A j \in 1..Len(batch) : Holds(once, batch[j])
  PROVE  Unmoved(once, Import(once.us, once.born, batch, policy))
<1> DEFINE f == Imports(once.us, once.born, batch, policy)
           T == {m \in Nat : m <= Len(batch) => Unmoved(once, f[m])}
<1>1. /\ Len(batch) \in Nat /\ f[0] = Start(once.us, once.born)
      /\ \A m \in Nat : m + 1 <= Len(batch) =>
           batch[m + 1] \in Record /\ f[m + 1] = ImportRecord(f[m], batch[m + 1], policy)
  BY ImportSteps
<1> HIDE DEF f
<1>r. once.born \in Nat /\ Table(once.us, once.born) /\ once.bySync = BySync(once.us)
      /\ \A x \in DOMAIN once.us : once.us[x].rev \in Nat
  BY DEF Folded, Table, IsUser
<1>2. Unmoved(once, f[0])
  <2>1. Folded(f[0])
    BY <1>1, <1>r, StartFolded
  <2>2. f[0].us = once.us /\ f[0].born = once.born /\ f[0].bySync = once.bySync /\ f[0].ok
    BY <1>1, <1>r DEF Start
  <2> QED
    BY <1>r, <2>1, <2>2 DEF Unmoved
<1>3. ASSUME NEW m \in Nat, m + 1 <= Len(batch), Unmoved(once, f[m])
      PROVE  Unmoved(once, f[m + 1])
  <2> DEFINE st == f[m]
             rec == batch[m + 1]
             new == f[m + 1]
  <2>1. rec \in Record /\ new = ImportRecord(st, rec, policy) /\ m + 1 \in 1..Len(batch)
    BY <1>1, <1>3
  <2>2. Holds(once, rec) /\ rec.rev > 0
    BY <2>1 DEF FromHub
  <2>u. Unmoved(once, st)
    BY <1>3
  <2> HIDE DEF st, rec, new
  <2>3. Folded(st) /\ st.ok
    BY <2>u DEF Unmoved
  <2>4. Holds(st, rec)
    BY <2>1, <2>2, <2>u, UnmovedHolds
  <2>5. Unmoved(st, new)
    BY <2>1, <2>2, <2>3, <2>4, HeldChangesNothing
  <2>6. \A x \in DOMAIN once.us : once.us[x].rev \in Nat /\ st.us[x].rev \in Nat /\ new.us[x].rev \in Nat
    <3>1. DOMAIN st.us = DOMAIN once.us /\ DOMAIN new.us = DOMAIN once.us /\ Folded(new)
      BY <2>u, <2>5 DEF Unmoved
    <3> QED
      BY <1>r, <2>3, <3>1 DEF Folded, Table, IsUser
  <2>7. Unmoved(once, new)
    BY <2>u, <2>5, <2>6 DEF Unmoved
  <2> QED
    BY <2>7 DEF new
<1>4. 0 \in T
  BY <1>2
<1>5. ASSUME NEW m \in Nat, m \in T PROVE m + 1 \in T
  <2>1. m + 1 <= Len(batch) => m <= Len(batch)
    BY <1>1
  <2> QED
    BY <1>3, <1>5, <2>1
<1>6. Nat \subseteq T
  <2> HIDE DEF T
  <2> QED
    BY <1>4, <1>5, SetInduction
<1> QED
  BY <1>1, <1>6 DEF Import, f

\* So a batch that comes twice is applied once, whatever the table.
LEMMA ImportTwice ==
  ASSUME NEW us, NEW b \in Nat, Table(us, b), NEW batch \in Seq(Record), FromHub(batch),
         NEW policy, policy.tombs = TRUE, Import(us, b, batch, policy).ok
  PROVE  LET once == Import(us, b, batch, policy)
         IN  Unmoved(once, Import(once.us, once.born, batch, policy))
<1> DEFINE once == Import(us, b, batch, policy)
<1>0. policy.tombs \in BOOLEAN
  OBVIOUS
<1>1. Reached(b, batch, policy, once, Len(batch))
  BY <1>0, FirstImport
<1> HIDE DEF once
<1>2. Folded(once) /\ once.ok /\ \A j \in 1..Len(batch) : Holds(once, batch[j])
  BY <1>1 DEF Reached, once
<1>3. Unmoved(once, Import(once.us, once.born, batch, policy))
  BY <1>2, SecondImport
<1> QED
  BY <1>3 DEF once
-----------------------------------------------------------------------------
(* users.json and every edited copy of it are tables of the users there have been *)

TableInv ==
  /\ born \in Nat /\ Table(users, born)
  /\ \A t \in Threads : Table(job[t].us, born)

LEMMA TableGrows ==
  ASSUME NEW us, NEW n \in Nat, NEW m \in Nat, n <= m, Table(us, n)
  PROVE  Table(us, m)
BY DEF Table

LEMMA TableEmpty == \A n : Table(<<>>, n)
BY DEF Table

LEMMA TableEdit ==
  ASSUME NEW us, NEW n, Table(us, n), NEW u \in DOMAIN us, NEW r, IsUser(r)
  PROVE  Table([us EXCEPT ![u] = r], n)
BY DEF Table

\* One goroutine has a new copy, and nobody else's has changed.
LEMMA CopyKeeps ==
  ASSUME TableInv, NEW t \in Threads, NEW us, Table(us, born'), born' \in Nat, born <= born', UNCHANGED users,
         \A d \in Threads \ {t} : job'[d] = job[d], job'[t].us = us
  PROVE  TableInv'
<1>1. Table(users', born') /\ \A d \in Threads : Table(job[d].us, born')
  BY TableGrows DEF TableInv
<1> QED
  BY <1>1 DEF TableInv

\* No copy is new.
LEMMA NoCopyKeeps ==
  ASSUME TableInv, UNCHANGED <<users, born>>, \A d \in Threads : job'[d].us \in {job[d].us, <<>>}
  PROVE  TableInv'
BY TableEmpty DEF TableInv

LEMMA EditKeeps ==
  ASSUME Shape, TableInv, NEW t \in Threads, NEW us, NEW l, Edit(t, us, l), Table(us, born'), born' \in Nat,
         born <= born', UNCHANGED users
  PROVE  TableInv'
<1>1. job' = [job EXCEPT ![t] = [NoJob EXCEPT !.us = us, !.then = l]]
  BY DEF Edit
<1>2. [NoJob EXCEPT !.us = us, !.then = l].us = us
  BY DEF NoJob
<1>3. job'[t].us = us /\ \A d \in Threads \ {t} : job'[d] = job[d]
  BY <1>1, <1>2 DEF Shape
<1> QED
  BY <1>3, CopyKeeps

\* The edits of a user leave it one.
LEMMA EditsAreUsers ==
  ASSUME NEW r, IsUser(r)
  PROVE  /\ IsUser(Patched(r, r)) /\ IsUser(Tombstone(r))
         /\ \A v : IsUser(Patched(r, PatchUsed(r, v)))
         /\ \A n : IsUser(Patched(r, [r EXCEPT !.name = n]))
         /\ \A s \in SyncIds : IsUser(Patched(r, [r EXCEPT !.sync = s, !.mode = TRUE, !.syncOn = TRUE]))
         /\ IsUser(Patched(r, [r EXCEPT !.due = TRUE])) /\ IsUser(Patched(r, [r EXCEPT !.enabled = ~@]))
         /\ \A on \in BOOLEAN : IsUser(Toggle(r, on)) /\ IsUser([r EXCEPT !.syncOn = on])
         /\ IsUser([r EXCEPT !.used = 0, !.ingress = 0, !.epoch = r.epoch + 1, !.due = FALSE])
         /\ \A x : IsUser(Metric(r, x))
<1>s. \A x : IsUser(x) => IsUser(SeedIngressFromUsed(x))
  BY DEF IsUser, SeedIngressFromUsed
<1>p. \A x : IsUser(x) => IsUser(Patched(r, x))
  <2> SUFFICES ASSUME NEW x, IsUser(x) PROVE IsUser(Patched(r, x))
    OBVIOUS
  <2> DEFINE s == [x EXCEPT !.rev = x.rev + 1]
  <2>1. IsUser(s)
    BY DEF IsUser
  <2>2. Patched(r, x) \in {s, SeedIngressFromUsed(s)}
    BY DEF Patched
  <2> QED
    BY <1>s, <2>1, <2>2
<1>1. IsUser(Patched(r, r))
  BY <1>p
<1>0. ASSUME NEW k \in Nat
      PROVE  /\ IsUser([r EXCEPT !.deleted = TRUE, !.enabled = FALSE, !.rev = k])
             /\ IsUser([r EXCEPT !.mode = TRUE, !.syncOn = TRUE, !.rev = k])
             /\ IsUser([r EXCEPT !.syncOn = FALSE, !.rev = k])
  BY <1>0 DEF IsUser
<1>r. r.rev + 1 \in Nat
  BY DEF IsUser
<1>2. IsUser(Tombstone(r))
  BY <1>0, <1>r DEF Tombstone
<1>3. \A v : IsUser(Patched(r, PatchUsed(r, v)))
  <2>1. \A v : IsUser(PatchUsed(r, v))
    BY DEF PatchUsed, IsUser
  <2> QED
    BY <1>p, <2>1
<1>4. \A n : IsUser(Patched(r, [r EXCEPT !.name = n]))
  <2>1. \A n : IsUser([r EXCEPT !.name = n])
    BY DEF IsUser
  <2> QED
    BY <1>p, <2>1
<1>5. \A s \in SyncIds : IsUser(Patched(r, [r EXCEPT !.sync = s, !.mode = TRUE, !.syncOn = TRUE]))
  <2>1. \A s \in SyncIds : IsUser([r EXCEPT !.sync = s, !.mode = TRUE, !.syncOn = TRUE])
    BY DEF IsUser
  <2> QED
    BY <1>p, <2>1
<1>6. IsUser(Patched(r, [r EXCEPT !.due = TRUE])) /\ IsUser(Patched(r, [r EXCEPT !.enabled = ~@]))
  <2>1. IsUser([r EXCEPT !.due = TRUE]) /\ IsUser([r EXCEPT !.enabled = ~@])
    BY DEF IsUser
  <2> QED
    BY <1>p, <2>1
<1>7. ASSUME NEW on \in BOOLEAN PROVE IsUser(Toggle(r, on)) /\ IsUser([r EXCEPT !.syncOn = on])
  <2>1. /\ IsUser([r EXCEPT !.mode = TRUE, !.syncOn = TRUE, !.rev = @ + 1])
        /\ IsUser([r EXCEPT !.syncOn = FALSE, !.rev = @ + 1])
    BY <1>0, <1>r
  <2>2. IsUser([r EXCEPT !.syncOn = on])
    BY DEF IsUser
  <2> QED
    BY <1>s, <2>1, <2>2 DEF Toggle
<1>8. IsUser([r EXCEPT !.used = 0, !.ingress = 0, !.epoch = r.epoch + 1, !.due = FALSE])
  BY DEF IsUser
<1>9. \A x : IsUser(Metric(r, x))
  BY DEF Metric, IsUser
<1> QED
  BY <1>1, <1>2, <1>3, <1>4, <1>5, <1>6, <1>7, <1>8, <1>9

LEMMA NewUserIsUser ==
  ASSUME NEW n, NEW s \in SyncIds \cup {NoSync}
  PROVE  IsUser(NewUser(n, s))
BY DEF NewUser, IsUser

LEMMA RequestsTable ==
  ASSUME Shape, TableInv, NEW h \in Handlers, Requests(h)
  PROVE  TableInv'
<1>0. h \in Threads /\ born \in Nat /\ Table(users, born) /\ \A u \in DOMAIN users : IsUser(users[u])
  BY DEF Threads, TableInv, Table
<1>e. ASSUME NEW us, NEW l, Edit(h, us, l), Table(us, born), UNCHANGED <<users, born>>
      PROVE  TableInv'
  BY <1>0, <1>e, EditKeeps
<1>u. ASSUME NEW u \in DOMAIN users, NEW r, NEW l, EditUser(h, u, r, l), IsUser(r), UNCHANGED <<users, born>>
      PROVE  TableInv'
  <2>1. Table([users EXCEPT ![u] = r], born)
    BY <1>0, <1>u, TableEdit
  <2> QED
    BY <1>e, <1>u, <2>1 DEF EditUser
<1>j. ASSUME NEW j, job' = [job EXCEPT ![h] = j], Table(j.us, born), UNCHANGED <<users, born>>
      PROVE  TableInv'
  <2>1. job'[h] = j /\ \A d \in Threads \ {h} : job'[d] = job[d]
    BY <1>0, <1>j DEF Shape
  <2> QED
    BY <1>0, <1>j, <2>1, CopyKeeps
<1>1. CASE HandleUsersCreate(h)
  <2>0. UNCHANGED users
    BY <1>1 DEF HandleUsersCreate
  <2>1. PICK n \in Names, s \in SyncIds \cup {NoSync} :
          Edit(h, With(users, born + 1, NewUser(n, s)), "remat") /\ born' = born + 1
    BY <1>1 DEF HandleUsersCreate
  <2> DEFINE r == NewUser(n, s)
             us == With(users, born + 1, r)
  <2>2. IsUser(r)
    BY NewUserIsUser
  <2> HIDE DEF r
  <2>3. DOMAIN us = DOMAIN users \cup {born + 1} /\ \A u \in DOMAIN us : us[u] = r \/ (u \in DOMAIN users /\ us[u] = users[u])
    BY DEF With
  <2> HIDE DEF us
  <2>4. Table(us, born + 1)
    BY <1>0, <2>2, <2>3 DEF Table
  <2> QED
    BY <1>0, <2>0, <2>1, <2>4, EditKeeps DEF us, r
<1>2. CASE HandleUsersPatch(h)
  <2>0. UNCHANGED <<users, born>>
    BY <1>2 DEF HandleUsersPatch, NoAccounts, accountVars
  <2>1. PICK u \in DOMAIN users :
          LET old == users[u] IN
          \/ \E v \in Amounts :
               LET r == Patched(old, PatchUsed(old, v)) IN
               job' = [job EXCEPT ![h] = [NoJob EXCEPT
                    !.us = [users EXCEPT ![u] = r], !.set = v,
                    !.zero = IF SyncActive(r) THEN {} ELSE {u},
                    !.then = "zero", !.afterZero = "remat"]]
          \/ \E n : EditUser(h, u, Patched(old, [old EXCEPT !.name = n]), "remat")
          \/ \E s \in SyncIds :
               EditUser(h, u, Patched(old, [old EXCEPT !.sync = s, !.mode = TRUE, !.syncOn = TRUE]), "remat")
          \/ EditUser(h, u, Patched(old, [old EXCEPT !.due = TRUE]), "remat")
          \/ EditUser(h, u, Patched(old, [old EXCEPT !.enabled = ~@]), "remat")
    BY <1>2 DEF HandleUsersPatch
  <2> DEFINE old == users[u]
  <2>2. IsUser(old)
    BY <1>0
  <2> HIDE DEF old
  <2>3. ASSUME NEW v \in Amounts, NEW r, NEW z, r = Patched(old, PatchUsed(old, v)),
               job' = [job EXCEPT ![h] = [NoJob EXCEPT
                    !.us = [users EXCEPT ![u] = r], !.set = v, !.zero = z,
                    !.then = "zero", !.afterZero = "remat"]]
        PROVE  TableInv'
    <3> DEFINE us == [users EXCEPT ![u] = r]
               j == [NoJob EXCEPT !.us = us, !.set = v, !.zero = z, !.then = "zero", !.afterZero = "remat"]
    <3>1. IsUser(r)
      BY <2>2, <2>3, EditsAreUsers
    <3>2. Table(us, born)
      BY <1>0, <3>1, TableEdit
    <3> HIDE DEF us
    <3>3. j.us = us
      BY DEF NoJob
    <3>4. job' = [job EXCEPT ![h] = j]
      BY <2>3 DEF us
    <3> HIDE DEF j
    <3> QED
      BY <1>j, <2>0, <3>2, <3>3, <3>4
  <2>4. ASSUME NEW n, EditUser(h, u, Patched(old, [old EXCEPT !.name = n]), "remat") PROVE TableInv'
    BY <1>u, <2>0, <2>2, <2>4, EditsAreUsers
  <2>5. ASSUME NEW s \in SyncIds,
               EditUser(h, u, Patched(old, [old EXCEPT !.sync = s, !.mode = TRUE, !.syncOn = TRUE]), "remat")
        PROVE  TableInv'
    <3>1. IsUser(Patched(old, [old EXCEPT !.sync = s, !.mode = TRUE, !.syncOn = TRUE]))
      BY <2>2, EditsAreUsers
    <3> QED
      BY <1>u, <2>0, <2>5, <3>1
  <2>6. CASE EditUser(h, u, Patched(old, [old EXCEPT !.due = TRUE]), "remat")
    BY <1>u, <2>0, <2>2, <2>6, EditsAreUsers
  <2>7. CASE EditUser(h, u, Patched(old, [old EXCEPT !.enabled = ~@]), "remat")
    BY <1>u, <2>0, <2>2, <2>7, EditsAreUsers
  <2> QED
    BY <2>1, <2>3, <2>4, <2>5, <2>6, <2>7 DEF old
<1>3. CASE HandleUsersDelete(h)
  <2>0. UNCHANGED <<users, born>>
    BY <1>3 DEF HandleUsersDelete, NoAccounts, accountVars
  <2>1. PICK u \in DOMAIN users :
          EditUser(h, u, Tombstone(users[u]), "remat") \/ Edit(h, Without(users, u), "remat")
    BY <1>3 DEF HandleUsersDelete
  <2>2. Table(Without(users, u), born)
    BY <1>0 DEF Without, Table
  <2>3. IsUser(Tombstone(users[u]))
    BY <1>0, EditsAreUsers
  <2> QED
    BY <1>e, <1>u, <2>0, <2>1, <2>2, <2>3
<1>4. CASE HandleUsersRotate(h)
  <2>1. PICK u \in DOMAIN users, l \in {"idle", "remat"} : EditUser(h, u, users[u], l)
    BY <1>4 DEF HandleUsersRotate
  <2>2. UNCHANGED <<users, born>>
    BY <1>4 DEF HandleUsersRotate, NoAccounts, accountVars
  <2> QED
    BY <1>0, <1>u, <2>1, <2>2
<1>5. CASE HandleUsersSyncToggle(h)
  <2>1. PICK u \in DOMAIN users, on \in BOOLEAN : EditUser(h, u, Toggle(users[u], on), "idle")
    BY <1>5 DEF HandleUsersSyncToggle, LiveIds
  <2>2. UNCHANGED <<users, born>>
    BY <1>5 DEF HandleUsersSyncToggle, NoAccounts, accountVars
  <2>3. IsUser(Toggle(users[u], on))
    BY <1>0, EditsAreUsers
  <2> QED
    BY <1>u, <2>1, <2>2, <2>3
<1>6. CASE HandleUsersSyncMembership(h)
  <2>1. PICK s \in SyncIds, on \in BOOLEAN : Edit(h, Membership(users, s, on), "idle")
    BY <1>6 DEF HandleUsersSyncMembership
  <2>2. UNCHANGED <<users, born>>
    BY <1>6 DEF HandleUsersSyncMembership, NoAccounts, accountVars
  <2>3. \A u \in DOMAIN users : IsUser([users[u] EXCEPT !.syncOn = on])
    BY <1>0, EditsAreUsers
  <2>4. Table(Membership(users, s, on), born)
    BY <1>0, <2>3 DEF Membership, Table
  <2> QED
    BY <1>e, <2>1, <2>2, <2>4
<1>7. CASE HandleUsersImport(h)
  <2>1. PICK batch \in Batches, tombs \in BOOLEAN, reject \in BOOLEAN :
          LET st == Import(users, born, batch, [tombs |-> tombs, reject |-> reject])
          IN  Edit(h, st.us, "apply") /\ born' = st.born
    BY <1>7 DEF HandleUsersImport
  <2>2. UNCHANGED users
    BY <1>7 DEF HandleUsersImport
  <2> DEFINE policy == [tombs |-> tombs, reject |-> reject]
             st == Import(users, born, batch, policy)
  <2>3. batch \in Seq(Record) /\ policy.tombs \in BOOLEAN
    BY AccountsAssumption
  <2>4. Edit(h, st.us, "apply") /\ born' = st.born
    BY <2>1
  <2> HIDE DEF policy
  <2>5. Reached(born, batch, policy, st, Len(batch))
    BY <1>0, <2>3, FirstImport
  <2> HIDE DEF st
  <2>6. Table(st.us, born') /\ born' \in Nat /\ born <= born'
    BY <2>4, <2>5 DEF Reached, Folded
  <2> QED
    BY <1>0, <2>2, <2>4, <2>6, EditKeeps
<1>8. CASE HandleUsersSyncMetricsPost(h)
  <2>1. PICK s \in DOMAIN BySync(users), reset \in BOOLEAN, g \in Amounts \cup {-1} :
          LET u  == BySync(users)[s]
              us == [users EXCEPT ![u] = Metric(@, [reset |-> reset, global |-> g])]
          IN  job' = [job EXCEPT ![h] = [NoJob EXCEPT !.us = us, !.fp = Fingerprint(users),
                        !.zero = IF reset THEN {u} ELSE {}, !.then = "zero", !.afterZero = "check"]]
    BY <1>8 DEF HandleUsersSyncMetricsPost
  <2>2. UNCHANGED <<users, born>>
    BY <1>8 DEF HandleUsersSyncMetricsPost
  <2> DEFINE u == BySync(users)[s]
             us == [users EXCEPT ![u] = Metric(users[u], [reset |-> reset, global |-> g])]
             j == [NoJob EXCEPT !.us = us, !.fp = Fingerprint(users), !.zero = IF reset THEN {u} ELSE {},
                                !.then = "zero", !.afterZero = "check"]
  <2>3. job' = [job EXCEPT ![h] = j]
    BY <2>1
  <2>4. u \in DOMAIN users
    BY <1>0, BySyncFinds
  <2>5. IsUser(Metric(users[u], [reset |-> reset, global |-> g]))
    BY <1>0, <2>4, EditsAreUsers
  <2>6. Table(us, born)
    BY <1>0, <2>4, <2>5, TableEdit
  <2> HIDE DEF us, u
  <2>7. j.us = us
    BY DEF NoJob
  <2> HIDE DEF j
  <2> QED
    BY <1>j, <2>2, <2>3, <2>6, <2>7
<1>9. CASE HubPull(h)
  BY <1>9, NoCopyKeeps DEF HubPull
<1> QED
  BY <1>1, <1>2, <1>3, <1>4, <1>5, <1>6, <1>7, <1>8, <1>9 DEF Requests

LEMMA SaveTable ==
  ASSUME Shape, TableInv, NEW t \in Threads, Save(t)
  PROVE  TableInv'
<1>1. CASE /\ users' = job[t].us /\ UNCHANGED born
           /\ job' = [job EXCEPT ![t].us = <<>>,
                        ![t].cfg = IF job[t].then = "apply" THEN Build(job[t].us) ELSE <<>>]
  <2> DEFINE x == IF job[t].then = "apply" THEN Build(job[t].us) ELSE <<>>
  <2>1. job' = [job EXCEPT ![t].us = <<>>, ![t].cfg = x]
    BY <1>1
  <2> HIDE DEF x
  <2>2. job'[t].us = <<>> /\ \A d \in Threads \ {t} : job'[d] = job[d]
    BY <2>1 DEF Shape, Locals, NoJob
  <2> QED
    BY <1>1, <2>2, TableEmpty DEF TableInv
<1>2. CASE UNCHANGED <<users, born>> /\ job' = [job EXCEPT ![t] = NoJob]
  <2>1. \A d \in Threads : job'[d] \in {job[d], NoJob}
    BY <1>2 DEF Shape
  <2> QED
    BY <1>2, <2>1, NoCopyKeeps DEF NoJob
<1> QED
  BY <1>1, <1>2 DEF Save, Done

\* The steps that neither load nor save users.json into a copy.
LEMMA OthersTable ==
  ASSUME Shape, TableInv, NEW t \in Threads,
         Zero(t) \/ ZeroStore(t) \/ SetSeries(t) \/ Check(t) \/ Remat(t) \/ Apply(t) \/ Publish(t)
  PROVE  TableInv'
<1>0. UNCHANGED <<users, born>>
  BY DEF Zero, ZeroStore, SetSeries, Check, Remat, Apply, Publish, NoAccounts, accountVars
<1>1. ASSUME NEW j, job' = [job EXCEPT ![t] = j], j.us \in {job[t].us, <<>>} PROVE TableInv'
  <2>1. \A d \in Threads : job'[d].us \in {job[d].us, <<>>}
    BY <1>1 DEF Shape
  <2> QED
    BY <1>0, <2>1, NoCopyKeeps
<1>n. ASSUME job' = [job EXCEPT ![t] = NoJob] PROVE TableInv'
  BY <1>1, <1>n DEF NoJob
<1>s. ASSUME UNCHANGED job PROVE TableInv'
  BY <1>0, <1>s, NoCopyKeeps
<1>d. DOMAIN job[t] = DOMAIN NoJob
  BY DEF Shape, Locals
<1>2. CASE Zero(t)
  <2>1. ASSUME NEW K, job' = [job EXCEPT ![t].keys = K] PROVE TableInv'
    BY <1>1, <1>d, <2>1 DEF NoJob
  <2> QED
    BY <1>2, <1>s, <2>1 DEF Zero
<1>3. CASE ZeroStore(t)
  <2>1. ASSUME NEW u, job' = [job EXCEPT ![t].zero = @ \ {u}, ![t].keys = {}] PROVE TableInv'
    <3>1. \A d \in Threads : job'[d].us = job[d].us
      BY <1>d, <2>1 DEF Shape, NoJob
    <3> QED
      BY <1>0, <3>1, NoCopyKeeps
  <2> QED
    BY <1>3, <1>s, <2>1 DEF ZeroStore
<1>4. CASE SetSeries(t)
  <2>1. job' = [job EXCEPT ![t].zero = {}, ![t].keys = {}]
    BY <1>4 DEF SetSeries
  <2>2. \A d \in Threads : job'[d].us = job[d].us
    BY <1>d, <2>1 DEF Shape, NoJob
  <2> QED
    BY <1>0, <2>2, NoCopyKeeps
<1>5. CASE Check(t)
  <2>1. ASSUME NEW c, job' = [job EXCEPT ![t].cfg = c] PROVE TableInv'
    BY <1>1, <1>d, <2>1 DEF NoJob
  <2> QED
    BY <1>5, <1>n, <2>1 DEF Check, Done
<1>6. CASE Remat(t)
  <2>1. ASSUME NEW c, job' = [job EXCEPT ![t] = [NoJob EXCEPT !.cfg = c]] PROVE TableInv'
    BY <1>1, <2>1 DEF NoJob
  <2> QED
    BY <1>6, <2>1 DEF Remat
<1>7. CASE Apply(t)
  BY <1>7, <1>n, <1>s DEF Apply, Done
<1>8. CASE Publish(t)
  BY <1>8, <1>n DEF Publish, Done
<1> QED
  BY <1>2, <1>3, <1>4, <1>5, <1>6, <1>7, <1>8

LEMMA LoopsTable ==
  ASSUME Shape, TableInv, Poll \/ ApplyTrafficUsage \/ Tick \/ TickFP \/ FlushStep
  PROVE  TableInv'
<1>0. /\ Bridge \in Threads /\ Ticker \in Threads /\ Flusher \in Threads
      /\ born \in Nat /\ Table(users, born) /\ \A t \in Threads : DOMAIN job[t] = DOMAIN NoJob
  BY DEF Threads, TableInv, Shape, Locals
<1>f. UNCHANGED <<users, born>>
  BY DEF Poll, ApplyTrafficUsage, Tick, TickFP, FlushStep, FlushSwap, FlushSamples, FlushWrite,
         NoAccounts, accountVars
<1>s. ASSUME \A d \in Threads : job'[d].us \in {job[d].us, <<>>} PROVE TableInv'
  BY <1>f, <1>s, NoCopyKeeps
<1>n. ASSUME NEW t \in Threads, job' = [job EXCEPT ![t] = NoJob] PROVE TableInv'
  BY <1>n, <1>s DEF Shape, NoJob
<1>j. ASSUME NEW t \in Threads, NEW j, job' = [job EXCEPT ![t] = j], Table(j.us, born)
      PROVE  TableInv'
  <2>1. job'[t] = j /\ \A d \in Threads \ {t} : job'[d] = job[d]
    BY <1>j DEF Shape
  <2> QED
    BY <1>0, <1>f, <1>j, <2>1, CopyKeeps
<1>1. CASE Poll
  <2> DEFINE x == [u \in LiveIds(users) |-> SubjectUsage(u)]
  <2>1. job' = [job EXCEPT ![Bridge].upd = x]
    BY <1>1 DEF Poll
  <2> HIDE DEF x
  <2>2. \A d \in Threads : job'[d].us = job[d].us
    BY <1>0, <2>1 DEF Shape, NoJob
  <2> QED
    BY <1>s, <2>2
<1>2. CASE ApplyTrafficUsage
  <2> DEFINE us == ApplyUsage(users, job[Bridge].upd)
             j  == [NoJob EXCEPT !.us = us, !.fp = Fingerprint(users), !.then = "check"]
  <2>1. Done(Bridge) \/ job' = [job EXCEPT ![Bridge] = j]
    BY <1>2 DEF ApplyTrafficUsage
  <2>2. ASSUME NEW u \in DOMAIN users PROVE IsUser(us[u])
    <3>1. IsUser(users[u])
      BY <1>0 DEF Table
    <3>2. ASSUME NEW r, IsUser(r), NEW k, NEW i, NEW v
          PROVE  IsUser([r EXCEPT !.epoch = k, !.ingress = i]) /\ IsUser([r EXCEPT !.epoch = k, !.used = v, !.ingress = i])
      BY <3>2 DEF IsUser
    <3> DEFINE upd == job[Bridge].upd
               r == users[u]
    <3> HIDE DEF upd
    <3>3. \/ us[u] = r
          \/ \E k : us[u] = [r EXCEPT !.epoch = k, !.ingress = upd[u]]
          \/ \E k : us[u] = [r EXCEPT !.epoch = k, !.used = upd[u], !.ingress = upd[u]]
      BY DEF ApplyUsage, upd
    <3> HIDE DEF r, us
    <3>4. IsUser(r)
      BY <3>1 DEF r
    <3>5. ASSUME NEW k, us[u] = [r EXCEPT !.epoch = k, !.ingress = upd[u]] PROVE IsUser(us[u])
      <4>1. IsUser([r EXCEPT !.epoch = k, !.ingress = upd[u]])
        BY <3>2, <3>4
      <4> QED
        BY <3>5, <4>1
    <3>6. ASSUME NEW k, us[u] = [r EXCEPT !.epoch = k, !.used = upd[u], !.ingress = upd[u]] PROVE IsUser(us[u])
      <4>1. IsUser([r EXCEPT !.epoch = k, !.used = upd[u], !.ingress = upd[u]])
        BY <3>2, <3>4
      <4> QED
        BY <3>6, <4>1
    <3>7. CASE us[u] = r
      BY <3>4, <3>7
    <3> QED
      BY <3>3, <3>5, <3>6, <3>7
  <2>3. DOMAIN us = DOMAIN users
    BY DEF ApplyUsage
  <2> HIDE DEF us
  <2>4. Table(us, born)
    BY <1>0, <2>2, <2>3 DEF Table
  <2>5. j.us = us
    BY DEF NoJob
  <2> HIDE DEF j
  <2> QED
    BY <1>0, <1>j, <1>n, <2>1, <2>4, <2>5 DEF Done
<1>3. CASE Tick
  <2> DEFINE us == Resets(users)
             j  == [NoJob EXCEPT !.us = us, !.zero = Due(users), !.then = "zero", !.afterZero = "tickFP"]
  <2>1. UNCHANGED job \/ job' = [job EXCEPT ![Ticker] = j]
    BY <1>3 DEF Tick
  <2>2. DOMAIN us = DOMAIN users /\ \A u \in DOMAIN users : IsUser(us[u])
    <3>1. \A u \in DOMAIN users :
            IsUser([users[u] EXCEPT !.used = 0, !.ingress = 0, !.epoch = users[u].epoch + 1, !.due = FALSE])
      BY <1>0, EditsAreUsers DEF Table
    <3> QED
      BY <1>0, <3>1 DEF Resets, Table
  <2> HIDE DEF us
  <2>3. Table(us, born)
    BY <1>0, <2>2 DEF Table
  <2>4. j.us = us
    BY DEF NoJob
  <2> HIDE DEF j
  <2> QED
    BY <1>0, <1>j, <1>s, <2>1, <2>3, <2>4
<1>4. CASE TickFP
  <2>1. job' = [job EXCEPT ![Ticker] = NoJob]
    BY <1>4 DEF TickFP, Done
  <2> QED
    BY <1>0, <1>n, <2>1
<1>5. CASE FlushStep
  <2>1. ASSUME NEW x, job' = [job EXCEPT ![Flusher].delta = x] PROVE TableInv'
    <3>1. \A d \in Threads : job'[d].us = job[d].us
      BY <1>0, <2>1 DEF Shape, NoJob
    <3> QED
      BY <1>s, <3>1
  <2>2. ASSUME NEW x, job' = [job EXCEPT ![Flusher].sdelta = x] PROVE TableInv'
    <3>1. \A d \in Threads : job'[d].us = job[d].us
      BY <1>0, <2>2 DEF Shape, NoJob
    <3> QED
      BY <1>s, <3>1
  <2>3. CASE FlushSwap
    BY <2>1, <2>3 DEF FlushSwap
  <2>4. CASE FlushSamples
    BY <2>2, <2>4 DEF FlushSamples
  <2>5. CASE FlushWrite
    BY <1>0, <1>n, <2>5 DEF FlushWrite, Done
  <2> QED
    BY <1>5, <2>3, <2>4, <2>5 DEF FlushStep
<1> QED
  BY <1>1, <1>2, <1>3, <1>4, <1>5

LEMMA TableInit == Init => TableInv
<1> SUFFICES ASSUME Init PROVE TableInv
  OBVIOUS
<1>1. users \in Seeds /\ born = Cardinality(DOMAIN users) /\ job = [t \in Threads |-> NoJob]
  BY DEF Init
<1>2. IsTable(users) /\ DOMAIN users = 1..Cardinality(DOMAIN users) /\ IsFiniteSet(UserIds)
  BY <1>1, AccountsAssumption
<1>3. born \in Nat
  BY <1>1, <1>2, FS_Subset, FS_CardinalityType DEF IsTable
<1>4. \A u \in DOMAIN users : u \in 1..born /\ IsUser(users[u])
  BY <1>1, <1>2 DEF IsTable, User, IsUser
<1>5. \A t \in Threads : Table(job[t].us, born)
  BY <1>1, TableEmpty DEF NoJob
<1> QED
  BY <1>3, <1>4, <1>5 DEF TableInv, Table

LEMMA TableStep ==
  ASSUME Shape, TableInv, Next
  PROVE  TableInv'
<1>0. Bridge \in Threads /\ Ticker \in Threads
  BY DEF Threads
<1>1. ASSUME NEW t \in Threads, Call(t) PROVE TableInv'
  BY <1>1, SaveTable, OthersTable DEF Call
<1>2. ASSUME NEW h \in Handlers, Requests(h) \/ Call(h) PROVE TableInv'
  <2>1. h \in Threads
    BY DEF Threads
  <2> QED
    BY <1>1, <1>2, <2>1, RequestsTable
<1>3. CASE BridgeStep \/ TickerStep \/ FlushStep
  BY <1>0, <1>1, <1>3, LoopsTable DEF BridgeStep, TickerStep
<1>4. CASE Carry \/ TimePasses
  BY <1>4, NoCopyKeeps DEF Carry, TimePasses, NoAccounts, accountVars
<1>5. CASE Crash
  <2>1. UNCHANGED <<users, born>> /\ job' = [t \in Threads |-> NoJob]
    BY <1>5 DEF Crash
  <2>2. \A d \in Threads : job'[d].us = <<>>
    BY <2>1 DEF NoJob
  <2> QED
    BY <2>1, <2>2, NoCopyKeeps
<1> QED
  BY <1>2, <1>3, <1>4, <1>5 DEF Next

-----------------------------------------------------------------------------

\* Every batch is one a hub sends.
HubSpeaks == \A batch \in Batches : FromHub(batch)

\* Importing a batch of a hub a second time creates, renames, revives and deletes nobody, whatever
\* users and edits came before: after the first import every record is held, by its revision or its
\* tombstone, and a record that is held is skipped or buried again without a change (handleUsersImport).
THEOREM ImportOnce == HubSpeaks => (Spec => []ImportIdempotent)
<1>1. (CountInv /\ TableInv) /\ [Next]_vars => (CountInv /\ TableInv)'
  <2>1. ASSUME CountInv, TableInv, Next PROVE (CountInv /\ TableInv)'
    BY <2>1, CountStep, TableStep DEF CountInv
  <2>2. ASSUME CountInv, TableInv, UNCHANGED vars PROVE (CountInv /\ TableInv)'
    <3>1. CountInv'
      BY <2>2, FrameKeeps DEF vars, trafficVars
    <3>2. TableInv'
      BY <2>2, NoCopyKeeps DEF vars, accountVars
    <3> QED
      BY <3>1, <3>2
  <2> QED
    BY <2>1, <2>2
<1>2. Init => CountInv /\ TableInv
  BY CountInit, TableInit
<1>3. ASSUME HubSpeaks, TableInv PROVE ImportIdempotent
  <2> SUFFICES ASSUME NEW batch \in Batches, NEW reject \in BOOLEAN,
                      Import(users, born, batch, [tombs |-> TRUE, reject |-> reject]).ok
               PROVE  LET policy == [tombs |-> TRUE, reject |-> reject]
                          once   == Import(users, born, batch, policy)
                          twice  == Import(once.us, once.born, batch, policy)
                      IN  /\ twice.ok /\ twice.born = once.born
                          /\ \A u \in DOMAIN once.us : Profile(twice.us[u]) = Profile(once.us[u])
    BY DEF ImportIdempotent
  <2> DEFINE policy == [tombs |-> TRUE, reject |-> reject]
             once   == Import(users, born, batch, policy)
             twice  == Import(once.us, once.born, batch, policy)
  <2>1. batch \in Seq(Record) /\ FromHub(batch) /\ policy.tombs = TRUE
    BY <1>3, AccountsAssumption DEF HubSpeaks
  <2>2. once.ok /\ born \in Nat /\ Table(users, born)
    BY <1>3 DEF TableInv
  <2> HIDE DEF policy
  <2>3. Unmoved(once, twice)
    BY <2>1, <2>2, ImportTwice
  <2> HIDE DEF once, twice
  <2>4. twice.ok /\ twice.born = once.born /\ \A u \in DOMAIN once.us : Profile(twice.us[u]) = Profile(once.us[u])
    BY <2>3 DEF Unmoved
  <2> QED
    BY <2>4 DEF once, twice, policy
<1>4. HubSpeaks /\ TableInv => ImportIdempotent
  BY <1>3
<1> SUFFICES ASSUME HubSpeaks PROVE Spec => []ImportIdempotent
  OBVIOUS
<1>5. TableInv => ImportIdempotent
  BY <1>4
<1> QED
  BY <1>1, <1>2, <1>5, PTL DEF Spec
-----------------------------------------------------------------------------
(* Revisions *)

\* Nobody has left, no revision has gone back, and every change of a profile has raised one.
Ages(us, vs) ==
  \A u \in DOMAIN us :
    /\ u \in DOMAIN vs /\ us[u].rev <= vs[u].rev
    /\ Profile(vs[u]) # Profile(us[u]) => us[u].rev < vs[u].rev

LEMMA AgesOn ==
  ASSUME NEW us, NEW vs, NEW ws, NEW n, NEW m, NEW k, Table(us, n), Table(vs, m), Table(ws, k),
         Ages(us, vs), Ages(vs, ws)
  PROVE  Ages(us, ws)
<1> SUFFICES ASSUME NEW u \in DOMAIN us
             PROVE  /\ u \in DOMAIN ws /\ us[u].rev <= ws[u].rev
                    /\ Profile(ws[u]) # Profile(us[u]) => us[u].rev < ws[u].rev
  BY DEF Ages
<1>1. u \in DOMAIN vs /\ u \in DOMAIN ws
  BY DEF Ages
<1>2. us[u].rev \in Nat /\ vs[u].rev \in Nat /\ ws[u].rev \in Nat
  BY <1>1 DEF Table, IsUser
<1>3. /\ us[u].rev <= vs[u].rev /\ vs[u].rev <= ws[u].rev
      /\ Profile(vs[u]) # Profile(us[u]) => us[u].rev < vs[u].rev
      /\ Profile(ws[u]) # Profile(vs[u]) => vs[u].rev < ws[u].rev
  BY <1>1 DEF Ages
<1> QED
  BY <1>1, <1>2, <1>3

LEMMA RecordAges ==
  ASSUME NEW st, Folded(st), NEW rec \in Record, NEW policy, policy.tombs \in BOOLEAN
  PROVE  Ages(st.us, ImportRecord(st, rec, policy).us)
<1> DEFINE new == ImportRecord(st, rec, policy)
<1>0. \A u \in DOMAIN st.us : st.us[u].rev \in Nat
  BY DEF Folded, Table, IsUser
<1>s. ASSUME new.us = st.us PROVE Ages(st.us, new.us)
  <2> HIDE DEF new
  <2> QED
    BY <1>0, <1>s DEF Ages
<1>f. [st EXCEPT !.ok = FALSE].us = st.us
  BY DEF Folded
<1>1. CASE ~st.ok
  <2>1. new = st
    BY <1>1 DEF ImportRecord
  <2> QED
    BY <1>s, <2>1
<1>2. CASE st.ok /\ rec.sync \in DOMAIN st.bySync
  <2>u. PICK u, r : u = st.bySync[rec.sync] /\ r = st.us[u]
    OBVIOUS
  <2>1. new = ImportKnown(st, rec, policy)
    BY <1>2 DEF ImportRecord
  <2> HIDE DEF new
  <2>2. Known(st, rec, policy, new, u, r)
    BY <1>2, <2>u, <2>1, KnownTakes
  <2>3. \/ new = st
        \/ new = [st EXCEPT !.ok = FALSE]
        \/ \E v : Becomes(st, new, u, v) /\ r.rev < v.rev /\ IsUser(v)
    BY <2>2 DEF Known
  <2>4. CASE \E v : Becomes(st, new, u, v) /\ r.rev < v.rev /\ IsUser(v)
    <3>1. PICK v : Becomes(st, new, u, v) /\ r.rev < v.rev /\ IsUser(v)
      BY <2>4
    <3>2. u \in DOMAIN st.us
      BY <2>2 DEF Known
    <3>3. new.us = [st.us EXCEPT ![u] = v] /\ v.rev \in Nat
      BY <3>1 DEF Becomes, IsUser
    <3> QED
      BY <1>0, <2>u, <3>1, <3>2, <3>3 DEF Ages, new
  <2> QED
    BY <1>f, <1>s, <2>3, <2>4 DEF new
<1>3. CASE st.ok /\ rec.sync \notin DOMAIN st.bySync
  <2>1. new = ImportUnknown(st, rec, policy)
    BY <1>3 DEF ImportRecord
  <2> HIDE DEF new
  <2>2. Unknown(st, rec, policy, new)
    BY <1>3, <2>1, UnknownTakes
  <2>3. \/ new = [st EXCEPT !.ok = FALSE]
        \/ \A x \in DOMAIN st.us : x \in DOMAIN new.us /\ new.us[x] = st.us[x]
    BY <2>2 DEF Unknown
  <2>4. CASE \A x \in DOMAIN st.us : x \in DOMAIN new.us /\ new.us[x] = st.us[x]
    BY <1>0, <2>4 DEF Ages, new
  <2> QED
    BY <1>f, <1>s, <2>3, <2>4 DEF new
<1> QED
  BY <1>1, <1>2, <1>3 DEF Folded

LEMMA ImportAges ==
  ASSUME NEW us, NEW b \in Nat, Table(us, b), NEW batch \in Seq(Record), NEW policy,
         policy.tombs \in BOOLEAN
  PROVE  Ages(us, Import(us, b, batch, policy).us)
<1> DEFINE f == Imports(us, b, batch, policy)
           Older(st) == Folded(st) /\ Ages(us, st.us)
           T == {m \in Nat : m <= Len(batch) => Older(f[m])}
<1>1. /\ Len(batch) \in Nat /\ f[0] = Start(us, b)
      /\ \A m \in Nat : m + 1 <= Len(batch) =>
           batch[m + 1] \in Record /\ f[m + 1] = ImportRecord(f[m], batch[m + 1], policy)
  BY ImportSteps
<1> HIDE DEF f
<1>2. Older(f[0])
  <2>1. Folded(f[0]) /\ f[0].us = us
    BY <1>1, StartFolded DEF Start
  <2>2. \A u \in DOMAIN us : us[u].rev \in Nat
    BY DEF Table, IsUser
  <2> QED
    BY <2>1, <2>2 DEF Ages
<1>3. ASSUME NEW m \in Nat, m + 1 <= Len(batch), Older(f[m])
      PROVE  Older(f[m + 1])
  <2> DEFINE st == f[m]
             rec == batch[m + 1]
             new == f[m + 1]
  <2>1. rec \in Record /\ new = ImportRecord(st, rec, policy) /\ Folded(st) /\ Ages(us, st.us)
    BY <1>1, <1>3
  <2> HIDE DEF st, rec, new
  <2>2. Folded(new)
    BY <2>1, RecordTakes DEF Taken
  <2>3. Ages(st.us, new.us)
    BY <2>1, RecordAges
  <2>4. Table(st.us, st.born) /\ Table(new.us, new.born)
    BY <2>1, <2>2 DEF Folded
  <2>5. Ages(us, new.us)
    BY <2>1, <2>3, <2>4, AgesOn
  <2> QED
    BY <2>2, <2>5 DEF new
<1> HIDE DEF Older
<1>4. 0 \in T
  BY <1>2
<1>5. ASSUME NEW m \in Nat, m \in T PROVE m + 1 \in T
  <2>1. m + 1 <= Len(batch) => m <= Len(batch)
    BY <1>1
  <2> QED
    BY <1>3, <1>5, <2>1
<1>6. Nat \subseteq T
  <2> HIDE DEF T
  <2> QED
    BY <1>4, <1>5, SetInduction
<1> QED
  BY <1>1, <1>6 DEF Import, f, Older

\* A copy in which every profile that differs from users.json has a higher revision.
Newer(us, vs) ==
  \A u \in DOMAIN us \cap DOMAIN vs : Profile(vs[u]) # Profile(us[u]) => us[u].rev < vs[u].rev

\* Only handlers do anything, and their copies are such.
VersionInv ==
  \A t \in Threads :
    /\ Newer(users, job[t].us)
    /\ t \notin Handlers => pc[t] = "idle" /\ job[t].us = <<>>

\* One client at a time, and none of the loops.
OneEditor == Loops = {} /\ \A a, b \in Handlers : a = b

LEMMA NewerEmpty == \A us : Newer(us, <<>>) /\ Newer(us, us)
BY DEF Newer

LEMMA NewerEdit ==
  ASSUME NEW us, NEW u \in DOMAIN us, NEW r,
         Profile(r) = Profile(us[u]) \/ us[u].rev < r.rev
  PROVE  Newer(us, [us EXCEPT ![u] = r])
BY DEF Newer

\* A handler whose new copy, if it has one, is newer than the file.
Edits(h) ==
  /\ UNCHANGED users
  /\ \A d \in Threads \ {h} : pc'[d] = pc[d] /\ job'[d] = job[d]
  /\ job'[h].us \in {job[h].us, <<>>} \/ Newer(users, job'[h].us)

LEMMA EditsKeep ==
  ASSUME VersionInv, NEW h \in Handlers, Edits(h)
  PROVE  VersionInv'
<1>1. \A t \in Threads : Newer(users, job'[t].us)
  BY NewerEmpty DEF VersionInv, Edits
<1>2. \A t \in Threads \ Handlers : pc'[t] = "idle" /\ job'[t].us = <<>>
  BY DEF VersionInv, Edits
<1> QED
  BY <1>1, <1>2 DEF VersionInv, Edits

\* Every edit of a user but that of its membership raises the revision.
LEMMA EditsRaise ==
  ASSUME NEW r, IsUser(r)
  PROVE  /\ \A x : IsUser(x) /\ x.rev = r.rev => r.rev < Patched(r, x).rev
         /\ r.rev < Tombstone(r).rev
         /\ \A on \in BOOLEAN : r.rev < Toggle(r, on).rev /\ Profile([r EXCEPT !.syncOn = on]) = Profile(r)
         /\ \A x : Profile(Metric(r, x)) = Profile(r)
<1>s. \A x : IsUser(x) => SeedIngressFromUsed(x).rev = x.rev
  BY DEF IsUser, SeedIngressFromUsed
<1>r. r.rev \in Nat /\ r.rev + 1 \in Nat
  BY DEF IsUser
<1>k. ASSUME NEW k \in Nat
      PROVE  /\ IsUser([r EXCEPT !.mode = TRUE, !.syncOn = TRUE, !.rev = k])
             /\ [r EXCEPT !.mode = TRUE, !.syncOn = TRUE, !.rev = k].rev = k
             /\ [r EXCEPT !.syncOn = FALSE, !.rev = k].rev = k
  BY <1>k DEF IsUser
<1>1. ASSUME NEW x, IsUser(x), x.rev = r.rev PROVE r.rev < Patched(r, x).rev
  <2> DEFINE s == [x EXCEPT !.rev = x.rev + 1]
  <2>1. s.rev = r.rev + 1 /\ IsUser(s)
    BY <1>1, <1>r DEF IsUser
  <2>2. Patched(r, x) \in {s, SeedIngressFromUsed(s)}
    BY DEF Patched
  <2> HIDE DEF s
  <2>3. Patched(r, x).rev = r.rev + 1
    BY <1>s, <2>1, <2>2
  <2> QED
    BY <1>r, <2>3
<1>2. r.rev < Tombstone(r).rev
  <2>1. Tombstone(r).rev = r.rev + 1
    BY DEF Tombstone, IsUser
  <2> QED
    BY <1>r, <2>1
<1>3. ASSUME NEW on \in BOOLEAN
      PROVE  r.rev < Toggle(r, on).rev /\ Profile([r EXCEPT !.syncOn = on]) = Profile(r)
  <2> DEFINE y == [r EXCEPT !.mode = TRUE, !.syncOn = TRUE, !.rev = r.rev + 1]
             z == [r EXCEPT !.syncOn = FALSE, !.rev = r.rev + 1]
  <2>1. IsUser(y) /\ y.rev = r.rev + 1 /\ z.rev = r.rev + 1
    BY <1>r, <1>k
  <2>2. Toggle(r, on) \in {SeedIngressFromUsed(y), z}
    BY DEF Toggle
  <2> HIDE DEF y, z
  <2>3. Toggle(r, on).rev = r.rev + 1
    BY <1>s, <2>1, <2>2
  <2>4. Profile([r EXCEPT !.syncOn = on]) = Profile(r)
    BY DEF Profile, IsUser
  <2> QED
    BY <1>r, <2>3, <2>4
<1>4. \A x : Profile(Metric(r, x)) = Profile(r)
  BY DEF Profile, Metric, IsUser
<1> QED
  BY <1>1, <1>2, <1>3, <1>4

LEMMA RequestsEdit ==
  ASSUME Shape, TableInv, VersionInv, NEW h \in Handlers, Requests(h)
  PROVE  Edits(h)
<1>0. /\ h \in Threads /\ born \in Nat /\ Table(users, born)
      /\ \A u \in DOMAIN users : IsUser(users[u]) /\ users[u].rev \in Nat
  BY DEF Threads, TableInv, Table, IsUser
<1>e. ASSUME NEW us, NEW l, Edit(h, us, l), Newer(users, us), UNCHANGED users
      PROVE  Edits(h)
  <2> DEFINE j == [NoJob EXCEPT !.us = us, !.then = l]
  <2>1. j.us = us
    BY DEF NoJob
  <2>2. Goto(h, "save") /\ job' = [job EXCEPT ![h] = j]
    BY <1>e DEF Edit
  <2> HIDE DEF j
  <2> QED
    BY <1>0, <1>e, <2>1, <2>2 DEF Shape, Goto, Edits
<1>u. ASSUME NEW u \in DOMAIN users, NEW r, NEW l, EditUser(h, u, r, l), UNCHANGED users,
             Profile(r) = Profile(users[u]) \/ users[u].rev < r.rev
      PROVE  Edits(h)
  <2>1. Newer(users, [users EXCEPT ![u] = r])
    BY <1>u, NewerEdit
  <2> QED
    BY <1>e, <1>u, <2>1 DEF EditUser
<1>j. ASSUME NEW j, job' = [job EXCEPT ![h] = j], Goto(h, "save"), Newer(users, j.us), UNCHANGED users
      PROVE  Edits(h)
  BY <1>0, <1>j DEF Shape, Goto, Edits
<1>1. CASE HandleUsersCreate(h)
  <2>0. UNCHANGED users
    BY <1>1 DEF HandleUsersCreate
  <2>1. PICK n \in Names, s \in SyncIds \cup {NoSync} :
          Edit(h, With(users, born + 1, NewUser(n, s)), "remat")
    BY <1>1 DEF HandleUsersCreate
  <2> DEFINE us == With(users, born + 1, NewUser(n, s))
  <2>2. \A u \in DOMAIN users : us[u] = users[u]
    BY <1>0 DEF With, Table
  <2>3. Newer(users, us)
    BY <2>2 DEF Newer
  <2> QED
    BY <1>e, <2>0, <2>1, <2>3
<1>2. CASE HandleUsersPatch(h)
  <2>0. UNCHANGED users
    BY <1>2 DEF HandleUsersPatch, NoAccounts, accountVars
  <2>1. PICK u \in DOMAIN users :
          LET old == users[u] IN
          \/ \E v \in Amounts :
               LET r == Patched(old, PatchUsed(old, v)) IN
               /\ Goto(h, "save")
               /\ job' = [job EXCEPT ![h] = [NoJob EXCEPT
                    !.us = [users EXCEPT ![u] = r], !.set = v,
                    !.zero = IF SyncActive(r) THEN {} ELSE {u},
                    !.then = "zero", !.afterZero = "remat"]]
          \/ \E n : EditUser(h, u, Patched(old, [old EXCEPT !.name = n]), "remat")
          \/ \E s \in SyncIds :
               EditUser(h, u, Patched(old, [old EXCEPT !.sync = s, !.mode = TRUE, !.syncOn = TRUE]), "remat")
          \/ EditUser(h, u, Patched(old, [old EXCEPT !.due = TRUE]), "remat")
          \/ EditUser(h, u, Patched(old, [old EXCEPT !.enabled = ~@]), "remat")
    BY <1>2 DEF HandleUsersPatch
  <2> DEFINE old == users[u]
  <2>2. IsUser(old)
    BY <1>0
  <2>p. ASSUME NEW x, IsUser(x), x.rev = old.rev, NEW l, EditUser(h, u, Patched(old, x), l)
        PROVE  Edits(h)
    <3>1. old.rev < Patched(old, x).rev
      BY <2>2, <2>p, EditsRaise
    <3> QED
      BY <1>u, <2>0, <2>p, <3>1
  <2> HIDE DEF old
  <2>3. ASSUME NEW v \in Amounts, NEW r, NEW z, r = Patched(old, PatchUsed(old, v)), Goto(h, "save"),
               job' = [job EXCEPT ![h] = [NoJob EXCEPT
                    !.us = [users EXCEPT ![u] = r], !.set = v, !.zero = z,
                    !.then = "zero", !.afterZero = "remat"]]
        PROVE  Edits(h)
    <3> DEFINE us == [users EXCEPT ![u] = r]
               j == [NoJob EXCEPT !.us = us, !.set = v, !.zero = z, !.then = "zero", !.afterZero = "remat"]
    <3>1. IsUser(PatchUsed(old, v)) /\ PatchUsed(old, v).rev = old.rev
      BY <2>2 DEF PatchUsed, IsUser
    <3>2. old.rev < r.rev
      BY <2>2, <2>3, <3>1, EditsRaise
    <3>3. Newer(users, us)
      BY <3>2, NewerEdit DEF old
    <3> HIDE DEF us
    <3>4. j.us = us
      BY DEF NoJob
    <3>5. job' = [job EXCEPT ![h] = j]
      BY <2>3 DEF us
    <3> HIDE DEF j
    <3> QED
      BY <1>j, <2>0, <2>3, <3>3, <3>4, <3>5
  <2>4. ASSUME NEW x, IsUser(x), x.rev = old.rev, EditUser(h, u, Patched(old, x), "remat") PROVE Edits(h)
    BY <2>p, <2>4 DEF old
  <2>5. /\ \A n : IsUser([old EXCEPT !.name = n]) /\ [old EXCEPT !.name = n].rev = old.rev
        /\ \A s \in SyncIds : /\ IsUser([old EXCEPT !.sync = s, !.mode = TRUE, !.syncOn = TRUE])
                              /\ [old EXCEPT !.sync = s, !.mode = TRUE, !.syncOn = TRUE].rev = old.rev
        /\ IsUser([old EXCEPT !.due = TRUE]) /\ [old EXCEPT !.due = TRUE].rev = old.rev
        /\ IsUser([old EXCEPT !.enabled = ~@]) /\ [old EXCEPT !.enabled = ~@].rev = old.rev
    BY <2>2 DEF IsUser
  <2>6. ASSUME NEW n, EditUser(h, u, Patched(old, [old EXCEPT !.name = n]), "remat") PROVE Edits(h)
    BY <2>4, <2>5, <2>6
  <2>7. ASSUME NEW s \in SyncIds,
               EditUser(h, u, Patched(old, [old EXCEPT !.sync = s, !.mode = TRUE, !.syncOn = TRUE]), "remat")
        PROVE  Edits(h)
    BY <2>4, <2>5, <2>7
  <2>8. CASE EditUser(h, u, Patched(old, [old EXCEPT !.due = TRUE]), "remat")
    BY <2>4, <2>5, <2>8
  <2>9. CASE EditUser(h, u, Patched(old, [old EXCEPT !.enabled = ~@]), "remat")
    BY <2>4, <2>5, <2>9
  <2> QED
    BY <2>1, <2>3, <2>6, <2>7, <2>8, <2>9 DEF old
<1>3. CASE HandleUsersDelete(h)
  <2>0. UNCHANGED users
    BY <1>3 DEF HandleUsersDelete, NoAccounts, accountVars
  <2>1. PICK u \in DOMAIN users :
          EditUser(h, u, Tombstone(users[u]), "remat") \/ Edit(h, Without(users, u), "remat")
    BY <1>3 DEF HandleUsersDelete
  <2>2. Newer(users, Without(users, u))
    BY DEF Without, Newer
  <2>3. users[u].rev < Tombstone(users[u]).rev
    BY <1>0, EditsRaise
  <2> QED
    BY <1>e, <1>u, <2>0, <2>1, <2>2, <2>3
<1>4. CASE HandleUsersRotate(h)
  <2>1. PICK u \in DOMAIN users, l \in {"idle", "remat"} : EditUser(h, u, users[u], l)
    BY <1>4 DEF HandleUsersRotate
  <2>2. UNCHANGED users
    BY <1>4 DEF HandleUsersRotate, NoAccounts, accountVars
  <2> QED
    BY <1>u, <2>1, <2>2
<1>5. CASE HandleUsersSyncToggle(h)
  <2>1. PICK u \in DOMAIN users, on \in BOOLEAN : EditUser(h, u, Toggle(users[u], on), "idle")
    BY <1>5 DEF HandleUsersSyncToggle, LiveIds
  <2>2. UNCHANGED users
    BY <1>5 DEF HandleUsersSyncToggle, NoAccounts, accountVars
  <2>3. users[u].rev < Toggle(users[u], on).rev
    BY <1>0, EditsRaise
  <2> QED
    BY <1>u, <2>1, <2>2, <2>3
<1>6. CASE HandleUsersSyncMembership(h)
  <2>1. PICK s \in SyncIds, on \in BOOLEAN : Edit(h, Membership(users, s, on), "idle")
    BY <1>6 DEF HandleUsersSyncMembership
  <2>2. UNCHANGED users
    BY <1>6 DEF HandleUsersSyncMembership, NoAccounts, accountVars
  <2>3. \A u \in DOMAIN users : Profile([users[u] EXCEPT !.syncOn = on]) = Profile(users[u])
    BY <1>0, EditsRaise
  <2>4. \A u \in DOMAIN users : Profile(Membership(users, s, on)[u]) = Profile(users[u])
    BY <2>3 DEF Membership
  <2>5. Newer(users, Membership(users, s, on))
    BY <2>4 DEF Newer
  <2> QED
    BY <1>e, <2>1, <2>2, <2>5
<1>7. CASE HandleUsersImport(h)
  <2>0. UNCHANGED users
    BY <1>7 DEF HandleUsersImport
  <2>1. PICK batch \in Batches, tombs \in BOOLEAN, reject \in BOOLEAN :
          Edit(h, Import(users, born, batch, [tombs |-> tombs, reject |-> reject]).us, "apply")
    BY <1>7 DEF HandleUsersImport
  <2> DEFINE policy == [tombs |-> tombs, reject |-> reject]
             us == Import(users, born, batch, policy).us
  <2>2. batch \in Seq(Record) /\ policy.tombs \in BOOLEAN
    BY AccountsAssumption
  <2>3. Edit(h, us, "apply")
    BY <2>1
  <2> HIDE DEF policy
  <2>4. Ages(users, us)
    BY <1>0, <2>2, ImportAges
  <2> HIDE DEF us
  <2>5. Newer(users, us)
    BY <2>4 DEF Ages, Newer
  <2> QED
    BY <1>e, <2>0, <2>3, <2>5
<1>8. CASE HandleUsersSyncMetricsPost(h)
  <2>1. PICK s \in DOMAIN BySync(users), reset \in BOOLEAN, g \in Amounts \cup {-1} :
          LET u  == BySync(users)[s]
              us == [users EXCEPT ![u] = Metric(@, [reset |-> reset, global |-> g])]
          IN  /\ Goto(h, "save")
              /\ job' = [job EXCEPT ![h] = [NoJob EXCEPT !.us = us, !.fp = Fingerprint(users),
                           !.zero = IF reset THEN {u} ELSE {}, !.then = "zero", !.afterZero = "check"]]
    BY <1>8 DEF HandleUsersSyncMetricsPost
  <2>2. UNCHANGED users
    BY <1>8 DEF HandleUsersSyncMetricsPost
  <2> DEFINE u == BySync(users)[s]
             us == [users EXCEPT ![u] = Metric(users[u], [reset |-> reset, global |-> g])]
             j == [NoJob EXCEPT !.us = us, !.fp = Fingerprint(users), !.zero = IF reset THEN {u} ELSE {},
                                !.then = "zero", !.afterZero = "check"]
  <2>3. job' = [job EXCEPT ![h] = j] /\ Goto(h, "save")
    BY <2>1
  <2>4. u \in DOMAIN users
    BY <1>0, BySyncFinds
  <2>5. Profile(Metric(users[u], [reset |-> reset, global |-> g])) = Profile(users[u])
    BY <1>0, <2>4, EditsRaise
  <2>6. Newer(users, us)
    BY <2>4, <2>5, NewerEdit
  <2> HIDE DEF us, u
  <2>7. j.us = us
    BY DEF NoJob
  <2> HIDE DEF j
  <2> QED
    BY <1>j, <2>2, <2>3, <2>6, <2>7
<1>9. CASE HubPull(h)
  BY <1>9 DEF HubPull, Edits
<1> QED
  BY <1>1, <1>2, <1>3, <1>4, <1>5, <1>6, <1>7, <1>8, <1>9 DEF Requests

LEMMA CallsEdit ==
  ASSUME Shape, NEW h \in Threads,
         Zero(h) \/ ZeroStore(h) \/ SetSeries(h) \/ Check(h) \/ Remat(h) \/ Apply(h) \/ Publish(h)
  PROVE  Edits(h)
<1>0. UNCHANGED users /\ DOMAIN job[h] = DOMAIN NoJob /\ NoJob.us = <<>>
  BY DEF Zero, ZeroStore, SetSeries, Check, Remat, Apply, Publish, NoAccounts, accountVars, Shape, Locals, NoJob
<1>1. \E l : Goto(h, l)
  BY DEF Zero, ZeroStore, SetSeries, Check, Remat, Apply, Publish, Done
<1>2. \A d \in Threads \ {h} : pc'[d] = pc[d]
  BY <1>1 DEF Goto, Shape
<1>j. ASSUME NEW j, job' = [job EXCEPT ![h] = j], j.us \in {job[h].us, <<>>} PROVE Edits(h)
  BY <1>0, <1>2, <1>j DEF Shape, Edits
<1>s. ASSUME UNCHANGED job PROVE Edits(h)
  BY <1>0, <1>2, <1>s DEF Edits
<1>n. ASSUME job' = [job EXCEPT ![h] = NoJob] PROVE Edits(h)
  BY <1>0, <1>j, <1>n
<1>3. CASE Zero(h)
  <2>1. ASSUME NEW K, job' = [job EXCEPT ![h].keys = K] PROVE Edits(h)
    BY <1>0, <1>j, <2>1 DEF NoJob
  <2> QED
    BY <1>3, <1>s, <2>1 DEF Zero
<1>4. CASE ZeroStore(h)
  <2>1. ASSUME NEW u, job' = [job EXCEPT ![h].zero = @ \ {u}, ![h].keys = {}] PROVE Edits(h)
    <3>1. job'[h].us = job[h].us /\ \A d \in Threads \ {h} : job'[d] = job[d]
      BY <1>0, <2>1 DEF Shape, NoJob
    <3> QED
      BY <1>0, <1>2, <3>1 DEF Edits
  <2> QED
    BY <1>4, <1>s, <2>1 DEF ZeroStore
<1>5. CASE SetSeries(h)
  <2>1. job' = [job EXCEPT ![h].zero = {}, ![h].keys = {}]
    BY <1>5 DEF SetSeries
  <2>2. job'[h].us = job[h].us /\ \A d \in Threads \ {h} : job'[d] = job[d]
    BY <1>0, <2>1 DEF Shape, NoJob
  <2> QED
    BY <1>0, <1>2, <2>2 DEF Edits
<1>6. CASE Check(h)
  <2>1. ASSUME NEW c, job' = [job EXCEPT ![h].cfg = c] PROVE Edits(h)
    BY <1>0, <1>j, <2>1 DEF NoJob
  <2> QED
    BY <1>6, <1>n, <2>1 DEF Check, Done
<1>7. CASE Remat(h)
  <2>1. ASSUME NEW c, job' = [job EXCEPT ![h] = [NoJob EXCEPT !.cfg = c]] PROVE Edits(h)
    BY <1>j, <2>1 DEF NoJob
  <2> QED
    BY <1>7, <2>1 DEF Remat
<1>8. CASE Apply(h)
  BY <1>8, <1>n, <1>s DEF Apply, Done
<1>9. CASE Publish(h)
  BY <1>9, <1>n DEF Publish, Done
<1> QED
  BY <1>3, <1>4, <1>5, <1>6, <1>7, <1>8, <1>9

\* The file becomes a copy that is newer than it.
LEMMA SaveVersions ==
  ASSUME Shape, VersionInv, OneEditor, NEW h \in Handlers, Save(h)
  PROVE  VersionInv' /\ Newer(users, users')
<1>0. h \in Threads /\ h # Ticker
  BY AccountsAssumption DEF Threads
<1>1. CASE /\ users' = job[h].us /\ Goto(h, job[h].then)
           /\ job' = [job EXCEPT ![h].us = <<>>,
                        ![h].cfg = IF job[h].then = "apply" THEN Build(job[h].us) ELSE <<>>]
  <2> DEFINE x == IF job[h].then = "apply" THEN Build(job[h].us) ELSE <<>>
  <2>1. job' = [job EXCEPT ![h].us = <<>>, ![h].cfg = x]
    BY <1>1
  <2> HIDE DEF x
  <2>2. job'[h].us = <<>> /\ \A d \in Threads \ {h} : job'[d] = job[d] /\ pc'[d] = pc[d]
    BY <1>0, <1>1, <2>1 DEF Shape, Locals, NoJob, Goto
  <2>3. \A d \in Threads \ {h} : d \notin Handlers
    BY DEF OneEditor
  <2>4. \A d \in Threads : job'[d].us = <<>> /\ (d \notin Handlers => pc'[d] = "idle")
    BY <2>2, <2>3 DEF VersionInv
  <2>5. VersionInv'
    BY <2>4, NewerEmpty DEF VersionInv
  <2> QED
    BY <1>0, <1>1, <2>5 DEF VersionInv
<1>2. CASE UNCHANGED users /\ Done(h)
  <2>1. Edits(h)
    BY <1>0, <1>2 DEF Done, Goto, Shape, Edits, NoJob
  <2> QED
    BY <1>2, <2>1, EditsKeep, NewerEmpty
<1> QED
  BY <1>0, <1>1, <1>2 DEF Save

LEMMA VersionStep ==
  ASSUME Shape, TableInv, VersionInv, OneEditor, Next
  PROVE  VersionInv' /\ Newer(users, users')
<1>e. ASSUME NEW h \in Handlers, Edits(h) PROVE VersionInv' /\ Newer(users, users')
  BY <1>e, EditsKeep, NewerEmpty DEF Edits
<1>1. ASSUME NEW h \in Handlers, Requests(h) \/ Call(h) PROVE VersionInv' /\ Newer(users, users')
  <2>1. h \in Threads
    BY DEF Threads
  <2> QED
    BY <1>1, <1>e, <2>1, RequestsEdit, CallsEdit, SaveVersions DEF Call
<1>2. ~(BridgeStep \/ TickerStep \/ FlushStep)
  <2>1. \A t \in {Bridge, Ticker, Flusher} : t \in Threads /\ t \notin Handlers /\ t \notin Loops
    BY AccountsAssumption DEF Threads, OneEditor
  <2>2. \A t \in {Bridge, Ticker, Flusher} : pc[t] = "idle"
    BY <2>1 DEF VersionInv
  <2> QED
    BY <2>1, <2>2 DEF BridgeStep, TickerStep, FlushStep, Call, Poll, ApplyTrafficUsage, Tick, TickFP, FlushSwap,
       FlushSamples, FlushWrite, Save, Zero, ZeroStore, SetSeries, Check, Remat, Apply, Publish
<1>3. CASE Carry \/ TimePasses
  <2>1. UNCHANGED <<users, pc, job>>
    BY <1>3 DEF Carry, TimePasses, NoAccounts, accountVars
  <2> QED
    BY <2>1, NewerEmpty DEF VersionInv
<1>4. CASE Crash
  <2>1. UNCHANGED users /\ \A t \in Threads : pc'[t] = "idle" /\ job'[t].us = <<>>
    BY <1>4 DEF Crash, NoJob
  <2> QED
    BY <2>1, NewerEmpty DEF VersionInv
<1> QED
  BY <1>1, <1>2, <1>3, <1>4 DEF Next

\* Whoever changes the profile of a user raises its revision: every handler does so in the copy it
\* loaded (imports record by record), and users.json is only ever replaced by such a copy.  It takes
\* one editor at a time, since the handlers load and save without a lock (handleUsersPatch and others).
THEOREM ProfilesVersioned == OneEditor => (Spec => ProfileVersioned)
<1> DEFINE Inv == CountInv /\ TableInv /\ VersionInv
<1> SUFFICES ASSUME OneEditor PROVE Spec => ProfileVersioned
  OBVIOUS
<1>1. Init => Inv
  <2>1. ASSUME Init PROVE VersionInv
    <3>1. \A t \in Threads : pc[t] = "idle" /\ job[t].us = <<>>
      BY <2>1 DEF Init, NoJob
    <3> QED
      BY <3>1, NewerEmpty DEF VersionInv
  <2> QED
    BY <2>1, CountInit, TableInit
<1>2. Inv /\ [Next]_vars => Inv' /\ Newer(users, users')
  <2>1. ASSUME CountInv, TableInv, VersionInv, Next PROVE Inv' /\ Newer(users, users')
    BY <2>1, CountStep, TableStep, VersionStep DEF CountInv
  <2>2. ASSUME CountInv, TableInv, VersionInv, UNCHANGED vars PROVE Inv' /\ Newer(users, users')
    <3>1. CountInv'
      BY <2>2, FrameKeeps DEF vars, trafficVars
    <3>2. TableInv'
      BY <2>2, NoCopyKeeps DEF vars, accountVars
    <3>3. VersionInv' /\ Newer(users, users')
      BY <2>2, NewerEmpty DEF vars, accountVars, VersionInv
    <3> QED
      BY <3>1, <3>2, <3>3
  <2> QED
    BY <2>1, <2>2
<1> HIDE DEF Inv
<1>3. Inv /\ TableInv /\ TableInv' /\ Newer(users, users') =>
        \A u \in DOMAIN users \cap DOMAIN users' :
          Profile(users'[u]) # Profile(users[u]) => users'[u].rev > users[u].rev
  BY DEF Newer, TableInv, Table, IsUser
<1>4. Inv => TableInv
  BY DEF Inv
<1>5. Inv /\ Inv' /\ [Next]_vars =>
        [\A u \in DOMAIN users \cap DOMAIN users' :
           Profile(users'[u]) # Profile(users[u]) => users'[u].rev > users[u].rev]_vars
  <2>1. Inv' => TableInv'
    BY DEF Inv
  <2> QED
    BY <1>2, <1>3, <1>4, <2>1
<1>6. Inv /\ [Next]_vars => Inv'
  BY <1>2
<1> QED
  BY <1>1, <1>5, <1>6, PTL DEF Spec, ProfileVersioned


-----------------------------------------------------------------------------
(* What a hub counts *)

\* The users that are shared with the hub.
Shared(us) == {u \in DOMAIN us : SyncActive(us[u])}

\* A copy of users.json with the same users, of the same names and shared alike, in the same epochs.
Kin(us, vs) ==
  /\ DOMAIN vs = DOMAIN us /\ Shared(vs) = Shared(us)
  /\ \A u \in DOMAIN us : vs[u].name = us[u].name /\ ~vs[u].due
  /\ \A u \in Shared(us) : vs[u].sync = us[u].sync /\ vs[u].epoch = us[u].epoch /\ vs[u].ingress \in Nat

\* A file of users with names of their own, and none to be reset, and shared users with an identity of
\* their own.
Distinct(us) ==
  /\ DOMAIN us \subseteq UserIds
  /\ \A u \in DOMAIN us : us[u].name \in Names /\ ~us[u].due
  /\ \A u, x \in DOMAIN us : us[u].name = us[x].name => u = x
  /\ \A u, x \in Shared(us) : us[u].sync = us[x].sync => u = x
  /\ \A u \in Shared(us) : us[u].sync \in SyncIds /\ us[u].epoch \in Nat /\ us[u].ingress \in Nat

\* No counter of a shared user is reset or edited: requests change users one at a time and only what
\* leaves them shared, and what a counter file was not given no restart forgets.
Undisturbed ==
  /\ Ops \subseteq {"patchUsed", "disable", "rotate", "pull"}
  /\ \A a, b \in Handlers : a = b
  /\ "counters" \notin Faults \/ MaxCrashes = 0
  /\ \A us \in Seeds : Distinct(us) /\ \A u \in Shared(us) : us[u].ingress = 0

\* What is counted of a key was carried.
CarriedInv ==
  /\ carried \in Nat /\ crashes \in Nat
  /\ \A k \in Names : ctr[k] + live[k] + InFlight(k) <= carried /\ disk.ctr[k] <= carried

\* The subject series of a shared user is never ahead of the counter of its key.
StoreInv ==
  /\ Distinct(users)
  /\ ser \in [UserIds -> Nat] /\ job[Flusher].sdelta \in [UserIds -> Nat]
  /\ subj \in [UserIds -> Names \cup {NoName}]
  /\ \A u \in UserIds : subj[u] # NoName => u \in DOMAIN users /\ subj[u] = users[u].name
  /\ \A u \in Shared(users) :
       /\ ser[u] <= ctr[users[u].name]
       /\ pc[Flusher] = "write" => job[Flusher].sdelta[u] <= job[Flusher].delta[users[u].name]
  /\ disk.subj = subj
  /\ "counters" \notin Faults => disk.ctr = ctr /\ disk.ser = ser

\* What a goroutine is still to do once it has saved the users us resets local users only.
Harmless(us, l, j) ==
  /\ j.then \in {"idle", "zero", "check", "remat"} /\ j.afterZero \in {"idle", "remat"}
  /\ j.set \in Nat /\ \A u \in j.zero : u \in DOMAIN us /\ u \notin Shared(us)
  /\ l = "zeroStore" => \A u \in Shared(us) : us[u].name \notin j.keys

\* Whoever saves, saves a copy of the same users.
SaversInv == \A t \in Threads :
  /\ pc[t] = "save" => t \in Handlers \cup {Bridge} /\ Kin(users, job[t].us)
  /\ pc[t] = "lock" => t = Bridge
  /\ Harmless(users, pc[t], job[t])

\* The usage v of the shared user u lies between what is in the file, or about to be saved by a handler,
\* and what the store has.
Between(u, v) ==
  /\ v \in Nat /\ users[u].ingress <= v /\ v <= SubjectUsage(u)
  /\ \A h \in Handlers : pc[h] = "save" => job[h].us[u].ingress <= v

\* A hub has counted no more of a shared user than what the file, or any copy that will be saved, says.
ChainInv == \A u \in Shared(users) :
  LET w == hub[users[u].sync]
  IN  /\ w.mark \in Nat /\ w.total = w.mark /\ w.epoch \in Nat /\ w.epoch <= users[u].epoch
      /\ w.mark # 0 => w.epoch = users[u].epoch
      /\ w.mark <= users[u].ingress /\ users[u].ingress <= SubjectUsage(u)
      /\ \A h \in Handlers : pc[h] = "save" =>
           w.mark <= job[h].us[u].ingress /\ job[h].us[u].ingress <= SubjectUsage(u)
      /\ pc[Bridge] = "save" => Between(u, job[Bridge].us[u].ingress)
      /\ pc[Bridge] = "lock" => u \in DOMAIN job[Bridge].upd /\ Between(u, job[Bridge].upd[u])

\* A hub has counted nothing of an identity nobody shares.
StrangersInv ==
  /\ DOMAIN hub = SyncIds
  /\ \A s \in SyncIds : hub[s].total = 0 \/ \E u \in Shared(users) : users[u].sync = s

HubInv == CarriedInv /\ StoreInv /\ SaversInv /\ ChainInv /\ StrangersInv

\* Max of two numbers.
LEMMA MaxOfTwo ==
  ASSUME NEW a \in Nat, NEW b \in Nat
  PROVE  Max({a, b}) = IF a >= b THEN a ELSE b
<1> DEFINE m == IF a >= b THEN a ELSE b
<1>1. m \in {a, b} /\ \A y \in {a, b} : m >= y
  OBVIOUS
<1>2. \A x \in {a, b} : (\A y \in {a, b} : x >= y) => x = m
  OBVIOUS
<1> HIDE DEF m
<1>3. Max({a, b}) = m
  BY <1>1, <1>2 DEF Max
<1> QED
  BY <1>3 DEF m

\* A copy of the same users has what Distinct asks for.
LEMMA KinDistinct ==
  ASSUME NEW us, NEW vs, Kin(us, vs), Distinct(us)
  PROVE  Distinct(vs) /\ Kin(vs, vs)
BY DEF Kin, Distinct

\* Two copies of the same users are copies of each other.
LEMMA KinTwice ==
  ASSUME NEW us, NEW vs, NEW ws, Kin(us, vs), Kin(us, ws)
  PROVE  Kin(vs, ws)
BY DEF Kin

\* The same users under other records.
LEMMA KinSelf ==
  ASSUME NEW us, Distinct(us)
  PROVE  Kin(us, us)
BY DEF Kin, Distinct, Shared

\* One user edited, and nothing of it but what Kin leaves open.
LEMMA KinEdit ==
  ASSUME NEW us, Distinct(us), NEW u \in DOMAIN us, NEW r,
         SyncActive(r) <=> SyncActive(us[u]), r.name = us[u].name, ~r.due,
         SyncActive(r) => r.sync = us[u].sync /\ r.epoch = us[u].epoch /\ r.ingress = us[u].ingress
  PROVE  /\ Kin(us, [us EXCEPT ![u] = r])
         /\ \A x \in Shared(us) : [us EXCEPT ![u] = r][x].ingress = us[x].ingress
<1> DEFINE vs == [us EXCEPT ![u] = r]
<1>1. DOMAIN vs = DOMAIN us /\ \A x \in DOMAIN us : vs[x] = IF x = u THEN r ELSE us[x]
  OBVIOUS
<1> HIDE DEF vs
<1>2. Shared(vs) = Shared(us)
  BY <1>1 DEF Shared
<1>3. \A x \in DOMAIN us : vs[x].name = us[x].name /\ ~vs[x].due
  BY <1>1 DEF Distinct
<1>4. \A x \in Shared(us) : x \in DOMAIN us /\ (x = u => SyncActive(r))
  BY DEF Shared
<1>5. \A x \in Shared(us) : vs[x].sync = us[x].sync /\ vs[x].epoch = us[x].epoch /\ vs[x].ingress = us[x].ingress
  BY <1>1, <1>4
<1> QED
  BY <1>1, <1>2, <1>3, <1>5 DEF Kin, Distinct, vs

\* What the store shows of a shared user.
LEMMA UsageIs ==
  ASSUME StoreInv, Numbers, NEW u \in Shared(users)
  PROVE  /\ u \in UserIds /\ users[u].name \in Names /\ ser[u] \in Nat /\ ctr[users[u].name] \in Nat
         /\ ser[u] <= ctr[users[u].name]
         /\ subj[u] = NoName \/ subj[u] = users[u].name
         /\ SubjectUsage(u) = IF subj[u] = NoName THEN ser[u] ELSE ctr[users[u].name]
<1>1. /\ u \in UserIds /\ u \in DOMAIN users /\ users[u].name \in Names /\ ser[u] \in Nat
      /\ ctr[users[u].name] \in Nat /\ ser[u] <= ctr[users[u].name]
  BY DEF StoreInv, Numbers, Distinct, Shared
<1>2. subj[u] = NoName \/ subj[u] = users[u].name
  BY <1>1 DEF StoreInv
<1>3. Max({ctr[users[u].name], ser[u]}) = ctr[users[u].name]
  BY <1>1, MaxOfTwo
<1>4. SubjectUsage(u) = IF subj[u] = NoName THEN ser[u] ELSE Max({ctr[subj[u]], ser[u]})
  BY DEF SubjectUsage
<1> QED
  BY <1>1, <1>2, <1>3, <1>4

\* The goroutine d stays where it is, or goes where it has no copy of the users and none to reset.
Rested(d) ==
  \/ pc'[d] = pc[d] /\ job'[d] = job[d]
  \/ pc'[d] \notin {"save", "lock"} /\ Harmless(users, pc'[d], job'[d])

UsageGrows == \A u \in Shared(users) :
  SubjectUsage(u) \in Nat /\ SubjectUsage(u)' \in Nat /\ SubjectUsage(u) <= SubjectUsage(u)'

\* Where no copy is taken or saved, and usage only grows, the chain from the store to the hub holds.
LEMMA RestKeeps ==
  ASSUME HubInv, UNCHANGED <<users, hub>>, \A d \in Threads : Rested(d), UsageGrows
  PROVE  SaversInv' /\ ChainInv' /\ StrangersInv'
<1>1. \A d \in Handlers \cup {Bridge} : d \in Threads
  BY DEF Threads
<1>2. ASSUME NEW d \in Threads, pc'[d] \in {"save", "lock"} PROVE pc'[d] = pc[d] /\ job'[d] = job[d]
  BY <1>2 DEF Rested
<1>3. Shared(users)' = Shared(users)
  BY DEF Shared
<1>4. SaversInv'
  <2> SUFFICES ASSUME NEW d \in Threads
               PROVE  /\ pc'[d] = "save" => d \in Handlers \cup {Bridge} /\ Kin(users', job'[d].us)
                      /\ pc'[d] = "lock" => d = Bridge
                      /\ Harmless(users', pc'[d], job'[d])
    BY DEF SaversInv
  <2>1. /\ pc[d] = "save" => d \in Handlers \cup {Bridge} /\ Kin(users, job[d].us)
        /\ pc[d] = "lock" => d = Bridge
        /\ Harmless(users, pc[d], job[d])
    BY DEF HubInv, SaversInv
  <2>2. users' = users
    OBVIOUS
  <2>3. Harmless(users, pc'[d], job'[d])
    BY <2>1 DEF Rested
  <2> QED
    BY <1>2, <2>1, <2>2, <2>3
<1>5. ChainInv'
  <2> SUFFICES ASSUME NEW u \in Shared(users)
               PROVE  LET w == hub[users[u].sync]
                      IN  /\ w.mark \in Nat /\ w.total = w.mark /\ w.epoch \in Nat /\ w.epoch <= users[u].epoch
                          /\ w.mark # 0 => w.epoch = users[u].epoch
                          /\ w.mark <= users[u].ingress /\ users[u].ingress <= SubjectUsage(u)'
                          /\ \A h \in Handlers : pc'[h] = "save" =>
                               w.mark <= job'[h].us[u].ingress /\ job'[h].us[u].ingress <= SubjectUsage(u)'
                          /\ pc'[Bridge] = "save" => Between(u, job[Bridge].us[u].ingress)'
                          /\ pc'[Bridge] = "lock" => u \in DOMAIN job'[Bridge].upd /\ Between(u, job[Bridge].upd[u])'
    BY <1>3 DEF ChainInv
  <2> DEFINE w == hub[users[u].sync]
  <2>1. /\ w.mark \in Nat /\ w.total = w.mark /\ w.epoch \in Nat /\ w.epoch <= users[u].epoch
        /\ w.mark # 0 => w.epoch = users[u].epoch
        /\ w.mark <= users[u].ingress /\ users[u].ingress <= SubjectUsage(u)
        /\ \A h \in Handlers : pc[h] = "save" =>
             w.mark <= job[h].us[u].ingress /\ job[h].us[u].ingress <= SubjectUsage(u)
    BY DEF HubInv, ChainInv
  <2>2. /\ pc[Bridge] = "save" => Between(u, job[Bridge].us[u].ingress)
        /\ pc[Bridge] = "lock" => u \in DOMAIN job[Bridge].upd /\ Between(u, job[Bridge].upd[u])
    BY DEF HubInv, ChainInv
  <2>3. users[u].ingress \in Nat /\ \A h \in Handlers : pc[h] = "save" => job[h].us[u].ingress \in Nat
    BY <1>1 DEF HubInv, StoreInv, Distinct, SaversInv, Kin
  <2>4. SubjectUsage(u) \in Nat /\ SubjectUsage(u)' \in Nat /\ SubjectUsage(u) <= SubjectUsage(u)'
    BY DEF UsageGrows
  <2> HIDE DEF w
  <2>5. w.mark <= users[u].ingress /\ users[u].ingress <= SubjectUsage(u)'
    BY <2>1, <2>3, <2>4
  <2>6. ASSUME NEW h \in Handlers, pc'[h] = "save"
        PROVE  w.mark <= job'[h].us[u].ingress /\ job'[h].us[u].ingress <= SubjectUsage(u)'
    <3>1. pc[h] = "save" /\ job'[h] = job[h]
      BY <1>1, <1>2, <2>6
    <3>2. w.mark <= job[h].us[u].ingress /\ job[h].us[u].ingress <= SubjectUsage(u) /\ job[h].us[u].ingress \in Nat
      BY <2>1, <2>3, <3>1
    <3> QED
      BY <2>4, <3>1, <3>2
  <2>7. pc'[Bridge] = "save" => Between(u, job[Bridge].us[u].ingress)'
    <3> SUFFICES ASSUME pc'[Bridge] = "save" PROVE Between(u, job[Bridge].us[u].ingress)'
      OBVIOUS
    <3>1. pc[Bridge] = "save" /\ job'[Bridge] = job[Bridge]
      BY <1>1, <1>2
    <3>2. Between(u, job[Bridge].us[u].ingress)
      BY <2>2, <3>1
    <3> QED
      BY <1>1, <1>2, <3>1, <3>2 DEF Between, UsageGrows
  <2>8. pc'[Bridge] = "lock" => u \in DOMAIN job'[Bridge].upd /\ Between(u, job[Bridge].upd[u])'
    <3> SUFFICES ASSUME pc'[Bridge] = "lock"
                 PROVE  u \in DOMAIN job'[Bridge].upd /\ Between(u, job[Bridge].upd[u])'
      OBVIOUS
    <3>1. pc[Bridge] = "lock" /\ job'[Bridge] = job[Bridge]
      BY <1>1, <1>2
    <3>2. u \in DOMAIN job[Bridge].upd /\ Between(u, job[Bridge].upd[u])
      BY <2>2, <3>1
    <3> QED
      BY <1>1, <1>2, <3>1, <3>2 DEF Between, UsageGrows
  <2> QED
    BY <2>1, <2>5, <2>6, <2>7, <2>8 DEF w
<1>6. StrangersInv'
  BY <1>3 DEF HubInv, StrangersInv
<1> QED
  BY <1>4, <1>5, <1>6

\* Usage grows with the counters and the series, and when a key is registered.
LEMMA GrowsThen ==
  ASSUME StoreInv, Numbers, StoreInv', Numbers', UNCHANGED users,
         \A u \in Shared(users) : /\ ser[u] <= ser'[u] /\ ctr[users[u].name] <= ctr'[users[u].name]
                                  /\ subj'[u] = subj[u] \/ subj[u] = NoName
  PROVE  UsageGrows
<1> SUFFICES ASSUME NEW u \in Shared(users)
             PROVE  SubjectUsage(u) \in Nat /\ SubjectUsage(u)' \in Nat /\ SubjectUsage(u) <= SubjectUsage(u)'
  BY DEF UsageGrows
<1> DEFINE n == users[u].name
<1>1. /\ ser[u] \in Nat /\ ctr[n] \in Nat /\ ser[u] <= ctr[n] /\ u \in UserIds /\ n \in Names
      /\ SubjectUsage(u) = IF subj[u] = NoName THEN ser[u] ELSE ctr[n]
  BY UsageIs
<1>2. /\ ser'[u] \in Nat /\ ctr'[n] \in Nat /\ ser'[u] <= ctr'[n]
      /\ subj'[u] = NoName \/ subj'[u] = n
  <2>1. Shared(users)' = Shared(users) /\ users'[u] = users[u] /\ u \in DOMAIN users
    BY DEF Shared
  <2> QED
    BY <1>1, <2>1 DEF StoreInv, Numbers
<1>3. SubjectUsage(u)' = IF subj'[u] = NoName THEN ser'[u] ELSE Max({ctr'[subj'[u]], ser'[u]})
  BY DEF SubjectUsage
<1>4. Max({ctr'[n], ser'[u]}) = ctr'[n]
  BY <1>2, MaxOfTwo
<1>5. /\ ser[u] <= ser'[u] /\ ctr[n] <= ctr'[n]
      /\ subj'[u] = subj[u] \/ subj[u] = NoName
  OBVIOUS
<1> HIDE DEF n
<1>6. SubjectUsage(u)' = IF subj'[u] = NoName THEN ser'[u] ELSE ctr'[n]
  BY <1>2, <1>3, <1>4
<1> QED
  BY <1>1, <1>2, <1>5, <1>6

\* Steps that leave store, tracker and flush alone.
LEMMA StoreFrame ==
  ASSUME StoreInv, CarriedInv, Numbers, UNCHANGED <<live, ctr, ser, subj, disk, carried, crashes>>,
         Distinct(users'), Kin(users, users'), job'[Flusher] = job[Flusher], pc'[Flusher] = pc[Flusher]
  PROVE  /\ StoreInv' /\ CarriedInv'
         /\ \A u \in Shared(users) : SubjectUsage(u)' = SubjectUsage(u) /\ SubjectUsage(u) \in Nat
<1>1. CarriedInv'
  BY DEF CarriedInv, InFlight
<1>2. Shared(users)' = Shared(users') /\ Shared(users') = Shared(users) /\ DOMAIN users' = DOMAIN users
      /\ \A u \in DOMAIN users : users'[u].name = users[u].name
  BY DEF Kin, Shared
<1>3. \A u \in Shared(users) : u \in DOMAIN users
  BY DEF Shared
<1>4. StoreInv'
  <2>1. Distinct(users)'
    BY DEF Distinct, Shared
  <2> QED
    BY <1>2, <1>3, <2>1 DEF StoreInv
<1>5. \A u \in Shared(users) : SubjectUsage(u)' = SubjectUsage(u)
  BY DEF SubjectUsage
<1>6. \A u \in Shared(users) : SubjectUsage(u) \in Nat
  BY UsageIs
<1> QED
  BY <1>1, <1>4, <1>5, <1>6

\* A goroutine's fields after it has moved on in a reset.
LEMMA ResetFields ==
  ASSUME NEW j, Locals(j), NEW z, NEW k
  PROVE  LET n == [j EXCEPT !.zero = z, !.keys = k]
             m == [j EXCEPT !.keys = k]
         IN  /\ n.zero = z /\ n.keys = k /\ n.then = j.then /\ n.afterZero = j.afterZero /\ n.set = j.set
             /\ m.zero = j.zero /\ m.keys = k /\ m.then = j.then /\ m.afterZero = j.afterZero /\ m.set = j.set
<1>1. DOMAIN j = {"us", "upd", "fp", "zero", "set", "keys", "delta", "sdelta", "cfg", "then", "afterZero"}
  BY DEF Locals, NoJob
<1> QED
  BY <1>1

\* Only the goroutine t moves, and it rests.
LEMMA OneRests ==
  ASSUME NEW t \in Threads, Moved(t), pc'[t] \notin {"save", "lock"}, Harmless(users, pc'[t], job'[t])
  PROVE  \A d \in Threads : Rested(d)
BY DEF Moved, Rested

\* ZeroSubject discards the live bytes of a local user.
LEMMA ZeroHub ==
  ASSUME CountInv, HubInv, CountInv', NEW t \in Threads, t # Flusher, Zero(t)
  PROVE  HubInv'
<1>1. /\ UNCHANGED <<users, hub, carried, crashes, ctr, ser, subj, disk>> /\ Flusher \in Threads
      /\ \A k \in Names : live'[k] <= live[k]
  <2>1. UNCHANGED <<users, hub, carried, crashes>>
    BY DEF Zero, NoAccounts, accountVars, counts
  <2>2. CASE UNCHANGED trafficVars
    BY <2>1, <2>2 DEF trafficVars, Threads, CountInv, Numbers
  <2>3. CASE \E u : DiscardUserKeys(SubjectKeys(u))
    BY <2>1, <2>3 DEF DiscardUserKeys, Threads, CountInv, Numbers
  <2> QED
    BY <2>2, <2>3 DEF Zero
<1>2. Shape /\ Locals(job[t]) /\ Harmless(users, "zero", job[t]) /\ pc[t] = "zero"
  BY DEF CountInv, Shape, HubInv, SaversInv, Zero
<1>3. Moved(t) /\ pc'[t] \notin {"save", "lock"} /\ Harmless(users, pc'[t], job'[t])
  <2>1. CASE job[t].zero = {} /\ Goto(t, job[t].afterZero) /\ UNCHANGED <<job, trafficVars>>
    <3>1. Moved(t) /\ pc'[t] = job[t].afterZero /\ job'[t] = job[t]
      BY <1>2, <2>1, StillMoves
    <3> QED
      BY <1>2, <3>1 DEF Harmless
  <2>2. CASE \E u \in job[t].zero : job' = [job EXCEPT ![t].keys = SubjectKeys(u)] /\ Goto(t, "zeroStore")
    <3>1. PICK u \in job[t].zero : job' = [job EXCEPT ![t].keys = SubjectKeys(u)] /\ Goto(t, "zeroStore")
      BY <2>2
    <3> DEFINE j == [job[t] EXCEPT !.keys = SubjectKeys(u)]
    <3>2. job' = [job EXCEPT ![t] = j]
      BY <3>1
    <3>3. /\ j.keys = SubjectKeys(u) /\ j.then = job[t].then /\ j.afterZero = job[t].afterZero
          /\ j.set = job[t].set /\ j.zero = job[t].zero /\ Locals(j)
      <4>1. DOMAIN j = DOMAIN job[t]
        OBVIOUS
      <4>2. /\ j.keys = SubjectKeys(u) /\ j.then = job[t].then /\ j.afterZero = job[t].afterZero
            /\ j.set = job[t].set /\ j.zero = job[t].zero
        BY <1>2, ResetFields
      <4> HIDE DEF j
      <4> QED
        BY <1>2, <4>1, <4>2 DEF Locals
    <3> HIDE DEF j
    <3>4. Moved(t) /\ pc'[t] = "zeroStore"
      BY <1>2, <3>1, <3>2, <3>3, GotoMoves
    <3>5. job'[t] = j
      BY <1>2, <3>2 DEF Shape
    <3>6. u \in DOMAIN users /\ u \notin Shared(users) /\ u \in UserIds
      BY <1>2 DEF Harmless, HubInv, StoreInv, Distinct
    <3>7. \A x \in Shared(users) : users[x].name \notin SubjectKeys(u)
      BY <3>6 DEF SubjectKeys, HubInv, StoreInv, Distinct, Shared
    <3> QED
      BY <1>2, <3>3, <3>4, <3>5, <3>7 DEF Harmless
  <2> QED
    BY <2>1, <2>2 DEF Zero
<1>4. job'[Flusher] = job[Flusher] /\ pc'[Flusher] = pc[Flusher]
  BY <1>1, <1>3 DEF Moved
<1>5. StoreInv'
  BY <1>1, <1>4 DEF HubInv, StoreInv, Distinct, Shared
<1>6. CarriedInv'
  <2>1. live \in [Names -> Nat] /\ live' \in [Names -> Nat] /\ ctr \in [Names -> Nat]
        /\ \A k \in Names : InFlight(k) \in Nat
    BY DEF CountInv, Numbers, InFlight
  <2>2. carried \in Nat /\ crashes \in Nat /\ \A k \in Names : ctr[k] + live[k] + InFlight(k) <= carried /\ disk.ctr[k] <= carried
    BY DEF HubInv, CarriedInv
  <2>3. \A k \in Names : InFlight(k)' = InFlight(k)
    BY <1>4 DEF InFlight
  <2>4. ASSUME NEW k \in Names PROVE ctr'[k] + live'[k] + InFlight(k)' <= carried
    BY <1>1, <2>1, <2>2, <2>3
  <2> QED
    BY <1>1, <2>2, <2>4 DEF CarriedInv
<1>7. UsageGrows
  <2>1. \A u \in Shared(users) : ser[u] \in Nat /\ ctr[users[u].name] \in Nat
    BY UsageIs DEF HubInv, CountInv
  <2> QED
    BY <1>1, <1>5, <2>1, GrowsThen DEF HubInv, CountInv
<1> QED
  BY <1>1, <1>3, <1>5, <1>6, <1>7, OneRests, RestKeeps DEF HubInv

\* A reset of a local user leaves the counters of shared ones alone.
LEMMA ZeroStoreHub ==
  ASSUME CountInv, HubInv, CountInv', Undisturbed, NEW t \in Threads, t # Flusher, ZeroStore(t)
  PROVE  HubInv'
<1> DEFINE K == job[t].keys
<1>1. UNCHANGED <<users, hub, carried, crashes>> /\ Flusher \in Threads /\ pc[t] = "zeroStore"
  BY DEF ZeroStore, NoAccounts, accountVars, Threads
<1>2. Shape /\ Locals(job[t]) /\ Harmless(users, "zeroStore", job[t]) /\ \A x \in Shared(users) : users[x].name \notin K
  BY <1>1 DEF CountInv, Shape, HubInv, SaversInv, Harmless
<1>3. PICK u \in job[t].zero, ok \in BOOLEAN :
        /\ IF ok THEN Ok("counters") ELSE Fails("counters")
        /\ ZeroSubjectKeys(u, K, ok)
        /\ \/ Goto(t, "setSeries") /\ UNCHANGED job
           \/ Goto(t, "zero") /\ job' = [job EXCEPT ![t].zero = @ \ {u}, ![t].keys = {}]
  BY DEF ZeroStore
<1>4. Moved(t) /\ pc'[t] \notin {"save", "lock"} /\ Harmless(users, pc'[t], job'[t])
  <2>1. CASE Goto(t, "setSeries") /\ UNCHANGED job
    <3>1. Moved(t) /\ pc'[t] = "setSeries" /\ job'[t] = job[t]
      BY <1>2, <2>1, StillMoves
    <3> QED
      BY <1>2, <3>1 DEF Harmless
  <2>2. CASE Goto(t, "zero") /\ job' = [job EXCEPT ![t].zero = @ \ {u}, ![t].keys = {}]
    <3> DEFINE j == [job[t] EXCEPT !.zero = job[t].zero \ {u}, !.keys = {}]
    <3>1. job' = [job EXCEPT ![t] = j]
      BY <2>2
    <3>2. DOMAIN j = DOMAIN job[t]
      OBVIOUS
    <3>3. /\ j.zero = job[t].zero \ {u} /\ j.then = job[t].then /\ j.afterZero = job[t].afterZero
          /\ j.set = job[t].set
      BY <1>2, ResetFields
    <3> HIDE DEF j
    <3>4. Locals(j)
      BY <1>2, <3>2, <3>3 DEF Locals
    <3>5. Moved(t) /\ pc'[t] = "zero" /\ job'[t] = j
      BY <1>2, <2>2, <3>1, <3>4, GotoMoves DEF Shape
    <3> QED
      BY <1>2, <3>3, <3>5 DEF Harmless
  <2> QED
    BY <1>3, <2>1, <2>2
<1>5. job'[Flusher] = job[Flusher] /\ pc'[Flusher] = pc[Flusher]
  BY <1>1, <1>4 DEF Moved
<1>6. /\ ctr' = [k \in Names |-> IF k \in K THEN 0 ELSE ctr[k]] /\ ser' = [ser EXCEPT ![u] = 0]
      /\ disk' = (IF ok THEN [disk EXCEPT !.ctr = ctr', !.ser = ser'] ELSE disk)
      /\ UNCHANGED <<live, subj>>
      /\ "counters" \notin Faults => ok
  BY <1>3 DEF ZeroSubjectKeys, Fails
<1> HIDE DEF K
<1>7. u \notin Shared(users)
  BY <1>2 DEF Harmless
<1>8. disk'.ctr \in {disk.ctr, ctr'} /\ disk'.subj = disk.subj /\ (ok => disk'.ctr = ctr' /\ disk'.ser = ser')
  <2>1. DOMAIN disk = {"ctr", "ser", "subj"}
    BY DEF CountInv, Numbers
  <2> QED
    BY <1>6, <2>1
<1>9. \A x \in Shared(users) : ser'[x] = ser[x] /\ ctr'[users[x].name] = ctr[users[x].name]
                               /\ ser[x] \in Nat /\ ctr[users[x].name] \in Nat
  <2>1. \A x \in Shared(users) : x \in UserIds /\ users[x].name \in Names /\ ser[x] \in Nat /\ ctr[users[x].name] \in Nat
    BY UsageIs DEF HubInv, CountInv
  <2>2. ser \in [UserIds -> Nat]
    BY DEF HubInv, StoreInv
  <2> QED
    BY <1>2, <1>6, <1>7, <2>1, <2>2
<1>10. StoreInv'
  <2>1. ser' \in [UserIds -> Nat]
    BY <1>6 DEF HubInv, StoreInv
  <2>2. \A x \in Shared(users) : /\ ser'[x] <= ctr'[users[x].name]
                                 /\ pc'[Flusher] = "write" => job'[Flusher].sdelta[x] <= job'[Flusher].delta[users[x].name]
    BY <1>5, <1>9 DEF HubInv, StoreInv
  <2>3. "counters" \notin Faults => disk'.ctr = ctr' /\ disk'.ser = ser'
    BY <1>6, <1>8
  <2>4. disk'.subj = subj' /\ job'[Flusher].sdelta \in [UserIds -> Nat] /\ Distinct(users)'
    BY <1>1, <1>5, <1>6, <1>8 DEF HubInv, StoreInv, Distinct, Shared
  <2> QED
    BY <1>1, <1>6, <2>1, <2>2, <2>3, <2>4 DEF HubInv, StoreInv, Shared
<1>11. CarriedInv'
  <2>1. live \in [Names -> Nat] /\ ctr \in [Names -> Nat] /\ ctr' \in [Names -> Nat] /\ \A k \in Names : InFlight(k) \in Nat
    BY DEF CountInv, Numbers, InFlight
  <2>2. carried \in Nat /\ crashes \in Nat /\ \A k \in Names : ctr[k] + live[k] + InFlight(k) <= carried /\ disk.ctr[k] <= carried
    BY DEF HubInv, CarriedInv
  <2>3. \A k \in Names : InFlight(k)' = InFlight(k) /\ ctr'[k] <= ctr[k] /\ live'[k] = live[k]
    BY <1>5, <1>6, <2>1 DEF InFlight
  <2>4. ASSUME NEW k \in Names PROVE ctr'[k] + live'[k] + InFlight(k)' <= carried /\ disk'.ctr[k] <= carried
    <3>1. ctr'[k] + live'[k] + InFlight(k)' <= carried /\ ctr'[k] <= carried
      BY <2>1, <2>2, <2>3
    <3> QED
      BY <1>8, <2>2, <3>1
  <2> QED
    BY <1>1, <2>2, <2>4 DEF CarriedInv
<1>12. UsageGrows
  BY <1>1, <1>6, <1>9, <1>10, GrowsThen DEF HubInv, CountInv
<1> QED
  BY <1>1, <1>4, <1>10, <1>11, <1>12, OneRests, RestKeeps DEF HubInv

\* Nor does storing the absolute usage of a local user.
LEMMA SetSeriesHub ==
  ASSUME CountInv, HubInv, CountInv', Undisturbed, NEW t \in Threads, t # Flusher, SetSeries(t)
  PROVE  HubInv'
<1>1. UNCHANGED <<users, hub, carried, crashes>> /\ Flusher \in Threads /\ pc[t] = "setSeries"
  BY DEF SetSeries, NoAccounts, accountVars, Threads
<1>2. Shape /\ Locals(job[t]) /\ Harmless(users, "setSeries", job[t])
  BY <1>1 DEF CountInv, Shape, HubInv, SaversInv
<1>3. PICK u \in job[t].zero, ok \in BOOLEAN :
        /\ IF ok THEN Ok("counters") ELSE Fails("counters")
        /\ ApplySamples(Zeros, [[x \in UserIds |-> 0] EXCEPT ![u] = job[t].set], ok)
  BY DEF SetSeries
<1>4. Moved(t) /\ pc'[t] \notin {"save", "lock"} /\ Harmless(users, pc'[t], job'[t])
  <2> DEFINE j == [job[t] EXCEPT !.zero = {}, !.keys = {}]
  <2>1. job' = [job EXCEPT ![t] = j] /\ Goto(t, "zero")
    BY DEF SetSeries
  <2>2. DOMAIN j = DOMAIN job[t]
    OBVIOUS
  <2>3. /\ j.zero = {} /\ j.then = job[t].then /\ j.afterZero = job[t].afterZero
        /\ j.set = job[t].set
    BY <1>2, ResetFields
  <2> HIDE DEF j
  <2>4. Locals(j)
    BY <1>2, <2>2, <2>3 DEF Locals
  <2>5. Moved(t) /\ pc'[t] = "zero" /\ job'[t] = j
    BY <1>2, <2>1, <2>4, GotoMoves DEF Shape
  <2> QED
    BY <1>2, <2>3, <2>5 DEF Harmless
<1>5. job'[Flusher] = job[Flusher] /\ pc'[Flusher] = pc[Flusher]
  BY <1>1, <1>4 DEF Moved
<1> DEFINE d == [[x \in UserIds |-> 0] EXCEPT ![u] = job[t].set]
<1>6. /\ ctr' = [k \in Names |-> ctr[k] + Zeros[k]] /\ ser' = [x \in UserIds |-> ser[x] + d[x]]
      /\ disk' = (IF ok THEN [disk EXCEPT !.ctr = ctr', !.ser = ser'] ELSE disk)
      /\ UNCHANGED <<live, subj>>
      /\ "counters" \notin Faults => ok
  BY <1>3 DEF ApplySamples, Fails
<1>7. /\ u \notin Shared(users) /\ job[t].set \in Nat
      /\ \A x \in UserIds : d[x] \in Nat /\ (x # u => d[x] = 0)
  BY <1>2 DEF Harmless
<1> HIDE DEF d
<1>8. disk'.ctr \in {disk.ctr, ctr'} /\ disk'.subj = disk.subj /\ (ok => disk'.ctr = ctr' /\ disk'.ser = ser')
  <2>1. DOMAIN disk = {"ctr", "ser", "subj"}
    BY DEF CountInv, Numbers
  <2> QED
    BY <1>6, <2>1
<1>9. /\ ser' \in [UserIds -> Nat] /\ ctr' = ctr
      /\ \A x \in Shared(users) : ser'[x] = ser[x] /\ ser[x] \in Nat /\ ctr[users[x].name] \in Nat
  <2>1. \A x \in Shared(users) : x \in UserIds /\ ser[x] \in Nat /\ ctr[users[x].name] \in Nat
    BY UsageIs DEF HubInv, CountInv
  <2>2. ser \in [UserIds -> Nat] /\ ctr \in [Names -> Nat]
    BY DEF HubInv, StoreInv, CountInv, Numbers
  <2>3. ser' \in [UserIds -> Nat]
    BY <1>6, <1>7, <2>2
  <2>4. ctr' = ctr
    BY <1>6, <2>2 DEF Zeros
  <2>5. ASSUME NEW x \in Shared(users) PROVE ser'[x] = ser[x]
    BY <1>6, <1>7, <2>1
  <2> QED
    BY <2>1, <2>3, <2>4, <2>5
<1>10. StoreInv'
  <2>2. \A x \in Shared(users) : /\ ser'[x] <= ctr'[users[x].name]
                                 /\ pc'[Flusher] = "write" => job'[Flusher].sdelta[x] <= job'[Flusher].delta[users[x].name]
    BY <1>5, <1>9 DEF HubInv, StoreInv
  <2>3. "counters" \notin Faults => disk'.ctr = ctr' /\ disk'.ser = ser'
    BY <1>6, <1>8
  <2>4. disk'.subj = subj' /\ job'[Flusher].sdelta \in [UserIds -> Nat] /\ Distinct(users)'
    BY <1>1, <1>5, <1>6, <1>8 DEF HubInv, StoreInv, Distinct, Shared
  <2> QED
    BY <1>1, <1>6, <1>9, <2>2, <2>3, <2>4 DEF HubInv, StoreInv, Shared
<1>11. CarriedInv'
  <2>1. live \in [Names -> Nat] /\ ctr \in [Names -> Nat] /\ \A k \in Names : InFlight(k) \in Nat
    BY DEF CountInv, Numbers, InFlight
  <2>2. carried \in Nat /\ crashes \in Nat /\ \A k \in Names : ctr[k] + live[k] + InFlight(k) <= carried /\ disk.ctr[k] <= carried
    BY DEF HubInv, CarriedInv
  <2>3. \A k \in Names : InFlight(k)' = InFlight(k) /\ ctr'[k] = ctr[k] /\ live'[k] = live[k]
    BY <1>5, <1>6, <1>9 DEF InFlight
  <2>4. ASSUME NEW k \in Names PROVE ctr'[k] + live'[k] + InFlight(k)' <= carried /\ disk'.ctr[k] <= carried
    <3>1. ctr'[k] + live'[k] + InFlight(k)' <= carried /\ ctr'[k] <= carried
      BY <2>1, <2>2, <2>3
    <3> QED
      BY <1>8, <2>2, <3>1
  <2> QED
    BY <1>1, <2>2, <2>4 DEF CarriedInv
<1>12. UsageGrows
  BY <1>1, <1>6, <1>9, <1>10, GrowsThen DEF HubInv, CountInv
<1> QED
  BY <1>1, <1>4, <1>10, <1>11, <1>12, OneRests, RestKeeps DEF HubInv

\* Who is done has nothing more to do.
LEMMA NoJobHarmless ==
  /\ DOMAIN NoJob = {"us", "upd", "fp", "zero", "set", "keys", "delta", "sdelta", "cfg", "then", "afterZero"}
  /\ NoJob.delta = Zeros /\ NoJob.sdelta = [u \in UserIds |-> 0] /\ NoJob.sdelta \in [UserIds -> Nat]
  /\ \A us, l, c : l # "zeroStore" => Harmless(us, l, NoJob) /\ Harmless(us, l, [NoJob EXCEPT !.cfg = c])
BY DEF NoJob, Harmless

\* A flush moves what was carried from the tracker to its samples, and to counters and series alike.
LEMMA FlushHub ==
  ASSUME CountInv, HubInv, CountInv', Undisturbed, FlushStep
  PROVE  HubInv'
<1> DEFINE j == job[Flusher]
           i == job'[Flusher]
<1>1. UNCHANGED <<users, hub, carried, crashes>> /\ Flusher \in Threads
  BY DEF FlushStep, FlushSwap, FlushSamples, FlushWrite, NoAccounts, accountVars, counts, Threads
<1>2. /\ Shape /\ Locals(j) /\ Harmless(users, pc[Flusher], j)
      /\ live \in [Names -> Nat] /\ ctr \in [Names -> Nat] /\ j.delta \in [Names -> Nat]
      /\ DOMAIN j = {"us", "upd", "fp", "zero", "set", "keys", "delta", "sdelta", "cfg", "then", "afterZero"}
      /\ DOMAIN disk = {"ctr", "ser", "subj"}
      /\ (pc[Flusher] = "idle" => j.delta = Zeros)
  BY <1>1, NoJobHarmless DEF CountInv, Shape, Locals, HubInv, SaversInv, Numbers, FlushInv
<1>3. /\ ser \in [UserIds -> Nat] /\ j.sdelta \in [UserIds -> Nat] /\ subj \in [UserIds -> Names \cup {NoName}]
      /\ \A u \in UserIds : subj[u] # NoName => u \in DOMAIN users /\ subj[u] = users[u].name
      /\ disk.subj = subj /\ Distinct(users) /\ ("counters" \notin Faults => disk.ctr = ctr /\ disk.ser = ser)
      /\ \A u \in Shared(users) :
           /\ u \in UserIds /\ users[u].name \in Names /\ ser[u] <= ctr[users[u].name]
           /\ pc[Flusher] = "write" => j.sdelta[u] <= j.delta[users[u].name]
  BY UsageIs DEF HubInv, StoreInv, CountInv
<1>4. carried \in Nat /\ crashes \in Nat /\ \A k \in Names : ctr[k] + live[k] + j.delta[k] <= carried /\ disk.ctr[k] <= carried
  BY DEF HubInv, CarriedInv, InFlight
<1> DEFINE Stores ==
             /\ ser' \in [UserIds -> Nat] /\ i.sdelta \in [UserIds -> Nat] /\ subj' = subj /\ disk'.subj = subj
             /\ \A u \in Shared(users) :
                  /\ ser[u] <= ser'[u] /\ ctr[users[u].name] <= ctr'[users[u].name] /\ ser'[u] <= ctr'[users[u].name]
                  /\ pc'[Flusher] = "write" => i.sdelta[u] <= i.delta[users[u].name]
             /\ "counters" \notin Faults => disk'.ctr = ctr' /\ disk'.ser = ser'
             /\ \A k \in Names : ctr'[k] + live'[k] + i.delta[k] <= carried /\ disk'.ctr[k] <= carried
           Moves ==
             /\ DOMAIN pc' = Threads /\ DOMAIN job' = Threads
             /\ \A d \in Threads \ {Flusher} : pc'[d] = pc[d] /\ job'[d] = job[d]
             /\ pc'[Flusher] \notin {"save", "lock"} /\ Harmless(users, pc'[Flusher], i)
<1>5. SUFFICES Stores /\ Moves
  <2>1. ASSUME Stores, Moves PROVE HubInv'
    <3>1. Shared(users)' = Shared(users) /\ Distinct(users)'
      BY <1>1, <1>3 DEF Shared, Distinct
    <3>2. StoreInv'
      BY <1>1, <1>3, <2>1, <3>1 DEF StoreInv
    <3>3. CarriedInv'
      BY <1>1, <1>4, <2>1 DEF CarriedInv, InFlight
    <3>4. UsageGrows
      BY <1>1, <2>1, <3>2, GrowsThen DEF HubInv, CountInv
    <3>5. \A d \in Threads : Rested(d)
      BY <2>1 DEF Rested
    <3> QED
      BY <1>1, <3>2, <3>3, <3>4, <3>5, RestKeeps DEF HubInv
  <2> QED
    BY <2>1
<1>6. \A u \in Shared(users) : ser[u] \in Nat /\ ctr[users[u].name] \in Nat /\ j.delta[users[u].name] \in Nat /\ j.sdelta[u] \in Nat
  BY <1>2, <1>3
<1>7. CASE FlushSwap
  <2>1. /\ job' = [job EXCEPT ![Flusher].delta = live] /\ pc' = [pc EXCEPT ![Flusher] = "samples"]
        /\ live' = Zeros /\ UNCHANGED <<ctr, ser, subj, disk>> /\ pc[Flusher] = "idle"
    BY <1>7 DEF FlushSwap, SwapDeltas, Goto
  <2>2. i = [j EXCEPT !.delta = live] /\ \A d \in Threads \ {Flusher} : pc'[d] = pc[d] /\ job'[d] = job[d]
    BY <1>1, <1>2, <2>1 DEF Shape
  <2>3. /\ i.delta = live /\ i.sdelta = j.sdelta /\ i.then = j.then /\ i.afterZero = j.afterZero
        /\ i.set = j.set /\ i.zero = j.zero
    BY <1>2, <2>2
  <2>4. pc'[Flusher] = "samples" /\ DOMAIN pc' = Threads /\ DOMAIN job' = Threads
    BY <1>1, <1>2, <2>1 DEF Shape
  <2> HIDE DEF i, j
  <2>5. \A k \in Names : ctr'[k] + live'[k] + i.delta[k] <= carried
    BY <1>2, <1>4, <2>1, <2>3 DEF Zeros
  <2>6. Harmless(users, "samples", i)
    BY <1>2, <2>3 DEF Harmless
  <2> QED
    BY <1>3, <1>4, <1>6, <2>1, <2>2, <2>3, <2>4, <2>5, <2>6
<1>8. CASE FlushSamples
  <2>1. /\ job' = [job EXCEPT ![Flusher].sdelta = SubjectDeltas(j.delta)] /\ pc' = [pc EXCEPT ![Flusher] = "write"]
        /\ UNCHANGED <<live, ctr, ser, subj, disk>>
    BY <1>8 DEF FlushSamples, NoTraffic, trafficVars, Goto
  <2>2. i = [j EXCEPT !.sdelta = SubjectDeltas(j.delta)] /\ \A d \in Threads \ {Flusher} : pc'[d] = pc[d] /\ job'[d] = job[d]
    BY <1>1, <1>2, <2>1 DEF Shape
  <2>3. /\ i.delta = j.delta /\ i.sdelta = SubjectDeltas(j.delta) /\ i.then = j.then /\ i.afterZero = j.afterZero
        /\ i.set = j.set /\ i.zero = j.zero
    BY <1>2, <2>2
  <2>4. pc'[Flusher] = "write" /\ DOMAIN pc' = Threads /\ DOMAIN job' = Threads
    BY <1>1, <1>2, <2>1 DEF Shape
  <2> HIDE DEF i, j
  <2>5. /\ SubjectDeltas(j.delta) \in [UserIds -> Nat]
        /\ \A u \in Shared(users) : SubjectDeltas(j.delta)[u] <= j.delta[users[u].name]
    BY <1>2, <1>3 DEF SubjectDeltas
  <2>6. Harmless(users, "write", i)
    BY <1>2, <2>3 DEF Harmless
  <2> QED
    BY <1>3, <1>4, <1>6, <2>1, <2>2, <2>3, <2>4, <2>5, <2>6
<1>9. CASE FlushWrite
  <2>1. PICK ok \in BOOLEAN :
          /\ IF ok THEN Ok("counters") ELSE Fails("counters")
          /\ ApplySamples(j.delta, j.sdelta, ok)
    BY <1>9 DEF FlushWrite
  <2>2. /\ ctr' = [k \in Names |-> ctr[k] + j.delta[k]] /\ ser' = [u \in UserIds |-> ser[u] + j.sdelta[u]]
        /\ disk' = (IF ok THEN [disk EXCEPT !.ctr = ctr', !.ser = ser'] ELSE disk)
        /\ UNCHANGED <<live, subj>> /\ ("counters" \notin Faults => ok)
    BY <2>1 DEF ApplySamples, Fails
  <2>3. /\ job' = [job EXCEPT ![Flusher] = NoJob] /\ pc' = [pc EXCEPT ![Flusher] = "idle"] /\ pc[Flusher] = "write"
    BY <1>9 DEF FlushWrite, Done, Goto
  <2>4. /\ i = NoJob /\ \A d \in Threads \ {Flusher} : pc'[d] = pc[d] /\ job'[d] = job[d]
        /\ pc'[Flusher] = "idle" /\ DOMAIN pc' = Threads /\ DOMAIN job' = Threads
    BY <1>1, <1>2, <2>3 DEF Shape
  <2>5. disk'.ctr \in {disk.ctr, ctr'} /\ disk'.subj = disk.subj /\ (ok => disk'.ctr = ctr' /\ disk'.ser = ser')
    BY <1>2, <2>2
  <2> HIDE DEF i, j
  <2>6. ser' \in [UserIds -> Nat]
    BY <1>3, <2>2
  <2>7. \A u \in Shared(users) :
          ser[u] <= ser'[u] /\ ctr[users[u].name] <= ctr'[users[u].name] /\ ser'[u] <= ctr'[users[u].name]
    BY <1>3, <1>6, <2>2, <2>3
  <2>8. ASSUME NEW k \in Names PROVE ctr'[k] + live'[k] + i.delta[k] <= carried /\ disk'.ctr[k] <= carried
    <3>1. i.delta[k] = 0 /\ ctr'[k] = ctr[k] + j.delta[k] /\ live'[k] = live[k]
      BY <2>2, <2>4, NoJobHarmless DEF Zeros
    <3>2. ctr'[k] + live'[k] + i.delta[k] <= carried /\ ctr'[k] <= carried
      BY <1>2, <1>4, <3>1
    <3> QED
      BY <1>4, <2>5, <3>2
  <2>9. Harmless(users, "idle", i) /\ i.sdelta \in [UserIds -> Nat]
    BY <2>4, NoJobHarmless
  <2> QED
    BY <1>3, <2>2, <2>4, <2>5, <2>6, <2>7, <2>8, <2>9
<1> QED
  BY <1>7, <1>8, <1>9 DEF FlushStep

\* A byte that is carried may be counted.
LEMMA CarryHub ==
  ASSUME CountInv, HubInv, CountInv', Carry
  PROVE  HubInv'
<1>1. /\ UNCHANGED <<users, hub, ctr, ser, subj, disk, pc, job, crashes>> /\ carried' = carried + 1
      /\ Flusher \in Threads
  BY DEF Carry, Count, NoAccounts, accountVars, Threads
<1>2. PICK n : live' = [live EXCEPT ![n] = @ + 1]
  BY DEF Carry, Count
<1>3. StoreInv'
  BY <1>1 DEF HubInv, StoreInv, Distinct, Shared
<1>4. CarriedInv'
  <2>1. live \in [Names -> Nat] /\ ctr \in [Names -> Nat] /\ \A k \in Names : InFlight(k) \in Nat /\ InFlight(k)' = InFlight(k)
    BY <1>1 DEF CountInv, Numbers, InFlight
  <2>2. carried \in Nat /\ crashes \in Nat /\ \A k \in Names : ctr[k] + live[k] + InFlight(k) <= carried /\ disk.ctr[k] <= carried
    BY DEF HubInv, CarriedInv
  <2>3. disk.ctr \in [Names -> Nat]
    BY DEF CountInv, Numbers
  <2>4. ASSUME NEW k \in Names PROVE ctr[k] + live'[k] + InFlight(k)' <= carried' /\ disk.ctr[k] <= carried'
    <3>1. live'[k] <= live[k] + 1 /\ live'[k] \in Nat
      BY <1>2, <2>1
    <3>2. disk.ctr[k] \in Nat /\ disk.ctr[k] <= carried /\ carried' = carried + 1
      BY <1>1, <2>2, <2>3
    <3> QED
      BY <2>1, <2>2, <3>1, <3>2
  <2> QED
    BY <1>1, <2>2, <2>4 DEF CarriedInv
<1>5. UsageGrows
  <2>1. \A u \in Shared(users) : ser[u] \in Nat /\ ctr[users[u].name] \in Nat
    BY UsageIs DEF HubInv, CountInv
  <2> QED
    BY <1>1, <1>3, <2>1, GrowsThen DEF HubInv, CountInv
<1> QED
  BY <1>1, <1>3, <1>4, <1>5, RestKeeps DEF HubInv, Rested

\* A restart finds the counters that were counted, where their file is always written.
LEMMA CrashHub ==
  ASSUME CountInv, HubInv, CountInv', Undisturbed, Crash
  PROVE  HubInv'
<1>1. /\ UNCHANGED <<users, hub, carried, disk>> /\ crashes' = crashes + 1
      /\ Flusher \in Threads /\ live' = Zeros /\ ctr' = disk.ctr /\ ser' = disk.ser /\ subj' = disk.subj
      /\ \A d \in Threads : pc'[d] = "idle" /\ job'[d] = NoJob
  BY DEF Crash, TrafficRestart, Threads
<1>2. disk.ctr = ctr /\ disk.ser = ser /\ disk.subj = subj
  <2>1. crashes \in Nat /\ crashes < MaxCrashes
    BY DEF Crash, HubInv, CarriedInv
  <2>2. "counters" \notin Faults
    BY <2>1 DEF Undisturbed
  <2> QED
    BY <2>2 DEF HubInv, StoreInv
<1>3. StoreInv'
  BY <1>1, <1>2, NoJobHarmless DEF HubInv, StoreInv, Distinct, Shared
<1>4. CarriedInv'
  <2>1. \A k \in Names : live'[k] = 0 /\ InFlight(k)' = 0 /\ disk.ctr[k] \in Nat
    BY <1>1, NoJobHarmless DEF Zeros, InFlight, CountInv, Numbers
  <2>2. carried \in Nat /\ crashes \in Nat /\ \A k \in Names : disk.ctr[k] <= carried
    BY DEF HubInv, CarriedInv
  <2>3. \A k \in Names : ctr'[k] + live'[k] + InFlight(k)' <= carried
    BY <1>1, <2>1, <2>2
  <2>4. crashes' \in Nat
    BY <1>1, <2>2
  <2> QED
    BY <1>1, <2>2, <2>3, <2>4 DEF CarriedInv
<1>5. UsageGrows
  <2>1. \A u \in Shared(users) : ser[u] \in Nat /\ ctr[users[u].name] \in Nat
    BY UsageIs DEF HubInv, CountInv
  <2> QED
    BY <1>1, <1>2, <1>3, <2>1, GrowsThen DEF HubInv, CountInv
<1>6. \A d \in Threads : Rested(d)
  <2>1. Harmless(users, "idle", NoJob)
    BY NoJobHarmless
  <2> QED
    BY <1>1, <2>1 DEF Rested
<1> QED
  BY <1>1, <1>3, <1>4, <1>5, <1>6, RestKeeps DEF HubInv

\* Registering the keys shows the counters of who had none.
LEMMA PublishHub ==
  ASSUME CountInv, HubInv, CountInv', NEW t \in Threads, t # Flusher, Publish(t)
  PROVE  HubInv'
<1> DEFINE s == [u \in UserIds |-> IF u \in DOMAIN users THEN users[u].name ELSE NoName]
<1>1. /\ UNCHANGED <<users, hub, carried, crashes, live, ctr, ser>> /\ Flusher \in Threads
      /\ subj' = s /\ disk' = [disk EXCEPT !.subj = s] /\ Done(t) /\ Shape
  BY DEF Publish, RegisterManifest, counts, Threads, CountInv
<1>2. disk'.subj = s /\ disk'.ctr = disk.ctr /\ disk'.ser = disk.ser
  <2>1. DOMAIN disk = {"ctr", "ser", "subj"}
    BY DEF CountInv, Numbers
  <2> HIDE DEF s
  <2> QED
    BY <1>1, <2>1
<1>3. Moved(t) /\ pc'[t] = "idle" /\ job'[t] = NoJob
  BY <1>1, DoneMoves DEF Done, Shape
<1>4. job'[Flusher] = job[Flusher] /\ pc'[Flusher] = pc[Flusher]
  BY <1>1, <1>3 DEF Moved
<1>5. s \in [UserIds -> Names \cup {NoName}] /\ \A u \in UserIds : s[u] # NoName => u \in DOMAIN users /\ s[u] = users[u].name
  BY DEF HubInv, StoreInv, Distinct
<1>6. \A u \in Shared(users) : s[u] = users[u].name /\ (subj[u] = users[u].name \/ subj[u] = NoName)
                               /\ ser[u] \in Nat /\ ctr[users[u].name] \in Nat
  <2>1. \A u \in Shared(users) : u \in UserIds /\ u \in DOMAIN users
    BY UsageIs DEF HubInv, CountInv, Shared
  <2> QED
    BY <2>1, UsageIs DEF HubInv, CountInv
<1> HIDE DEF s
<1>7. StoreInv'
  BY <1>1, <1>2, <1>4, <1>5 DEF HubInv, StoreInv, Distinct, Shared
<1>8. CarriedInv'
  BY <1>1, <1>2, <1>4 DEF HubInv, CarriedInv, InFlight
<1>9. UsageGrows
  BY <1>1, <1>6, <1>7, GrowsThen DEF HubInv, CountInv
<1>10. \A d \in Threads : Rested(d)
  BY <1>3, NoJobHarmless, OneRests
<1> QED
  BY <1>1, <1>7, <1>8, <1>9, <1>10, RestKeeps DEF HubInv

\* Steps that neither count nor change users.
LEMMA QuietHub ==
  ASSUME CountInv, HubInv,
         UNCHANGED <<users, hub, carried, crashes, live, ctr, ser, subj, disk>>, \A d \in Threads : Rested(d),
         pc'[Flusher] = pc[Flusher], job'[Flusher] = job[Flusher]
  PROVE  HubInv'
<1>1. Distinct(users') /\ Kin(users, users')
  BY KinSelf DEF HubInv, StoreInv
<1>2. StoreInv' /\ CarriedInv' /\ \A u \in Shared(users) : SubjectUsage(u)' = SubjectUsage(u) /\ SubjectUsage(u) \in Nat
  BY <1>1, StoreFrame DEF HubInv, CountInv
<1>3. UsageGrows
  BY <1>2 DEF UsageGrows
<1> QED
  BY <1>2, <1>3, RestKeeps DEF HubInv

\* Where only t moves, and rests.
LEMMA QuietMove ==
  ASSUME CountInv, HubInv, NEW t \in Threads, t # Flusher, UNCHANGED <<users, hub, carried, crashes, trafficVars>>,
         Moved(t), pc'[t] \notin {"save", "lock"}, Harmless(users, pc'[t], job'[t])
  PROVE  HubInv'
<1>1. Flusher \in Threads /\ UNCHANGED <<live, ctr, ser, subj, disk>>
  BY DEF Threads, trafficVars
<1>2. pc'[Flusher] = pc[Flusher] /\ job'[Flusher] = job[Flusher]
  BY <1>1 DEF Moved
<1> QED
  BY <1>1, <1>2, OneRests, QuietHub

\* Checking the eligibility, building, applying.
LEMMA RebuildHub ==
  ASSUME CountInv, HubInv, NEW t \in Threads, t # Flusher, Check(t) \/ Remat(t) \/ Apply(t)
  PROVE  HubInv'
<1>1. UNCHANGED <<users, hub, carried, crashes, trafficVars>>
  BY DEF Check, Remat, Apply, NoTraffic, counts
<1>2. Shape /\ Locals(job[t]) /\ Harmless(users, pc[t], job[t])
  BY DEF CountInv, Shape, HubInv, SaversInv
<1>3. ASSUME Done(t) PROVE HubInv'
  <2>1. Moved(t) /\ pc'[t] = "idle" /\ job'[t] = NoJob
    BY <1>2, <1>3, DoneMoves DEF Done, Shape
  <2> QED
    BY <1>1, <2>1, NoJobHarmless, QuietMove
<1>4. ASSUME NEW l \in {"apply", "publish"}, Goto(t, l), NEW j, job' = [job EXCEPT ![t] = j], Locals(j), Harmless(users, l, j)
      PROVE  HubInv'
  <2>1. Moved(t) /\ pc'[t] = l /\ job'[t] = j
    BY <1>2, <1>4, GotoMoves DEF Shape
  <2> QED
    BY <1>1, <1>4, <2>1, QuietMove
<1>5. ASSUME Check(t), ~Done(t) PROVE HubInv'
  <2> DEFINE j == [job[t] EXCEPT !.cfg = Build(users)]
  <2>1. Goto(t, "apply") /\ job' = [job EXCEPT ![t] = j]
    BY <1>5 DEF Check
  <2>2. DOMAIN j = DOMAIN job[t] /\ DOMAIN job[t] = DOMAIN NoJob
    BY <1>2 DEF Locals
  <2>3. j.then = job[t].then /\ j.afterZero = job[t].afterZero /\ j.set = job[t].set /\ j.zero = job[t].zero
    BY <2>2, NoJobHarmless
  <2> HIDE DEF j
  <2>4. Locals(j) /\ Harmless(users, "apply", j)
    BY <1>2, <2>2, <2>3 DEF Locals, Harmless
  <2> QED
    BY <1>4, <2>1, <2>4
<1>6. CASE Remat(t)
  <2> DEFINE j == [NoJob EXCEPT !.cfg = Build(users)]
  <2>1. Goto(t, "apply") /\ job' = [job EXCEPT ![t] = j]
    BY <1>6 DEF Remat
  <2>2. Locals(j) /\ Harmless(users, "apply", j)
    BY NoJobHarmless, NoJobLocals
  <2> HIDE DEF j
  <2> QED
    BY <1>4, <2>1, <2>2
<1>7. ASSUME Apply(t), ~Done(t) PROVE HubInv'
  <2>1. Goto(t, "publish") /\ UNCHANGED job
    BY <1>7 DEF Apply
  <2>2. Moved(t) /\ pc'[t] = "publish" /\ job'[t] = job[t]
    BY <1>2, <2>1, StillMoves
  <2>3. Harmless(users, "publish", job[t])
    BY <1>2 DEF Harmless
  <2> QED
    BY <1>1, <2>2, <2>3, QuietMove
<1> QED
  BY <1>3, <1>5, <1>6, <1>7

\* The ticker finds nobody to reset.
LEMMA TickHub ==
  ASSUME CountInv, HubInv, Tick \/ TickFP
  PROVE  HubInv'
<1>1. Ticker \in Threads /\ Ticker # Flusher
  BY AccountsDistinct DEF Threads
<1>2. UNCHANGED <<users, hub, carried, crashes, trafficVars>>
  BY DEF Tick, TickFP, NoTraffic, counts
<1>3. Shape /\ Locals(job[Ticker]) /\ Harmless(users, pc[Ticker], job[Ticker])
  BY <1>1 DEF CountInv, Shape, HubInv, SaversInv
<1>4. CASE Tick
  <2>1. Due(users) = {}
    BY DEF Due, HubInv, StoreInv, Distinct
  <2>2. Goto(Ticker, "tickFP") /\ UNCHANGED job
    BY <1>4, <2>1 DEF Tick
  <2>3. Moved(Ticker) /\ pc'[Ticker] = "tickFP" /\ job'[Ticker] = job[Ticker]
    BY <1>1, <1>3, <2>2, StillMoves
  <2>4. Harmless(users, "tickFP", job[Ticker])
    BY <1>3 DEF Harmless
  <2> QED
    BY <1>1, <1>2, <2>3, <2>4, QuietMove
<1>5. CASE TickFP
  <2>1. job' = [job EXCEPT ![Ticker] = NoJob] /\ \E l \in {"idle", "remat"} : Goto(Ticker, l)
    BY <1>5 DEF TickFP, Done
  <2>2. PICK l \in {"idle", "remat"} : Goto(Ticker, l)
    BY <2>1
  <2>3. Moved(Ticker) /\ pc'[Ticker] = l /\ job'[Ticker] = NoJob
    BY <1>1, <1>3, <2>1, <2>2, NoJobLocals, GotoMoves DEF Shape
  <2>4. Harmless(users, l, NoJob)
    BY NoJobHarmless
  <2> QED
    BY <1>1, <1>2, <2>3, <2>4, QuietMove
<1> QED
  BY <1>4, <1>5

\* Another copy of the same users finds the same ones shared, and to be reset.
LEMMA KinHarmless ==
  ASSUME NEW us, NEW vs, Kin(us, vs), NEW l, NEW j, Harmless(us, l, j)
  PROVE  Harmless(vs, l, j)
<1>1. Shared(vs) = Shared(us) /\ DOMAIN vs = DOMAIN us /\ \A u \in Shared(us) : u \in DOMAIN us /\ vs[u].name = us[u].name
  BY DEF Kin, Shared
<1> QED
  BY <1>1 DEF Harmless

\* A handler that loads users.json for an edit knows what the hub has counted.
LEMMA EditHub ==
  ASSUME CountInv, HubInv, NEW h \in Handlers, \A a, b \in Handlers : a = b,
         NEW us, Kin(users, us), \A u \in Shared(users) : us[u].ingress = users[u].ingress,
         UNCHANGED <<users, hub, carried, crashes, trafficVars>>,
         Moved(h), pc'[h] = "save", job'[h].us = us, Harmless(users, "save", job'[h])
  PROVE  HubInv'
<1>1. h \in Threads /\ Flusher \in Threads /\ Bridge \in Threads /\ h # Flusher /\ h # Bridge /\ \A a \in Handlers : a = h
  BY AccountsAssumption DEF Threads
<1>2. /\ pc'[Flusher] = pc[Flusher] /\ job'[Flusher] = job[Flusher]
      /\ pc'[Bridge] = pc[Bridge] /\ job'[Bridge] = job[Bridge]
  BY <1>1 DEF Moved
<1>3. Distinct(users') /\ Kin(users, users') /\ Shared(users)' = Shared(users)
  BY KinSelf DEF HubInv, StoreInv, Shared
<1>4. StoreInv' /\ CarriedInv' /\ \A u \in Shared(users) : SubjectUsage(u)' = SubjectUsage(u) /\ SubjectUsage(u) \in Nat
  BY <1>2, <1>3, StoreFrame DEF HubInv, CountInv, trafficVars
<1>5. SaversInv'
  <2> SUFFICES ASSUME NEW d \in Threads
               PROVE  /\ pc'[d] = "save" => d \in Handlers \cup {Bridge} /\ Kin(users', job'[d].us)
                      /\ pc'[d] = "lock" => d = Bridge
                      /\ Harmless(users', pc'[d], job'[d])
    BY DEF SaversInv
  <2>1. users' = users
    OBVIOUS
  <2>2. CASE d = h
    BY <2>1, <2>2
  <2>3. CASE d # h
    <3>1. pc'[d] = pc[d] /\ job'[d] = job[d]
      BY <2>3 DEF Moved
    <3> QED
      BY <2>1, <3>1 DEF HubInv, SaversInv
  <2> QED
    BY <2>2, <2>3
<1>6. ASSUME NEW u \in Shared(users)
      PROVE  LET w == hub[users[u].sync]
             IN  /\ w.mark \in Nat /\ w.total = w.mark /\ w.epoch \in Nat /\ w.epoch <= users[u].epoch
                 /\ w.mark # 0 => w.epoch = users[u].epoch
                 /\ w.mark <= users[u].ingress /\ users[u].ingress <= SubjectUsage(u)'
                 /\ \A a \in Handlers : pc'[a] = "save" =>
                      w.mark <= job'[a].us[u].ingress /\ job'[a].us[u].ingress <= SubjectUsage(u)'
                 /\ pc'[Bridge] = "save" => Between(u, job[Bridge].us[u].ingress)'
                 /\ pc'[Bridge] = "lock" => u \in DOMAIN job'[Bridge].upd /\ Between(u, job[Bridge].upd[u])'
  <2> DEFINE w == hub[users[u].sync]
  <2>1. /\ w.mark \in Nat /\ w.total = w.mark /\ w.epoch \in Nat /\ w.epoch <= users[u].epoch
        /\ w.mark # 0 => w.epoch = users[u].epoch
        /\ w.mark <= users[u].ingress /\ users[u].ingress <= SubjectUsage(u)
        /\ pc[Bridge] = "save" => Between(u, job[Bridge].us[u].ingress)
        /\ pc[Bridge] = "lock" => u \in DOMAIN job[Bridge].upd /\ Between(u, job[Bridge].upd[u])
    BY DEF HubInv, ChainInv
  <2> HIDE DEF w
  <2>2. job'[h].us[u].ingress = users[u].ingress /\ SubjectUsage(u)' = SubjectUsage(u) /\ users' = users
    BY <1>4
  <2>3. pc'[Bridge] = "save" => Between(u, job[Bridge].us[u].ingress)'
    BY <1>1, <1>2, <2>1, <2>2 DEF Between
  <2>4. pc'[Bridge] = "lock" => u \in DOMAIN job'[Bridge].upd /\ Between(u, job[Bridge].upd[u])'
    BY <1>1, <1>2, <2>1, <2>2 DEF Between
  <2> QED
    BY <1>1, <2>1, <2>2, <2>3, <2>4 DEF w
<1>7. ChainInv'
  BY <1>3, <1>6 DEF ChainInv
<1>8. StrangersInv'
  BY <1>3 DEF HubInv, StrangersInv
<1> QED
  BY <1>4, <1>5, <1>7, <1>8 DEF HubInv

\* The user u as r is the same to the hub as before.
SameToHub(us, u, r) ==
  /\ Kin(us, [us EXCEPT ![u] = r]) /\ (SyncActive(r) <=> u \in Shared(us))
  /\ \A x \in Shared(us) : [us EXCEPT ![u] = r][x].ingress = us[x].ingress

\* What the requests that are made change of a user.
LEMMA EditsKin ==
  ASSUME NEW us, NEW n, Table(us, n), Distinct(us), NEW u \in DOMAIN us
  PROVE  /\ \A v : SameToHub(us, u, Patched(us[u], PatchUsed(us[u], v)))
         /\ SameToHub(us, u, Patched(us[u], [us[u] EXCEPT !.enabled = ~@]))
         /\ SameToHub(us, u, us[u])
<1> DEFINE old == us[u]
           Alike(r) == /\ SyncActive(r) <=> SyncActive(old)
                       /\ r.name = old.name /\ ~r.due
                       /\ SyncActive(r) => r.sync = old.sync /\ r.epoch = old.epoch /\ r.ingress = old.ingress
<1>1. IsUser(old) /\ ~old.due
  BY DEF Table, Distinct
<1>2. ASSUME NEW r, Alike(r) PROVE SameToHub(us, u, r)
  <2>1. /\ Kin(us, [us EXCEPT ![u] = r])
        /\ \A x \in Shared(us) : [us EXCEPT ![u] = r][x].ingress = us[x].ingress
    BY <1>2, KinEdit
  <2> QED
    BY <1>2, <2>1 DEF SameToHub, Shared
<1>3. ASSUME NEW x, Alike(x), DOMAIN x = DOMAIN old PROVE Alike(Patched(old, x))
  <2> DEFINE s == [x EXCEPT !.rev = x.rev + 1]
  <2>1. /\ s.name = x.name /\ s.due = x.due /\ s.sync = x.sync /\ s.epoch = x.epoch /\ s.ingress = x.ingress
        /\ s.deleted = x.deleted /\ s.mode = x.mode /\ s.syncOn = x.syncOn
    BY <1>1, <1>3 DEF IsUser
  <2> HIDE DEF s
  <2>2. SyncActive(s) <=> SyncActive(x)
    BY <2>1 DEF SyncActive
  <2>3. Patched(old, x) = s
    BY <1>3, <2>2 DEF Patched, s
  <2> QED
    BY <1>3, <2>1, <2>2, <2>3
<1>4. ASSUME NEW v PROVE Alike(PatchUsed(old, v)) /\ DOMAIN PatchUsed(old, v) = DOMAIN old
  BY <1>1 DEF PatchUsed, IsUser, SyncActive
<1>5. Alike([old EXCEPT !.enabled = ~@]) /\ DOMAIN [old EXCEPT !.enabled = ~@] = DOMAIN old
  BY <1>1 DEF IsUser, SyncActive
<1>6. Alike(old)
  BY <1>1
<1>7. \A v : Alike(Patched(old, PatchUsed(old, v)))
  BY <1>3, <1>4
<1>8. Alike(Patched(old, [old EXCEPT !.enabled = ~@]))
  BY <1>3, <1>5
<1> HIDE DEF Alike
<1> QED
  BY <1>2, <1>6, <1>7, <1>8

\* A hub that pulls counts what the ingress grew by since it last did.
LEMMA PullHub ==
  ASSUME CountInv, HubInv, NEW h \in Handlers, \A a, b \in Handlers : a = b, HubPull(h)
  PROVE  HubInv'
<1>1. UNCHANGED <<users, pc, job, carried, crashes, trafficVars>> /\ pc[h] = "idle"
  BY DEF HubPull, NoTraffic, counts
<1>2. PICK u \in LiveIds(users) :
        LET r == users[u]
            w == hub[r.sync]
            m == IF r.epoch > w.epoch THEN 0 ELSE w.mark
        IN  /\ SyncActive(r)
            /\ hub' = [hub EXCEPT ![r.sync] =
                 [epoch |-> Max({r.epoch, w.epoch}), mark |-> r.ingress,
                  total |-> w.total + Max({0, r.ingress - m})]]
  BY DEF HubPull
<1> DEFINE s == users[u].sync
           w == hub[s]
           m == IF users[u].epoch > w.epoch THEN 0 ELSE w.mark
<1>3. u \in Shared(users) /\ s \in SyncIds
  BY <1>2 DEF LiveIds, Shared, HubInv, StoreInv, Distinct
<1>4. /\ w.mark \in Nat /\ w.total = w.mark /\ w.epoch \in Nat /\ w.epoch <= users[u].epoch
      /\ w.mark # 0 => w.epoch = users[u].epoch
      /\ w.mark <= users[u].ingress /\ users[u].ingress <= SubjectUsage(u)
      /\ users[u].ingress \in Nat /\ users[u].epoch \in Nat
  BY <1>3 DEF HubInv, ChainInv, StoreInv, Distinct
<1>5. hub'[s] = [epoch |-> Max({users[u].epoch, w.epoch}), mark |-> users[u].ingress,
                 total |-> w.total + Max({0, users[u].ingress - m})]
      /\ DOMAIN hub' = SyncIds /\ \A x \in SyncIds \ {s} : hub'[x] = hub[x]
  BY <1>2, <1>3 DEF HubInv, StrangersInv
<1> HIDE DEF w
<1>6. Max({users[u].epoch, w.epoch}) = users[u].epoch
  BY <1>4, MaxOfTwo
<1>7. m = w.mark
  BY <1>4
<1>8. Max({0, users[u].ingress - m}) = users[u].ingress - w.mark
  <2>1. users[u].ingress - w.mark \in Nat
    BY <1>4
  <2>2. Max({0, users[u].ingress - w.mark}) = users[u].ingress - w.mark
    BY <2>1, MaxOfTwo
  <2> QED
    BY <1>7, <2>2
<1>9. hub'[s].mark = users[u].ingress /\ hub'[s].total = users[u].ingress /\ hub'[s].epoch = users[u].epoch
  BY <1>4, <1>5, <1>6, <1>8
<1>10. Distinct(users') /\ Kin(users, users') /\ Shared(users)' = Shared(users)
  BY <1>1, KinSelf DEF HubInv, StoreInv, Shared
<1>11. StoreInv' /\ CarriedInv' /\ \A x \in Shared(users) : SubjectUsage(x)' = SubjectUsage(x)
  BY <1>1, <1>10, StoreFrame DEF HubInv, CountInv, trafficVars
<1>12. SaversInv'
  BY <1>1 DEF HubInv, SaversInv
<1>13. \A a \in Handlers : pc'[a] = "idle"
  BY <1>1
<1>14. \A x \in Shared(users) :
         /\ pc[Bridge] = "save" => Between(x, job[Bridge].us[x].ingress)'
         /\ pc[Bridge] = "lock" => x \in DOMAIN job[Bridge].upd /\ Between(x, job[Bridge].upd[x])'
  BY <1>1, <1>11, <1>13 DEF HubInv, ChainInv, Between
<1>15. \A x \in Shared(users) : users[x].ingress <= SubjectUsage(x)'
  BY <1>11 DEF HubInv, ChainInv
<1>16. ASSUME NEW x \in Shared(users)
       PROVE  /\ hub'[users[x].sync].mark \in Nat /\ hub'[users[x].sync].total = hub'[users[x].sync].mark
              /\ hub'[users[x].sync].epoch \in Nat /\ hub'[users[x].sync].epoch <= users[x].epoch
              /\ hub'[users[x].sync].mark # 0 => hub'[users[x].sync].epoch = users[x].epoch
              /\ hub'[users[x].sync].mark <= users[x].ingress
  <2>1. CASE x = u
    BY <1>4, <1>9, <2>1
  <2>2. CASE x # u
    <3>1. users[x].sync \in SyncIds \ {s}
      BY <1>3, <2>2 DEF HubInv, StoreInv, Distinct
    <3>2. hub'[users[x].sync] = hub[users[x].sync]
      BY <1>5, <3>1
    <3> QED
      BY <3>2 DEF HubInv, ChainInv
  <2> QED
    BY <2>1, <2>2
<1>17. ChainInv'
  BY <1>1, <1>10, <1>13, <1>14, <1>15, <1>16 DEF ChainInv
<1>18. StrangersInv'
  BY <1>1, <1>3, <1>5, <1>10 DEF HubInv, StrangersInv
<1> QED
  BY <1>11, <1>12, <1>17, <1>18 DEF HubInv

\* The requests that are made.
LEMMA RequestsHub ==
  ASSUME CountInv, TableInv, HubInv, Undisturbed, NEW h \in Handlers, Requests(h)
  PROVE  HubInv'
<1>1. h \in Threads /\ Shape /\ \A a, b \in Handlers : a = b
  BY DEF Threads, CountInv, Undisturbed
<1>2. Table(users, born) /\ Distinct(users)
  BY DEF TableInv, HubInv, StoreInv
<1>3. ASSUME NEW op, Request(h, op)
      PROVE  op \in {"patchUsed", "disable", "rotate", "pull"} /\ UNCHANGED <<carried, crashes, trafficVars>>
  BY <1>3 DEF Request, NoTraffic, Undisturbed
<1>4. ASSUME NEW u \in DOMAIN users, NEW r, NEW l \in {"idle", "remat"}, EditUser(h, u, r, l), NEW op, Request(h, op),
             SameToHub(users, u, r), UNCHANGED <<users, hub>>
      PROVE  HubInv'
  <2> DEFINE us == [users EXCEPT ![u] = r]
             j == [NoJob EXCEPT !.us = us, !.then = l]
  <2>1. Edit(h, us, l) /\ job' = [job EXCEPT ![h] = j]
    BY <1>4 DEF EditUser, Edit
  <2> HIDE DEF us
  <2>2. j.us = us /\ j.then = l /\ j.zero = {} /\ j.set = 0 /\ j.afterZero = "idle"
    BY DEF NoJob
  <2> HIDE DEF j
  <2>3. Moved(h) /\ pc'[h] = "save"
    BY <1>1, <2>1, EditMoves DEF InReset
  <2>4. job'[h] = j /\ Harmless(users, "save", j)
    BY <1>1, <2>1, <2>2 DEF Shape, Harmless
  <2>5. UNCHANGED <<carried, crashes, trafficVars>> /\ Kin(users, us)
        /\ \A x \in Shared(users) : us[x].ingress = users[x].ingress
    BY <1>3, <1>4 DEF us, SameToHub
  <2> QED
    BY <1>1, <1>4, <2>2, <2>3, <2>4, <2>5, EditHub
<1>5. CASE HandleUsersPatch(h)
  <2>1. PICK u \in DOMAIN users :
          \/ /\ Request(h, "patchUsed")
             /\ \E v \in Amounts : LET r == Patched(users[u], PatchUsed(users[u], v)) IN
                  /\ Goto(h, "save")
                  /\ job' = [job EXCEPT ![h] = [NoJob EXCEPT
                       !.us = [users EXCEPT ![u] = r], !.set = v,
                       !.zero = IF SyncActive(r) THEN {} ELSE {u},
                       !.then = "zero", !.afterZero = "remat"]]
          \/ Request(h, "disable") /\ EditUser(h, u, Patched(users[u], [users[u] EXCEPT !.enabled = ~@]), "remat")
          \/ \E op \in {"patchName", "patchSync", "patchReset"} : Request(h, op)
    BY <1>5 DEF HandleUsersPatch
  <2>2. UNCHANGED <<users, hub>>
    BY <1>5 DEF HandleUsersPatch, NoAccounts, accountVars
  <2>3. ASSUME Request(h, "patchUsed"), NEW v \in Amounts, NEW r, r = Patched(users[u], PatchUsed(users[u], v)),
               Goto(h, "save"),
               job' = [job EXCEPT ![h] = [NoJob EXCEPT
                       !.us = [users EXCEPT ![u] = r], !.set = v,
                       !.zero = IF SyncActive(r) THEN {} ELSE {u},
                       !.then = "zero", !.afterZero = "remat"]]
        PROVE  HubInv'
    <3> DEFINE us == [users EXCEPT ![u] = r]
               j == [NoJob EXCEPT !.us = us, !.set = v, !.zero = IF SyncActive(r) THEN {} ELSE {u},
                                  !.then = "zero", !.afterZero = "remat"]
    <3>1. job' = [job EXCEPT ![h] = j]
      BY <2>3
    <3>2. /\ Kin(users, us) /\ (SyncActive(r) <=> u \in Shared(users))
          /\ \A x \in Shared(users) : us[x].ingress = users[x].ingress
      <4>1. SameToHub(users, u, r)
        BY <1>2, <2>3, EditsKin
      <4> QED
        BY <4>1 DEF SameToHub
    <3> HIDE DEF us
    <3>3. j.us = us /\ j.then = "zero" /\ j.zero = (IF SyncActive(r) THEN {} ELSE {u}) /\ j.set = v
          /\ j.afterZero = "remat" /\ DOMAIN j = DOMAIN NoJob
      BY DEF NoJob
    <3> HIDE DEF j
    <3>4. Locals(j) /\ Harmless(users, "save", j)
      BY <2>3, <3>2, <3>3, AccountsAssumption DEF Locals, Harmless, InReset
    <3>5. Moved(h) /\ pc'[h] = "save" /\ job'[h] = j
      BY <1>1, <2>3, <3>1, <3>4, GotoMoves DEF Shape
    <3>6. UNCHANGED <<carried, crashes, trafficVars>>
      BY <1>3, <2>3
    <3> QED
      BY <1>1, <2>2, <3>2, <3>3, <3>4, <3>5, <3>6, EditHub
  <2>4. CASE Request(h, "disable") /\ EditUser(h, u, Patched(users[u], [users[u] EXCEPT !.enabled = ~@]), "remat")
    <3>1. SameToHub(users, u, Patched(users[u], [users[u] EXCEPT !.enabled = ~@]))
      BY <1>2, EditsKin
    <3> QED
      BY <1>4, <2>2, <2>4, <3>1
  <2>5. CASE \E op \in {"patchName", "patchSync", "patchReset"} : Request(h, op)
    BY <1>3, <2>5
  <2> QED
    BY <2>1, <2>3, <2>4, <2>5
<1>6. CASE HandleUsersRotate(h)
  <2>1. PICK u \in DOMAIN users, l \in {"idle", "remat"} : EditUser(h, u, users[u], l)
    BY <1>6 DEF HandleUsersRotate
  <2>2. UNCHANGED <<users, hub>> /\ Request(h, "rotate")
    BY <1>6 DEF HandleUsersRotate, NoAccounts, accountVars
  <2>3. SameToHub(users, u, users[u])
    BY <1>2, EditsKin
  <2> QED
    BY <1>4, <2>1, <2>2, <2>3
<1>7. CASE HubPull(h)
  BY <1>1, <1>7, PullHub
<1>8. CASE \/ HandleUsersCreate(h) \/ HandleUsersDelete(h) \/ HandleUsersSyncToggle(h)
           \/ HandleUsersSyncMembership(h) \/ HandleUsersImport(h) \/ HandleUsersSyncMetricsPost(h)
  <2>1. \E op \in {"create", "delete", "hardDelete", "toggle", "membership", "import", "metrics"} : Request(h, op)
    BY <1>8 DEF HandleUsersCreate, HandleUsersDelete, HandleUsersSyncToggle, HandleUsersSyncMembership,
       HandleUsersImport, HandleUsersSyncMetricsPost
  <2> QED
    BY <1>3, <2>1
<1> QED
  BY <1>5, <1>6, <1>7, <1>8 DEF Requests

\* Saving a copy takes users.json back at most to what the hub has counted.
LEMMA SaveHub ==
  ASSUME CountInv, HubInv, \A a, b \in Handlers : a = b, NEW t \in Threads, t # Flusher, Save(t)
  PROVE  HubInv'
<1> DEFINE vs == job[t].us
<1>1. /\ pc[t] = "save" /\ t \in Handlers \cup {Bridge} /\ Kin(users, vs) /\ Harmless(users, "save", job[t])
      /\ Shape /\ Locals(job[t]) /\ UNCHANGED <<hub, carried, crashes, trafficVars>>
      /\ Flusher \in Threads /\ Bridge \in Threads /\ \A h \in Handlers : h \in Threads /\ h # Bridge
  BY AccountsAssumption DEF Save, NoTraffic, HubInv, SaversInv, CountInv, Shape, Threads
<1>2. Distinct(users)
  BY DEF HubInv, StoreInv
<1>3. ASSUME UNCHANGED users, Done(t) PROVE HubInv'
  <2>1. Moved(t) /\ pc'[t] = "idle" /\ job'[t] = NoJob
    BY <1>1, <1>3, DoneMoves DEF Done, Shape
  <2> QED
    BY <1>1, <1>3, <2>1, NoJobHarmless, QuietMove
<1>4. CASE /\ users' = vs /\ Goto(t, job[t].then)
           /\ job' = [job EXCEPT ![t].us = <<>>, ![t].cfg = IF job[t].then = "apply" THEN Build(vs) ELSE <<>>]
  <2> DEFINE j == [job[t] EXCEPT !.us = <<>>, !.cfg = IF job[t].then = "apply" THEN Build(vs) ELSE <<>>]
  <2>1. job' = [job EXCEPT ![t] = j]
    BY <1>4
  <2>2. DOMAIN j = DOMAIN job[t] /\ DOMAIN job[t] = DOMAIN NoJob
    BY <1>1 DEF Locals
  <2>3. j.then = job[t].then /\ j.afterZero = job[t].afterZero /\ j.set = job[t].set /\ j.zero = job[t].zero
    BY <2>2, NoJobHarmless
  <2> HIDE DEF j, vs
  <2>4. Locals(j) /\ job[t].then \in {"idle", "zero", "check", "remat"}
    BY <1>1, <2>2, <2>3 DEF Locals, Harmless
  <2>5. Moved(t) /\ pc'[t] = job[t].then /\ job'[t] = j
    BY <1>1, <1>4, <2>1, <2>4, GotoMoves DEF Shape
  <2>6. Harmless(users, pc'[t], j)
    BY <1>1, <2>3, <2>4, <2>5 DEF Harmless
  <2>7. pc'[t] \notin {"save", "lock"}
    BY <2>4, <2>5
  <2>8. Distinct(users') /\ Kin(users, users') /\ Shared(users)' = Shared(users)
    <3>1. Shared(users)' = Shared(vs)
      BY <1>4 DEF Shared
    <3> QED
      BY <1>1, <1>2, <1>4, <3>1, KinDistinct DEF Kin
  <2>9. pc'[Flusher] = pc[Flusher] /\ job'[Flusher] = job[Flusher]
    BY <1>1, <2>5 DEF Moved
  <2>10. StoreInv' /\ CarriedInv' /\ \A u \in Shared(users) : SubjectUsage(u)' = SubjectUsage(u)
    BY <1>1, <2>8, <2>9, StoreFrame DEF HubInv, CountInv, trafficVars
  <2>11. \A d \in Threads \ {t} : pc'[d] = pc[d] /\ job'[d] = job[d]
    BY <2>5 DEF Moved
  <2>12. SaversInv'
    <3> SUFFICES ASSUME NEW d \in Threads
                 PROVE  /\ pc'[d] = "save" => d \in Handlers \cup {Bridge} /\ Kin(users', job'[d].us)
                        /\ pc'[d] = "lock" => d = Bridge
                        /\ Harmless(users', pc'[d], job'[d])
      BY DEF SaversInv
    <3>1. CASE d = t
      BY <2>5, <2>6, <2>7, <2>8, <3>1, KinHarmless
    <3>2. CASE d # t
      <4>1. /\ pc[d] = "save" => d \in Handlers \cup {Bridge} /\ Kin(users, job[d].us)
            /\ pc[d] = "lock" => d = Bridge
            /\ Harmless(users, pc[d], job[d])
        BY DEF HubInv, SaversInv
      <4>2. pc'[d] = pc[d] /\ job'[d] = job[d]
        BY <2>11, <3>2
      <4> QED
        BY <2>8, <4>1, <4>2, KinHarmless, KinTwice
    <3> QED
      BY <3>1, <3>2
  <2>13. ASSUME NEW u \in Shared(users)
         PROVE  LET w == hub[users'[u].sync]
                IN  /\ w.mark \in Nat /\ w.total = w.mark /\ w.epoch \in Nat /\ w.epoch <= users'[u].epoch
                    /\ w.mark # 0 => w.epoch = users'[u].epoch
                    /\ w.mark <= users'[u].ingress /\ users'[u].ingress <= SubjectUsage(u)'
                    /\ \A h \in Handlers : pc'[h] = "save" =>
                         w.mark <= job'[h].us[u].ingress /\ job'[h].us[u].ingress <= SubjectUsage(u)'
                    /\ pc'[Bridge] = "save" => Between(u, job[Bridge].us[u].ingress)'
                    /\ pc'[Bridge] = "lock" => u \in DOMAIN job'[Bridge].upd /\ Between(u, job[Bridge].upd[u])'
    <3> DEFINE w == hub[users[u].sync]
    <3>1. /\ w.mark \in Nat /\ w.total = w.mark /\ w.epoch \in Nat /\ w.epoch <= users[u].epoch
          /\ w.mark # 0 => w.epoch = users[u].epoch
          /\ w.mark <= users[u].ingress /\ users[u].ingress <= SubjectUsage(u) /\ users[u].ingress \in Nat
          /\ \A h \in Handlers : pc[h] = "save" =>
               w.mark <= job[h].us[u].ingress /\ job[h].us[u].ingress <= SubjectUsage(u)
          /\ pc[Bridge] = "save" => Between(u, job[Bridge].us[u].ingress)
          /\ pc[Bridge] = "lock" => u \in DOMAIN job[Bridge].upd /\ Between(u, job[Bridge].upd[u])
      BY <1>2 DEF HubInv, ChainInv, Distinct
    <3> HIDE DEF w
    <3>2. users'[u].sync = users[u].sync /\ users'[u].epoch = users[u].epoch /\ users'[u].ingress \in Nat
          /\ users'[u].ingress = vs[u].ingress
      BY <1>4, <2>8 DEF Kin
    <3>3. w.mark <= users'[u].ingress /\ users'[u].ingress <= SubjectUsage(u)'
      <4>1. CASE t = Bridge
        BY <1>1, <2>10, <3>1, <3>2, <4>1 DEF Between, vs
      <4>2. CASE t \in Handlers
        BY <1>1, <2>10, <3>1, <3>2, <4>2 DEF vs
      <4> QED
        BY <1>1, <4>1, <4>2
    <3>4. \A h \in Handlers : pc'[h] = "save" =>
            w.mark <= job'[h].us[u].ingress /\ job'[h].us[u].ingress <= SubjectUsage(u)'
      BY <1>1, <2>7, <2>10, <2>11, <3>1
    <3>5. ASSUME pc'[Bridge] \in {"save", "lock"}
          PROVE  t \in Handlers /\ pc'[Bridge] = pc[Bridge] /\ job'[Bridge] = job[Bridge]
                 /\ \A h \in Handlers : pc'[h] # "save"
      BY <1>1, <2>7, <2>11, <3>5
    <3>6. pc'[Bridge] = "save" => Between(u, job[Bridge].us[u].ingress)'
      BY <1>1, <2>10, <3>1, <3>2, <3>5 DEF Between, vs
    <3>7. pc'[Bridge] = "lock" => u \in DOMAIN job'[Bridge].upd /\ Between(u, job[Bridge].upd[u])'
      BY <1>1, <2>10, <3>1, <3>2, <3>5 DEF Between, vs
    <3> QED
      BY <3>1, <3>2, <3>3, <3>4, <3>6, <3>7 DEF w
  <2>14. ChainInv'
    BY <1>1, <2>8, <2>13 DEF ChainInv
  <2>15. StrangersInv'
    BY <1>1, <2>8 DEF HubInv, StrangersInv, Kin
  <2> QED
    BY <2>10, <2>12, <2>14, <2>15 DEF HubInv
<1>5. t # Ticker
  BY <1>1, AccountsDistinct, AccountsAssumption
<1> QED
  BY <1>3, <1>4, <1>5 DEF Save

\* The bridge takes a poll, or a copy made of one, that lies between users.json and the store.
LEMMA BridgeHub ==
  ASSUME CountInv, HubInv, UNCHANGED <<users, hub, carried, crashes, trafficVars>>,
         Moved(Bridge), Harmless(users, pc'[Bridge], job'[Bridge]),
         pc'[Bridge] = "save" => /\ Kin(users, job'[Bridge].us)
                                 /\ \A u \in Shared(users) : Between(u, job'[Bridge].us[u].ingress),
         pc'[Bridge] = "lock" => \A u \in Shared(users) :
                                   u \in DOMAIN job'[Bridge].upd /\ Between(u, job'[Bridge].upd[u])
  PROVE  HubInv'
<1>1. Flusher \in Threads /\ Bridge \in Threads /\ Flusher # Bridge /\ \A h \in Handlers : h \in Threads /\ h # Bridge
  BY AccountsDistinct, AccountsAssumption DEF Threads
<1>2. /\ pc'[Flusher] = pc[Flusher] /\ job'[Flusher] = job[Flusher]
      /\ \A h \in Handlers : pc'[h] = pc[h] /\ job'[h] = job[h]
  BY <1>1 DEF Moved
<1>3. Distinct(users') /\ Kin(users, users') /\ Shared(users)' = Shared(users)
  BY KinSelf DEF HubInv, StoreInv, Shared
<1>4. StoreInv' /\ CarriedInv' /\ \A u \in Shared(users) : SubjectUsage(u)' = SubjectUsage(u)
  BY <1>2, <1>3, StoreFrame DEF HubInv, CountInv, trafficVars
<1>5. SaversInv'
  <2> SUFFICES ASSUME NEW d \in Threads
               PROVE  /\ pc'[d] = "save" => d \in Handlers \cup {Bridge} /\ Kin(users', job'[d].us)
                      /\ pc'[d] = "lock" => d = Bridge
                      /\ Harmless(users', pc'[d], job'[d])
    BY DEF SaversInv
  <2>1. users' = users
    OBVIOUS
  <2>2. CASE d = Bridge
    BY <2>1, <2>2
  <2>3. CASE d # Bridge
    <3>1. pc'[d] = pc[d] /\ job'[d] = job[d]
      BY <2>3 DEF Moved
    <3> QED
      BY <2>1, <3>1 DEF HubInv, SaversInv
  <2> QED
    BY <2>2, <2>3
<1>6. ASSUME NEW u \in Shared(users), NEW v, NEW v1, v1 = v, Between(u, v)
      PROVE  /\ v1 \in Nat /\ users'[u].ingress <= v1 /\ v1 <= SubjectUsage(u)'
             /\ \A h \in Handlers : pc'[h] = "save" => job'[h].us[u].ingress <= v1
  BY <1>2, <1>4, <1>6 DEF Between
<1>7. ASSUME NEW u \in Shared(users)
      PROVE  LET w == hub[users[u].sync]
             IN  /\ w.mark \in Nat /\ w.total = w.mark /\ w.epoch \in Nat /\ w.epoch <= users[u].epoch
                 /\ w.mark # 0 => w.epoch = users[u].epoch
                 /\ w.mark <= users[u].ingress /\ users[u].ingress <= SubjectUsage(u)'
                 /\ \A h \in Handlers : pc'[h] = "save" =>
                      w.mark <= job'[h].us[u].ingress /\ job'[h].us[u].ingress <= SubjectUsage(u)'
                 /\ pc'[Bridge] = "save" => Between(u, job[Bridge].us[u].ingress)'
                 /\ pc'[Bridge] = "lock" => u \in DOMAIN job'[Bridge].upd /\ Between(u, job[Bridge].upd[u])'
  <2> DEFINE w == hub[users[u].sync]
  <2>1. /\ w.mark \in Nat /\ w.total = w.mark /\ w.epoch \in Nat /\ w.epoch <= users[u].epoch
        /\ w.mark # 0 => w.epoch = users[u].epoch
        /\ w.mark <= users[u].ingress /\ users[u].ingress <= SubjectUsage(u)
        /\ \A h \in Handlers : pc[h] = "save" =>
             w.mark <= job[h].us[u].ingress /\ job[h].us[u].ingress <= SubjectUsage(u)
    BY DEF HubInv, ChainInv
  <2> HIDE DEF w
  <2>2. SubjectUsage(u)' = SubjectUsage(u)
    BY <1>4
  <2>3. pc'[Bridge] = "save" => Between(u, job[Bridge].us[u].ingress)'
    BY <1>6 DEF Between
  <2>4. pc'[Bridge] = "lock" => u \in DOMAIN job'[Bridge].upd /\ Between(u, job[Bridge].upd[u])'
    BY <1>6 DEF Between
  <2> QED
    BY <1>2, <2>1, <2>2, <2>3, <2>4 DEF w
<1>8. ChainInv'
  BY <1>3, <1>7 DEF ChainInv
<1>9. StrangersInv'
  BY <1>3 DEF HubInv, StrangersInv
<1> QED
  BY <1>4, <1>5, <1>8, <1>9 DEF HubInv

\* The bridge polls what the store shows.
LEMMA PollHub ==
  ASSUME CountInv, HubInv, Poll
  PROVE  HubInv'
<1> DEFINE p == [u \in LiveIds(users) |-> SubjectUsage(u)]
           j == [job[Bridge] EXCEPT !.upd = p]
<1>1. Bridge \in Threads /\ Shape /\ Locals(job[Bridge])
  BY DEF CountInv, Shape, Threads
<1>2. Goto(Bridge, "lock") /\ job' = [job EXCEPT ![Bridge] = j] /\ UNCHANGED <<users, hub, carried, crashes, trafficVars>>
  BY DEF Poll, NoTraffic, NoAccounts, accountVars, counts
<1>3. DOMAIN j = DOMAIN NoJob /\ j.upd = p /\ j.then = job[Bridge].then /\ j.afterZero = job[Bridge].afterZero
      /\ j.set = job[Bridge].set /\ j.zero = job[Bridge].zero
  BY <1>1, NoJobHarmless DEF Locals
<1> HIDE DEF j
<1>4. Locals(j) /\ Harmless(users, "lock", j)
  <2>1. Harmless(users, pc[Bridge], job[Bridge])
    BY <1>1 DEF HubInv, SaversInv
  <2> QED
    BY <1>1, <1>3, <2>1 DEF Locals, Harmless
<1>5. Moved(Bridge) /\ pc'[Bridge] = "lock"
  BY <1>1, <1>2, <1>4, GotoMoves
<1>6. job'[Bridge] = j
  BY <1>1, <1>2 DEF Shape
<1>7. ASSUME NEW u \in Shared(users) PROVE u \in DOMAIN p /\ p[u] = SubjectUsage(u) /\ Between(u, p[u])
  <2>1. u \in LiveIds(users)
    BY DEF Shared, LiveIds, SyncActive
  <2>2. SubjectUsage(u) \in Nat
    BY UsageIs DEF HubInv, CountInv
  <2>3. users[u].ingress <= SubjectUsage(u) /\ \A h \in Handlers : pc[h] = "save" => job[h].us[u].ingress <= SubjectUsage(u)
    BY DEF HubInv, ChainInv
  <2> QED
    BY <2>1, <2>2, <2>3 DEF Between
<1> HIDE DEF p
<1> QED
  BY <1>2, <1>3, <1>4, <1>5, <1>6, <1>7, BridgeHub

\* A poll that lies between users.json and the store moves the ingress up to it, and no epoch.
LEMMA UsageKin ==
  ASSUME TableInv, HubInv, NEW upd,
         \A u \in Shared(users) : u \in DOMAIN upd /\ Between(u, upd[u])
  PROVE  LET us == ApplyUsage(users, upd)
         IN  Kin(users, us) /\ \A u \in Shared(users) : us[u].ingress = upd[u]
<1> DEFINE us == ApplyUsage(users, upd)
<1>1. Distinct(users) /\ \A u \in DOMAIN users : IsUser(users[u])
  BY DEF HubInv, StoreInv, TableInv, Table
<1>2. DOMAIN us = DOMAIN users
  BY DEF ApplyUsage
<1>3. ASSUME NEW u \in DOMAIN users
      PROVE  /\ us[u].name = users[u].name /\ us[u].due = users[u].due /\ SyncActive(us[u]) = SyncActive(users[u])
             /\ us[u].sync = users[u].sync
             /\ SyncActive(users[u]) => us[u].epoch = users[u].epoch /\ us[u].ingress = upd[u] /\ upd[u] \in Nat
  <2> DEFINE r == users[u]
             v == upd[u]
  <2>1. us[u] = IF u \notin DOMAIN upd THEN r
                ELSE IF SyncActive(r)
                THEN [r EXCEPT !.epoch = IF v < r.ingress THEN @ + 1 ELSE @, !.ingress = v]
                ELSE [r EXCEPT !.epoch = IF v < r.used \/ v < r.ingress THEN @ + 1 ELSE @,
                               !.used = v, !.ingress = v]
    BY DEF ApplyUsage
  <2>2. IsUser(r)
    BY <1>1
  <2>3. SyncActive(r) => u \in DOMAIN upd /\ v \in Nat /\ r.ingress <= v /\ r.ingress \in Nat
    BY <1>1 DEF Shared, Between, Distinct
  <2> HIDE DEF us, r, v
  <2>4. CASE u \notin DOMAIN upd
    BY <2>1, <2>3, <2>4 DEF r
  <2>5. CASE u \in DOMAIN upd /\ SyncActive(r)
    <3>1. ~(v < r.ingress)
      BY <2>3, <2>5
    <3>2. us[u] = [r EXCEPT !.epoch = IF v < r.ingress THEN @ + 1 ELSE @, !.ingress = v]
      BY <2>1, <2>5
    <3>3. /\ us[u].epoch = r.epoch /\ us[u].ingress = v /\ us[u].name = r.name /\ us[u].due = r.due
          /\ us[u].sync = r.sync /\ us[u].deleted = r.deleted /\ us[u].mode = r.mode /\ us[u].syncOn = r.syncOn
      BY <2>2, <3>1, <3>2 DEF IsUser
    <3> QED
      BY <2>3, <2>5, <3>3 DEF SyncActive, r, v
  <2>6. CASE u \in DOMAIN upd /\ ~SyncActive(r)
    <3> DEFINE e == IF v < r.used \/ v < r.ingress THEN r.epoch + 1 ELSE r.epoch
    <3>1. us[u] = [r EXCEPT !.epoch = e, !.used = v, !.ingress = v]
      BY <2>1, <2>6
    <3> HIDE DEF e
    <3>2. /\ us[u].name = r.name /\ us[u].due = r.due
          /\ us[u].sync = r.sync /\ us[u].deleted = r.deleted /\ us[u].mode = r.mode /\ us[u].syncOn = r.syncOn
      BY <2>2, <3>1 DEF IsUser
    <3> QED
      BY <2>6, <3>2 DEF SyncActive, r
  <2> QED
    BY <2>4, <2>5, <2>6
<1> HIDE DEF us
<1>4. Shared(us) = Shared(users)
  BY <1>2, <1>3 DEF Shared
<1>5. \A u \in Shared(users) : u \in DOMAIN users /\ SyncActive(users[u])
  BY DEF Shared
<1>6. Kin(users, us)
  BY <1>1, <1>2, <1>3, <1>4, <1>5 DEF Kin, Distinct
<1> QED
  BY <1>3, <1>5, <1>6 DEF us

\* The bridge turns its poll into a copy of the users.
LEMMA UsageHub ==
  ASSUME CountInv, TableInv, HubInv, ApplyTrafficUsage
  PROVE  HubInv'
<1> DEFINE upd == job[Bridge].upd
           us == ApplyUsage(users, upd)
           fp == Fingerprint(users)
           j == [NoJob EXCEPT !.us = us, !.fp = fp, !.then = "check"]
<1>1. Bridge \in Threads /\ Bridge # Flusher /\ Shape /\ pc[Bridge] = "lock"
      /\ UNCHANGED <<users, hub, carried, crashes, trafficVars>>
  BY AccountsDistinct DEF CountInv, Threads, ApplyTrafficUsage, NoTraffic, counts
<1>2. \/ Done(Bridge)
      \/ Goto(Bridge, "save") /\ job' = [job EXCEPT ![Bridge] = j]
  BY DEF ApplyTrafficUsage
<1>3. \A u \in Shared(users) : u \in DOMAIN upd /\ Between(u, upd[u])
  BY <1>1 DEF HubInv, ChainInv
<1> HIDE DEF upd
<1>4. Kin(users, us) /\ \A u \in Shared(users) : us[u].ingress = upd[u]
  BY <1>3, UsageKin
<1> HIDE DEF us, fp
<1>5. CASE Done(Bridge)
  <2>1. Moved(Bridge) /\ pc'[Bridge] = "idle" /\ job'[Bridge] = NoJob
    BY <1>1, <1>5, DoneMoves DEF Done, Shape
  <2> QED
    BY <1>1, <2>1, NoJobHarmless, QuietMove
<1>6. CASE Goto(Bridge, "save") /\ job' = [job EXCEPT ![Bridge] = j]
  <2>1. j.us = us /\ j.then = "check" /\ j.zero = {} /\ j.set = 0 /\ j.afterZero = "idle" /\ DOMAIN j = DOMAIN NoJob
    BY DEF NoJob
  <2> HIDE DEF j
  <2>2. Locals(j) /\ Harmless(users, "save", j)
    BY <2>1 DEF Locals, Harmless, InReset
  <2>3. Moved(Bridge) /\ pc'[Bridge] = "save"
    BY <1>1, <1>6, <2>2, GotoMoves
  <2>4. job'[Bridge] = j
    BY <1>1, <1>6 DEF Shape
  <2> QED
    BY <1>1, <1>3, <1>4, <2>1, <2>2, <2>3, <2>4, BridgeHub
<1> QED
  BY <1>2, <1>5, <1>6

\* A system that starts has counted, carried and polled nothing.
LEMMA HubInit ==
  ASSUME Init, Undisturbed, CountInv, TableInv
  PROVE  HubInv
<1>1. /\ users \in Seeds /\ hub = [s \in SyncIds |-> [epoch |-> 0, mark |-> 0, total |-> 0]]
      /\ pc = [t \in Threads |-> "idle"] /\ job = [t \in Threads |-> NoJob]
      /\ crashes = 0 /\ carried = 0 /\ live = Zeros /\ ctr = Zeros /\ ser = [u \in UserIds |-> 0]
      /\ subj = NoSubj /\ disk = Stored
  BY DEF Init, TrafficInit
<1>2. Distinct(users) /\ \A u \in Shared(users) : users[u].ingress = 0
  BY <1>1 DEF Undisturbed
<1>3. Bridge \in Threads /\ Flusher \in Threads /\ \A h \in Handlers : h \in Threads
  BY DEF Threads
<1>4. disk.ctr = Zeros /\ disk.ser = ser /\ disk.subj = NoSubj
  BY <1>1 DEF Stored
<1>5. CarriedInv
  <2>1. \A k \in Names : ctr[k] = 0 /\ live[k] = 0 /\ InFlight(k) = 0 /\ disk.ctr[k] = 0
    BY <1>1, <1>3, <1>4, NoJobHarmless DEF Zeros, InFlight
  <2> QED
    BY <1>1, <2>1 DEF CarriedInv
<1>6. StoreInv
  <2>1. ser \in [UserIds -> Nat] /\ job[Flusher].sdelta \in [UserIds -> Nat] /\ pc[Flusher] = "idle"
    BY <1>1, <1>3, NoJobHarmless
  <2>2. subj \in [UserIds -> Names \cup {NoName}] /\ \A u \in UserIds : subj[u] = NoName
    BY <1>1 DEF NoSubj
  <2>3. \A u \in Shared(users) : ser[u] = 0 /\ ctr[users[u].name] = 0
    BY <1>1, <1>2 DEF Zeros, Distinct, Shared
  <2> QED
    BY <1>1, <1>2, <1>4, <2>1, <2>2, <2>3 DEF StoreInv
<1>7. SaversInv
  <2>1. \A t \in Threads : pc[t] = "idle" /\ job[t] = NoJob
    BY <1>1
  <2>2. Harmless(users, "idle", NoJob)
    BY NoJobHarmless
  <2> QED
    BY <2>1, <2>2 DEF SaversInv
<1>8. ChainInv
  <2> SUFFICES ASSUME NEW u \in Shared(users)
               PROVE  LET w == hub[users[u].sync]
                      IN  /\ w.mark \in Nat /\ w.total = w.mark /\ w.epoch \in Nat /\ w.epoch <= users[u].epoch
                          /\ w.mark # 0 => w.epoch = users[u].epoch
                          /\ w.mark <= users[u].ingress /\ users[u].ingress <= SubjectUsage(u)
                          /\ \A h \in Handlers : pc[h] = "save" =>
                               w.mark <= job[h].us[u].ingress /\ job[h].us[u].ingress <= SubjectUsage(u)
                          /\ pc[Bridge] = "save" => Between(u, job[Bridge].us[u].ingress)
                          /\ pc[Bridge] = "lock" => u \in DOMAIN job[Bridge].upd /\ Between(u, job[Bridge].upd[u])
    BY DEF ChainInv
  <2>1. users[u].sync \in SyncIds /\ users[u].epoch \in Nat /\ users[u].ingress = 0 /\ u \in UserIds
    BY <1>2 DEF Distinct, Shared
  <2>2. hub[users[u].sync] = [epoch |-> 0, mark |-> 0, total |-> 0]
    BY <1>1, <2>1
  <2>3. SubjectUsage(u) = 0
    BY <1>1, <2>1 DEF SubjectUsage, NoSubj
  <2>4. pc[Bridge] = "idle" /\ \A h \in Handlers : pc[h] = "idle"
    BY <1>1, <1>3
  <2> QED
    BY <2>1, <2>2, <2>3, <2>4
<1>9. StrangersInv
  BY <1>1 DEF StrangersInv
<1> QED
  BY <1>5, <1>6, <1>7, <1>8, <1>9 DEF HubInv

LEMMA HubStep ==
  ASSUME CountInv, TableInv, HubInv, Undisturbed, Next
  PROVE  HubInv'
<1>0. CountInv'
  BY CountStep
<1>1. \A a, b \in Handlers : a = b
  BY DEF Undisturbed
<1>2. \A t \in Handlers \cup {Bridge, Ticker} : t \in Threads /\ t # Flusher
  BY AccountsDistinct DEF Threads
<1>3. ASSUME NEW t \in Handlers \cup {Bridge, Ticker}, Call(t) PROVE HubInv'
  <2>1. t \in Threads /\ t # Flusher
    BY <1>2
  <2>2. \/ Save(t) \/ Zero(t) \/ ZeroStore(t) \/ SetSeries(t) \/ (Check(t) \/ Remat(t) \/ Apply(t)) \/ Publish(t)
    BY <1>3 DEF Call
  <2>3. CASE Save(t)
    BY <1>1, <2>1, <2>3, SaveHub
  <2>4. CASE Zero(t)
    BY <1>0, <2>1, <2>4, ZeroHub
  <2>5. CASE ZeroStore(t)
    BY <1>0, <2>1, <2>5, ZeroStoreHub
  <2>6. CASE SetSeries(t)
    BY <1>0, <2>1, <2>6, SetSeriesHub
  <2>7. CASE Check(t) \/ Remat(t) \/ Apply(t)
    BY <2>1, <2>7, RebuildHub
  <2>8. CASE Publish(t)
    BY <1>0, <2>1, <2>8, PublishHub
  <2> QED
    BY <2>2, <2>3, <2>4, <2>5, <2>6, <2>7, <2>8
<1>4. CASE \E h \in Handlers : Requests(h) \/ Call(h)
  BY <1>3, <1>4, RequestsHub
<1>5. CASE BridgeStep
  BY <1>3, <1>5, PollHub, UsageHub DEF BridgeStep
<1>6. CASE TickerStep
  BY <1>3, <1>6, TickHub DEF TickerStep
<1>7. CASE FlushStep
  BY <1>0, <1>7, FlushHub
<1>8. CASE Carry
  BY <1>0, <1>8, CarryHub
<1>9. CASE TimePasses
  <2>1. UNCHANGED <<users, hub, carried, crashes, live, ctr, ser, subj, disk, pc, job>>
    BY <1>9 DEF TimePasses, NoTraffic, trafficVars, counts
  <2> QED
    BY <2>1, QuietHub DEF Rested
<1>10. CASE Crash
  BY <1>0, <1>10, CrashHub
<1> QED
  BY <1>4, <1>5, <1>6, <1>7, <1>8, <1>9, <1>10 DEF Next

\* What a hub has counted of a user is what the chain from the tracker to users.json let through.
LEMMA ChainCounts ==
  ASSUME CountInv, HubInv
  PROVE  HubCountsOnce
<1> SUFFICES ASSUME NEW s \in SyncIds PROVE hub[s].total <= carried
  BY DEF HubCountsOnce
<1>1. carried \in Nat
  BY DEF HubInv, CarriedInv
<1>2. CASE hub[s].total = 0
  BY <1>1, <1>2
<1>3. CASE \E u \in Shared(users) : users[u].sync = s
  <2>1. PICK u \in Shared(users) : users[u].sync = s
    BY <1>3
  <2> DEFINE n == users[u].name
  <2>2. /\ hub[s].mark \in Nat /\ hub[s].total = hub[s].mark
        /\ hub[s].mark <= users[u].ingress /\ users[u].ingress <= SubjectUsage(u)
    BY <2>1 DEF HubInv, ChainInv
  <2>3. users[u].ingress \in Nat
    BY DEF HubInv, StoreInv, Distinct
  <2>4. /\ n \in Names /\ ser[u] \in Nat /\ ctr[n] \in Nat /\ ser[u] <= ctr[n]
        /\ SubjectUsage(u) = IF subj[u] = NoName THEN ser[u] ELSE ctr[n]
    BY UsageIs DEF HubInv, CountInv
  <2> HIDE DEF n
  <2>5. ctr[n] <= carried
    <3>1. ctr[n] + live[n] + InFlight(n) <= carried
      BY <2>4 DEF HubInv, CarriedInv
    <3>2. live[n] \in Nat /\ InFlight(n) \in Nat
      BY <2>4 DEF CountInv, Numbers, InFlight
    <3> QED
      BY <1>1, <2>4, <3>1, <3>2
  <2>6. SubjectUsage(u) \in Nat /\ SubjectUsage(u) <= ctr[n]
    BY <2>4
  <2> QED
    BY <1>1, <2>2, <2>3, <2>4, <2>5, <2>6
<1> QED
  BY <1>2, <1>3 DEF HubInv, StrangersInv

\* A hub never counts a byte twice, whenever it pulls between the steps of a Flush, a poll of the
\* bridge and the saves of users.json that go back to an older ingress: what it has counted of a user
\* is at most the ingress of every copy that may yet be saved, the ingress at most what the store
\* shows, and that at most what was carried.  It takes users whose counters nobody resets and whose
\* sharing nobody switches (ApplyTrafficUsage, GET users/sync/metrics).
THEOREM HubCounted == Undisturbed => (Spec => []HubCountsOnce)
<1> DEFINE Inv == CountInv /\ TableInv /\ HubInv
<1> SUFFICES ASSUME Undisturbed PROVE Spec => []HubCountsOnce
  OBVIOUS
<1>1. Init => Inv
  <2> SUFFICES ASSUME Init PROVE Inv
    OBVIOUS
  <2>1. CountInv /\ TableInv
    BY CountInit, TableInit
  <2> QED
    BY <2>1, HubInit
<1>2. Inv /\ [Next]_vars => Inv'
  <2>1. ASSUME CountInv, TableInv, HubInv, Next PROVE Inv'
    BY <2>1, CountStep, TableStep, HubStep DEF CountInv
  <2>2. ASSUME CountInv, TableInv, HubInv, UNCHANGED vars PROVE Inv'
    <3>1. CountInv'
      BY <2>2, FrameKeeps DEF vars, trafficVars
    <3>2. TableInv'
      BY <2>2, NoCopyKeeps DEF vars, accountVars
    <3>3. UNCHANGED <<users, hub, carried, crashes, live, ctr, ser, subj, disk, pc, job>>
      BY <2>2 DEF vars, trafficVars, accountVars, counts
    <3>4. HubInv'
      BY <2>2, <3>3, QuietHub DEF Rested
    <3> QED
      BY <3>1, <3>2, <3>4
  <2> QED
    BY <2>1, <2>2
<1>3. Inv => HubCountsOnce
  BY ChainCounts
<1> HIDE DEF Inv
<1> QED
  BY <1>1, <1>2, <1>3, PTL DEF Spec

=============================================================================
