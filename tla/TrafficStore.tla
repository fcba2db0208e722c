---------------------------- MODULE TrafficStore ----------------------------
(***************************************************************************)
(* The traffic module: the live counters of the connection tracker, the    *)
(* cumulative counters and subjects of the store, and the critical         *)
(* sections that move bytes between them.  flushMu covers a whole Flush,   *)
(* ZeroSubject or SetSubjectUsage; the tracker's swaps and each operation  *)
(* of the store are steps of their own, because pollers and connections    *)
(* do not take flushMu.                                                    *)
(*                                                                         *)
(* A user has one dataplane key, its name: the variants of the key are     *)
(* registered and reset together.  Up and down are one number.  Inbound    *)
(* and outbound series, the JSONL samples, retention, auto discovery,      *)
(* shaping and the registry of connections are left out.                   *)
(***************************************************************************)
EXTENDS Integers, FiniteSets, FiniteSetsExt

CONSTANTS
  UserIds,   \* ids of control plane users
  Names,     \* display names, which are the dataplane keys
  MaxBytes   \* bound: bytes the dataplane carries in all

VARIABLES
  live,      \* tracker: bytes per key since the last swap
  ctr,       \* store: the dataplane_user counters
  ser,       \* store: the subject series
  subj,      \* store: the registered key of each control plane subject
  disk,      \* counters.json and subjects.json
  flushMu,   \* who holds Service.flushMu
  since      \* history: bytes carried per key since its last discard

trafficVars == <<live, ctr, ser, subj, disk, flushMu, since>>

NoName == <<>>       \* names are sequences: <<"a">>, and <<"a", 2>> for "a 2"
Free   == "free"

Bytes   == 0..MaxBytes
Zeros   == [k \in Names |-> 0]
NoSubj  == [u \in UserIds |-> NoName]

Stored == [ctr |-> ctr, ser |-> ser, subj |-> subj]

TrafficTypeOK(threads) ==
  /\ live \in [Names -> Bytes] /\ ctr \in [Names -> Nat] /\ ser \in [UserIds -> Nat]
  /\ subj \in [UserIds -> Names \cup {NoName}]
  /\ disk = [ctr |-> disk.ctr, ser |-> disk.ser, subj |-> disk.subj]
  /\ flushMu \in threads \cup {Free} /\ since \in [Names -> Bytes]

TrafficInit ==
  /\ live = Zeros /\ ctr = Zeros /\ ser = [u \in UserIds |-> 0]
  /\ subj = NoSubj /\ disk = Stored /\ flushMu = Free /\ since = Zeros

-----------------------------------------------------------------------------
(* Reads. *)

\* Store.SubjectUsage: the key's counter, or the subject series where that is ahead.
SubjectUsage(u) ==
  IF subj[u] = NoName THEN ser[u] ELSE Max({ctr[subj[u]], ser[u]})

\* Service.subjectKeys.
SubjectKeys(u) == {subj[u]} \ {NoName}

-----------------------------------------------------------------------------
(* Writes.  ok says whether the file could be written; memory keeps the     *)
(* change either way.                                                       *)

\* StatsTracker: a connection of key k carries a byte.
Count(k) ==
  /\ live' = [live EXCEPT ![k] = @ + 1]
  /\ since' = [since EXCEPT ![k] = @ + 1]
  /\ UNCHANGED <<ctr, ser, subj, disk, flushMu>>

\* StatsTracker.SwapDeltas: take every live counter and leave zero.
SwapDeltas == live' = Zeros /\ UNCHANGED <<ctr, ser, subj, disk, since>>

\* The subject samples of a Flush: what the swap took for each subject's key.
SubjectDeltas(delta) == [u \in UserIds |-> IF subj[u] = NoName THEN 0 ELSE delta[subj[u]]]

\* Store.ApplySamples.
ApplySamples(delta, sdelta, ok) ==
  /\ ctr' = [k \in Names |-> ctr[k] + delta[k]]
  /\ ser' = [u \in UserIds |-> ser[u] + sdelta[u]]
  /\ disk' = IF ok THEN [disk EXCEPT !.ctr = ctr', !.ser = ser'] ELSE disk
  /\ UNCHANGED <<live, subj, since>>

\* StatsTracker.DiscardUserKeys.
DiscardUserKeys(K) ==
  /\ live' = [k \in Names |-> IF k \in K THEN 0 ELSE live[k]]
  /\ since' = [k \in Names |-> IF k \in K THEN 0 ELSE since[k]]
  /\ UNCHANGED <<ctr, ser, subj, disk>>

\* Store.ZeroSubjectKeys.
ZeroSubjectKeys(u, K, ok) ==
  /\ ctr' = [k \in Names |-> IF k \in K THEN 0 ELSE ctr[k]]
  /\ ser' = [ser EXCEPT ![u] = 0]
  /\ disk' = IF ok THEN [disk EXCEPT !.ctr = ctr', !.ser = ser'] ELSE disk
  /\ UNCHANGED <<live, subj, since>>

\* Store.ReplaceSubjects for the consumer "controlplane".
RegisterManifest(s, ok) ==
  /\ subj' = s
  /\ disk' = IF ok THEN [disk EXCEPT !.subj = s] ELSE disk
  /\ UNCHANGED <<live, ctr, ser, flushMu, since>>

\* New: a process that starts reads the files; the live counters start at zero,
\* and nothing of what was carried but not written remains.
TrafficRestart ==
  /\ live' = Zeros /\ ctr' = disk.ctr /\ ser' = disk.ser
  /\ subj' = disk.subj /\ flushMu' = Free
  /\ since' = disk.ctr
  /\ UNCHANGED disk

=============================================================================
