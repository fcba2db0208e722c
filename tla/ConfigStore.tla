---------------------------- MODULE ConfigStore ----------------------------
(***************************************************************************)
(* internal/configstore: the files under data_dir that hold the staged and *)
(* the last-good sing-box configuration.  Every file is replaced by an     *)
(* atomic temp + rename, so a file holds its old or its new contents; but  *)
(* PromoteStaged and WriteStaged replace several files one after the       *)
(* other, and the process may die, or a write may fail, between any two.   *)
(* The actions below are the single-file writes; Supervisor orders them.   *)
(*                                                                         *)
(* All writers hold the supervisor's applying flag, so a value read at the *)
(* start of PromoteStaged is still the file's value at its later writes,   *)
(* and each write below re-reads the file instead of keeping a local copy. *)
(* Meta.Source and Meta.UpdatedAt are left out: no property reads them.    *)
(***************************************************************************)
EXTENDS Naturals

CONSTANTS
  Configs,  \* the sing-box configurations (raw JSON documents)
  NoFile    \* the contents of a file that does not exist

VARIABLES
  lastGood,      \* last-good.json
  lastGoodMeta,  \* last-good.meta.json
  staged,        \* staged.json
  stagedMeta,    \* staged.meta.json
  agentState     \* agent-state.json: the revision counter (missing reads as 0)

storeVars == <<lastGood, lastGoodMeta, staged, stagedMeta, agentState>>

\* SHA-256 of the raw bytes, taken to be injective.
Hash(raw) == <<"sha256", raw>>

Hashes == {Hash(c) : c \in Configs}

Meta == [ContentSHA256 : Hashes, Revision : Nat]

ASSUME StoreAssumption ==
  /\ NoFile \notin Configs
  /\ NoFile \notin Meta

StoreTypeOK ==
  /\ lastGood     \in Configs \cup {NoFile}
  /\ lastGoodMeta \in Meta \cup {NoFile}
  /\ staged       \in Configs \cup {NoFile}
  /\ stagedMeta   \in Meta \cup {NoFile}
  /\ agentState   \in Nat

\* A data_dir that configstore.New has just created.
StoreInit ==
  /\ lastGood = NoFile
  /\ lastGoodMeta = NoFile
  /\ staged = NoFile
  /\ stagedMeta = NoFile
  /\ agentState = 0

-----------------------------------------------------------------------------
(* Reads *)

HasLastGood == lastGood # NoFile

\* ReadLastGood returns an error unless both files are there.
LastGoodReadable == lastGood # NoFile /\ lastGoodMeta # NoFile

StagedReadable == staged # NoFile /\ stagedMeta # NoFile

-----------------------------------------------------------------------------
(* WriteStaged: the raw bytes, then the meta with the current revision. *)

WriteStagedRaw(raw) ==
  /\ staged' = raw
  /\ UNCHANGED <<lastGood, lastGoodMeta, stagedMeta, agentState>>

WriteStagedMeta(raw) ==
  /\ stagedMeta' = [ContentSHA256 |-> Hash(raw), Revision |-> agentState]
  /\ UNCHANGED <<lastGood, lastGoodMeta, staged, agentState>>

(* PromoteStaged: last-good bytes, last-good meta with the next revision,  *)
(* then the revision counter.                                              *)

PromoteRaw ==
  /\ StagedReadable
  /\ lastGood' = staged
  /\ UNCHANGED <<lastGoodMeta, staged, stagedMeta, agentState>>

\* Variant: the meta keeps the revision it was staged with.
PromoteMeta_StagedRevision ==
  /\ lastGoodMeta' = stagedMeta
  /\ UNCHANGED <<lastGood, staged, stagedMeta, agentState>>

PromoteMeta ==
  /\ lastGoodMeta' = [stagedMeta EXCEPT !.Revision = agentState + 1]
  /\ UNCHANGED <<lastGood, staged, stagedMeta, agentState>>

PromoteState ==
  /\ agentState' = agentState + 1
  /\ UNCHANGED <<lastGood, lastGoodMeta, staged, stagedMeta>>

=============================================================================
