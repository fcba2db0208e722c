---------------------------- MODULE ConfigOwner ----------------------------
(***************************************************************************)
(* internal/configowner: the registry of the exclusive config writer.      *)
(* Claim changes and persists the mode under the registry's lock, one step *)
(* here; the hooks of the mode it leaves run after the lock is released,   *)
(* as further steps of the claiming goroutine (see Ownership).             *)
(***************************************************************************)
EXTENDS Naturals

VARIABLES
  mode,      \* Registry.mode
  ownerFile  \* config-owner.json ("idle" also when it does not exist)

ownerVars == <<mode, ownerFile>>

Modes == {"idle", "subscribed", "direct", "controlplane"}

OwnerTypeOK == mode \in Modes /\ ownerFile \in Modes

\* Open of a fresh data_dir, and of one that holds a file.
OwnerInit == mode = "idle" /\ ownerFile = "idle"
OpenOwner == mode' = ownerFile /\ UNCHANGED ownerFile

\* Claim of the mode that is already the owner returns at once.
ClaimNoop(m) == mode = m /\ UNCHANGED ownerVars

ClaimPersists(m) == mode # m /\ mode' = m /\ ownerFile' = m

\* Variant: the mode is not rolled back when it cannot be persisted.
ClaimRollsBack_Kept(m) == mode # m /\ mode' = m /\ UNCHANGED ownerFile

\* persistLocked fails: the mode is rolled back and no hook runs.
ClaimRollsBack(m) == mode # m /\ UNCHANGED ownerVars

=============================================================================
