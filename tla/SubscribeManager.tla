-------------------------- MODULE SubscribeManager --------------------------
(***************************************************************************)
(* internal/subscribe: the state of the pull schedule.  enabled lives in   *)
(* memory under m.mu and in subscribe-state.json; save() reads the memory, *)
(* writes a temporary file of a fixed name and renames it, without a lock  *)
(* around the three, so two saves may interleave.  Spec, client and the    *)
(* pull status shown to clients are left out.                              *)
(***************************************************************************)
EXTENDS Naturals

CONSTANT
  YamlPull   \* agent.yaml has pull.enabled and a URL

VARIABLES
  enabled,   \* Manager.enabled
  subFile,   \* subscribe-state.json: "absent", "on" or "off" (Present is set)
  subTmp,    \* subscribe-state.json.tmp
  trigger,   \* the one-slot channel that wakes Run
  fetchMu    \* Tick holds the fetch lock

subVars == <<enabled, subFile, subTmp, trigger, fetchMu>>

Files == {"absent", "on", "off"}

ASSUME YamlAssumption == YamlPull \in BOOLEAN

SubTypeOK ==
  /\ enabled \in BOOLEAN
  /\ subFile \in Files /\ subTmp \in Files
  /\ trigger \in BOOLEAN /\ fetchMu \in BOOLEAN

\* BootstrapFromYAML on file f: the file wins, YAML seeds a missing one.
BootEnabled(f) == f = "on" \/ (f = "absent" /\ YamlPull)
BootFile(f)    == IF f = "absent" /\ YamlPull THEN "on" ELSE f

SubInit ==
  /\ enabled = BootEnabled("absent")
  /\ subFile = BootFile("absent")
  /\ subTmp = "absent"
  /\ trigger = enabled
  /\ fetchMu = FALSE

\* The seed is lost again at the next start unless its save succeeds.
Bootstrap(saved) ==
  /\ enabled' = BootEnabled(subFile)
  /\ subFile' = IF saved THEN BootFile(subFile) ELSE subFile
  /\ trigger' = (enabled' /\ subFile' # "absent")
  /\ fetchMu' = FALSE
  /\ UNCHANGED subTmp

SetEnabled(b) ==
  /\ enabled' = b
  /\ UNCHANGED <<subFile, subTmp, trigger, fetchMu>>

\* save: what it read of the memory goes to the temporary file ...
WriteTmp(b) ==
  /\ subTmp' = IF b THEN "on" ELSE "off"
  /\ UNCHANGED <<enabled, subFile, trigger, fetchMu>>

\* Variant: the wake-up is not sent.
RenameTmp_NoKick ==
  /\ subTmp # "absent"
  /\ subFile' = subTmp /\ subTmp' = "absent"
  /\ UNCHANGED <<enabled, trigger, fetchMu>>

\* ... which is renamed, unless another save has renamed it away; then kick,
\* which does nothing when the slot is taken.
RenameTmp ==
  /\ subTmp # "absent"
  /\ subFile' = subTmp /\ subTmp' = "absent"
  /\ trigger' = TRUE
  /\ UNCHANGED <<enabled, fetchMu>>

TakeTrigger ==
  /\ trigger /\ trigger' = FALSE
  /\ UNCHANGED <<enabled, subFile, subTmp, fetchMu>>

LockFetch   == ~fetchMu /\ fetchMu' = TRUE /\ UNCHANGED <<enabled, subFile, subTmp, trigger>>
UnlockFetch == fetchMu' = FALSE /\ UNCHANGED <<enabled, subFile, subTmp, trigger>>

=============================================================================
