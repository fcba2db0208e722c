---------------------------- MODULE AgentProofs -----------------------------
(***************************************************************************)
(* Proofs about Agent, for every value of its constants.                   *)
(*                                                                         *)
(* Kept     memory never accepts a token that credentials.json does not    *)
(*          hold, and a removal that was written is in both;               *)
(* LockInv  a rotation that is about to revoke the others still has its    *)
(*          own token, when no second client revokes or deletes meanwhile; *)
(* HbInv    what a heartbeat request has read, written and promised at     *)
(*          each step, when no second client changes the heartbeat.        *)
(***************************************************************************)
EXTENDS Agent, FiniteSetTheorems, TLAPS

\* While one client rotates with revoke_others, no other revokes or deletes tokens.
SerialRevocation == \A c, d \in Clients :
  c # d /\ "revoke" \in Operation[c] => Operation[d] \cap {"revoke", "delete"} = {}

\* Only one client changes the heartbeat.
SerialHeartbeat == \A c, d \in Clients :
  c # d /\ Operation[c] \cap {"put", "off"} # {} => Operation[d] \cap {"put", "off"} = {}

Kept ==
  /\ tokens \subseteq credFile.tokens
  /\ gone \cap credFile.tokens = {}

LockInv ==
  /\ boot \/ tokens # {}
  /\ credFile.boot \/ credFile.tokens # {}
  /\ \A c \in Clients : pc[c] = "revoke" => "revoke" \in Operation[c] /\ job[c].token \in tokens

Saving == {"save", "tmp", "rename"}

HbInv ==
  /\ OffStaysOff
  /\ \A c \in Clients :
       /\ pc[c] \in Saving => Operation[c] \cap {"put", "off"} # {} /\ ~off /\ (job[c].off => ~enabled)
       /\ pc[c] \in {"tmp", "rename"} => job[c].saved = Saved(enabled, spec)
       /\ pc[c] = "rename" => hbTmp = job[c].saved

-----------------------------------------------------------------------------
(* Types *)

\* Only a client's step moves a client.
LEMMA Moves ==
  ASSUME TypeOK, NEW c \in Clients, NEW l, NEW j, Goto(c, l, j)
  PROVE  /\ pc'[c] = l /\ job'[c] = j
         /\ \A d \in Clients : d # c => pc'[d] = pc[d] /\ job'[d] = job[d]
<1>1. DOMAIN pc = Clients /\ DOMAIN job = Clients
  BY DEF TypeOK
<1> QED
  BY <1>1 DEF Goto

LEMMA Answers ==
  ASSUME TypeOK, NEW c \in Clients, Answer(c)
  PROVE  /\ pc'[c] = "idle" /\ job'[c] = NoJob
         /\ \A d \in Clients : d # c => pc'[d] = pc[d] /\ job'[d] = job[d]
<1>1. DOMAIN pc = Clients /\ DOMAIN job = Clients
  BY DEF TypeOK
<1> QED
  BY <1>1 DEF Answer

\* A state file that was read is the state that was written, or the seed of agent.yaml.
LEMMA SeededTypes ==
  ASSUME NEW f \in HbStates \cup {NoFile}, NEW s \in Seeded(f)
  PROVE  /\ s.mem \in HbStates /\ s.file \in HbStates \cup {NoFile} /\ s.kick \in BOOLEAN
         /\ f # NoFile => s.mem = f /\ s.file = f
<1>1. Saved(FALSE, NoSpec) \in HbStates /\ (Seed # NoSpec => Saved(TRUE, Seed) \in HbStates)
  BY AgentAssumption DEF Saved, HbStates
<1>2. CASE f # NoFile
  <2>1. s = [mem |-> f, file |-> f, kick |-> FALSE]
    BY <1>2 DEF Seeded
  <2> QED
    BY <1>2, <2>1
<1>3. CASE f = NoFile /\ Seed = NoSpec
  <2>1. s = [mem |-> Saved(FALSE, NoSpec), file |-> NoFile, kick |-> FALSE]
    BY <1>3 DEF Seeded
  <2> QED
    BY <1>1, <1>3, <2>1
<1>4. CASE f = NoFile /\ Seed # NoSpec
  <2>1. \/ s = [mem |-> Saved(TRUE, Seed), file |-> Saved(TRUE, Seed), kick |-> TRUE]
        \/ s = [mem |-> Saved(TRUE, Seed), file |-> NoFile, kick |-> FALSE]
    BY <1>4 DEF Seeded
  <2>2. CASE s = [mem |-> Saved(TRUE, Seed), file |-> Saved(TRUE, Seed), kick |-> TRUE]
    BY <1>1, <1>4, <2>2
  <2>3. CASE s = [mem |-> Saved(TRUE, Seed), file |-> NoFile, kick |-> FALSE]
    BY <1>1, <1>4, <2>3
  <2> QED
    BY <2>1, <2>2, <2>3
<1> QED
  BY <1>2, <1>3, <1>4

\* The requests that only change credentials, and what they write.
LEMMA CredSteps ==
  ASSUME Next
  PROVE  \/ UNCHANGED <<boot, tokens, credFile, born, given, gone>>
         \/ \E ok \in BOOLEAN : Create(ok) /\ given' \subseteq given \cup {born'}
         \/ \E c \in Clients :
              /\ HandleAuthDelete(c) \/ RotateRevoke(c) \/ HandleAuthBootstrapDisable(c)
              /\ UNCHANGED given
         \/ \E c \in Clients : RotateAnswer(c)
         \/ Crash
<1>1. ASSUME NEW c \in Clients,
             HandleAuthCreate(c) \/ HandleAuthRotate(c)
      PROVE  \E ok \in BOOLEAN : Create(ok) /\ given' \subseteq given \cup {born'}
  BY <1>1 DEF HandleAuthCreate, HandleAuthRotate
<1>2. ASSUME NEW c \in Clients,
             \/ HandleHeartbeatPut(c) \/ HandleHeartbeatDelete(c) \/ SaveRead(c) \/ SaveTmp(c)
             \/ SaveFails(c) \/ SaveRename(c)
      PROVE  UNCHANGED <<boot, tokens, credFile, born, given, gone>>
  BY <1>2 DEF HandleHeartbeatPut, HandleHeartbeatDelete, Set, SaveRead, SaveTmp, SaveFails, SaveRename,
     authVars
<1>3. RunStep => UNCHANGED <<boot, tokens, credFile, born, given, gone>>
  BY DEF RunStep, RunTop, Tick, Post, TakeTrigger, Timer, authVars
<1>4. ASSUME NEW c \in Clients,
             HandleAuthDelete(c) \/ RotateRevoke(c) \/ HandleAuthBootstrapDisable(c)
      PROVE  UNCHANGED given
  BY <1>4 DEF HandleAuthDelete, RotateRevoke, HandleAuthBootstrapDisable
<1> QED
  BY <1>1, <1>2, <1>3, <1>4 DEF Next, Continue

LEMMA CreateEffect ==
  ASSUME TypeOK, NEW ok \in BOOLEAN, Create(ok)
  PROVE  /\ born' = born + 1 /\ born' \in 1..MaxTokens /\ 1..born \subseteq 1..born'
         /\ born' \in (1..born') \ (1..born) /\ UNCHANGED <<boot, gone>>
         /\ \/ tokens' = tokens \cup {born'} /\ credFile' = [boot |-> boot, tokens |-> tokens']
            \/ tokens' = tokens /\ credFile' = credFile
<1>1. born \in Nat /\ MaxTokens \in Nat
  BY AgentAssumption DEF TypeOK
<1>2. born < MaxTokens /\ born' = born + 1 /\ UNCHANGED <<boot, gone>>
  BY DEF Create
<1>3. \/ tokens' = tokens \cup {born'} /\ credFile' = [boot |-> boot, tokens |-> tokens']
      \/ tokens' = tokens /\ credFile' = credFile
  BY DEF Create, Save
<1> QED
  BY <1>1, <1>2, <1>3

\* Delete counts before it removes.
LEMMA DeleteEffect ==
  ASSUME TypeOK, NEW c \in Clients, HandleAuthDelete(c)
  PROVE  /\ UNCHANGED <<born, boot>> /\ (boot' \/ tokens' # {})
         /\ \E t \in tokens :
              /\ tokens' = tokens \ {t}
              /\ \/ credFile' = [boot |-> boot', tokens |-> tokens'] /\ gone' = gone \cup {t}
                 \/ UNCHANGED <<credFile, gone>>
<1>1. PICK t \in tokens, ok \in BOOLEAN : Delete(t, ok) /\ UNCHANGED <<boot, born>>
  BY DEF HandleAuthDelete, Delete
<1>2. tokens' = tokens \ {t}
  BY <1>1 DEF Delete
<1>3. boot \/ tokens' # {}
  <2>1. IsFiniteSet(tokens)
    <3>1. born \in Int /\ tokens \in SUBSET (1..born)
      BY AgentAssumption DEF TypeOK
    <3>2. IsFiniteSet(1..born)
      BY <3>1, FS_Interval
    <3> QED
      BY <3>1, <3>2, FS_Subset
  <2>2. boot \/ Cardinality(tokens') >= 1
    BY <1>1, <1>2, <2>1, FS_RemoveElement, FS_CardinalityType DEF Delete
  <2> QED
    BY <2>2, FS_EmptySet
<1>4. \/ credFile' = [boot |-> boot', tokens |-> tokens'] /\ gone' = gone \cup {t}
      \/ UNCHANGED <<credFile, gone>>
  BY <1>1 DEF Delete, Save
<1> QED
  BY <1>1, <1>2, <1>3, <1>4

\* What deleting, revoking and disabling the bootstrap token do to the credentials.
LEMMA RemoveEffect ==
  ASSUME TypeOK, NEW c \in Clients,
         HandleAuthDelete(c) \/ RotateRevoke(c) \/ HandleAuthBootstrapDisable(c)
  PROVE  /\ UNCHANGED born /\ boot' \in {boot, FALSE} /\ tokens' \subseteq tokens
         /\ \/ credFile' = [boot |-> boot', tokens |-> tokens'] /\ gone' = gone \cup (tokens \ tokens')
            \/ UNCHANGED <<credFile, gone>>
<1>1. CASE HandleAuthDelete(c)
  <2>1. PICK t \in tokens :
          /\ tokens' = tokens \ {t}
          /\ \/ credFile' = [boot |-> boot', tokens |-> tokens'] /\ gone' = gone \cup {t}
             \/ UNCHANGED <<credFile, gone>>
    BY <1>1, DeleteEffect
  <2>2. tokens \ tokens' = {t}
    BY <2>1
  <2> QED
    BY <1>1, <2>1, <2>2, DeleteEffect
<1>2. CASE RotateRevoke(c)
  <2>1. tokens' = tokens \cap {job[c].token} /\ tokens \ tokens' = tokens \ {job[c].token}
        /\ UNCHANGED <<boot, born>>
    BY <1>2 DEF RotateRevoke
  <2>2. \/ credFile' = [boot |-> boot', tokens |-> tokens']
           /\ gone' = gone \cup (tokens \ {job[c].token})
        \/ UNCHANGED <<credFile, gone>>
    BY <1>2 DEF RotateRevoke, Save
  <2> QED
    BY <1>2, <2>1, <2>2
<1>3. CASE HandleAuthBootstrapDisable(c)
  <2>1. boot' = FALSE /\ UNCHANGED <<tokens, gone, born>> /\ tokens # {}
    BY <1>3 DEF HandleAuthBootstrapDisable
  <2>2. credFile' = [boot |-> boot', tokens |-> tokens'] \/ UNCHANGED credFile
    BY <1>3 DEF HandleAuthBootstrapDisable, Save
  <2> QED
    BY <1>3, <2>1, <2>2
<1> QED
  BY <1>1, <1>2, <1>3

\* The credentials keep their types, and an id is given out once.
LEMMA CredTypes ==
  ASSUME TypeOK, Next
  PROVE  /\ boot' \in BOOLEAN /\ born' \in 0..MaxTokens /\ born' >= born
         /\ tokens' \subseteq 1..born' /\ credFile' \in [boot : BOOLEAN, tokens : SUBSET (1..born')]
         /\ given' \cup gone' \subseteq 1..born'
<1> DEFINE Ids == 1..born
<1>0. /\ MaxTokens \in Nat /\ born \in Nat /\ born <= MaxTokens /\ boot \in BOOLEAN
      /\ tokens \subseteq Ids /\ credFile \in [boot : BOOLEAN, tokens : SUBSET Ids]
      /\ given \cup gone \subseteq Ids
  BY AgentAssumption DEF TypeOK
<1>1. \/ UNCHANGED born
      \/ /\ born' = born + 1 /\ born' \in 1..MaxTokens
         /\ \E ok \in BOOLEAN : Create(ok) /\ given' \subseteq given \cup {born'}
  BY CredSteps, CreateEffect, RemoveEffect DEF RotateAnswer, Crash
<1>2. born' \in 0..MaxTokens /\ born' >= born /\ Ids \subseteq Ids'
      /\ (born' # born => born' \in Ids')
  BY <1>0, <1>1
<1>3. \A c \in Clients : RotateAnswer(c) => job[c].token \in Ids
  <2>1. ASSUME NEW c \in Clients, RotateAnswer(c) PROVE job[c].token \in 0..born /\ job[c].token # 0
    BY <2>1 DEF TypeOK, RotateAnswer
  <2> QED
    BY <1>0, <2>1
<1> HIDE DEF Ids
<1>4. /\ boot' \in BOOLEAN /\ tokens' \subseteq Ids' /\ credFile' \in [boot : BOOLEAN, tokens : SUBSET Ids']
      /\ given' \cup gone' \subseteq Ids'
  <2>1. ASSUME NEW ok \in BOOLEAN, Create(ok), given' \subseteq given \cup {born'}
        PROVE  <1>4!:
    <3>1. /\ UNCHANGED <<boot, gone>> /\ born' \in Ids'
          /\ \/ tokens' = tokens \cup {born'} /\ credFile' = [boot |-> boot, tokens |-> tokens']
             \/ tokens' = tokens /\ credFile' = credFile
      BY <1>0, <1>2, <2>1, CreateEffect
    <3>2. tokens' \subseteq Ids' /\ given' \cup gone' \subseteq Ids'
      BY <1>0, <1>2, <2>1, <3>1
    <3>3. credFile' \in [boot : BOOLEAN, tokens : SUBSET Ids']
      <4>1. credFile \in [boot : BOOLEAN, tokens : SUBSET Ids']
        BY <1>0, <1>2
      <4>2. [boot |-> boot, tokens |-> tokens'] \in [boot : BOOLEAN, tokens : SUBSET Ids']
        BY <1>0, <3>2
      <4> QED
        BY <3>1, <4>1, <4>2
    <3> QED
      BY <1>0, <3>1, <3>2, <3>3
  <2>2. ASSUME NEW c \in Clients, UNCHANGED given,
               HandleAuthDelete(c) \/ RotateRevoke(c) \/ HandleAuthBootstrapDisable(c)
        PROVE  <1>4!:
    <3>1. /\ boot' \in BOOLEAN /\ tokens' \subseteq tokens
          /\ \/ credFile' = [boot |-> boot', tokens |-> tokens'] /\ gone' = gone \cup (tokens \ tokens')
             \/ UNCHANGED <<credFile, gone>>
      BY <1>0, <2>2, RemoveEffect
    <3> QED
      BY <1>0, <1>2, <2>2, <3>1
  <2>3. ASSUME NEW c \in Clients, RotateAnswer(c)
        PROVE  <1>4!:
    <3>1. UNCHANGED <<boot, tokens, credFile, gone>> /\ given' = given \cup {job[c].token}
      BY <2>3 DEF RotateAnswer
    <3> QED
      BY <1>0, <1>2, <1>3, <2>3, <3>1
  <2>4. CASE Crash
    <3>1. boot' = credFile.boot /\ tokens' = credFile.tokens /\ UNCHANGED <<credFile, given, gone>>
      BY <2>4 DEF Crash
    <3> QED
      BY <1>0, <1>2, <3>1
  <2>5. CASE UNCHANGED <<boot, tokens, credFile, born, given, gone>>
    BY <1>0, <1>2, <2>5
  <2> QED
    BY <2>1, <2>2, <2>3, <2>4, <2>5, CredSteps
<1> QED
  BY <1>2, <1>4 DEF Ids

\* The heartbeat's state keeps its types: nothing is enabled or saved without a spec.
LEMMA HbTypes ==
  ASSUME TypeOK, Next
  PROVE  /\ Saved(enabled', spec') \in HbStates /\ {hbFile', hbTmp'} \subseteq HbStates \cup {NoFile}
         /\ trigger' \in BOOLEAN /\ off' \in BOOLEAN /\ failed' \in BOOLEAN
<1>0. /\ Saved(enabled, spec) \in HbStates /\ hbFile \in HbStates \cup {NoFile}
      /\ hbTmp \in HbStates \cup {NoFile}
      /\ trigger \in BOOLEAN /\ off \in BOOLEAN /\ failed \in BOOLEAN
      /\ \A c \in Clients : job[c].saved \in HbStates /\ job[c].off \in BOOLEAN
  BY DEF TypeOK
<1>1. ASSUME NEW c \in Clients,
             \/ HandleAuthCreate(c) \/ HandleAuthDelete(c) \/ HandleAuthRotate(c)
             \/ HandleAuthBootstrapDisable(c) \/ RotateRevoke(c) \/ RotateAnswer(c) \/ SaveRead(c)
      PROVE  UNCHANGED hbVars
  BY <1>1 DEF HandleAuthCreate, HandleAuthDelete, HandleAuthRotate, HandleAuthBootstrapDisable,
     RotateRevoke, RotateAnswer, SaveRead
<1>2. ASSUME NEW c \in Clients, HandleHeartbeatPut(c) \/ HandleHeartbeatDelete(c)
      PROVE  /\ Saved(enabled', spec') \in HbStates /\ off' = FALSE
             /\ UNCHANGED <<hbFile, hbTmp, trigger, failed>>
  <2>1. CASE HandleHeartbeatPut(c)
    BY <2>1 DEF HandleHeartbeatPut, Set, Saved, HbStates
  <2>2. CASE HandleHeartbeatDelete(c)
    BY <1>0, <2>2 DEF HandleHeartbeatDelete, Set, Saved, HbStates
  <2> QED
    BY <1>2, <2>1, <2>2
<1>3. ASSUME NEW c \in Clients, SaveTmp(c) \/ SaveFails(c)
      PROVE  /\ UNCHANGED <<enabled, spec, hbFile, trigger, off>>
             /\ hbTmp' \in {hbTmp, job[c].saved} /\ failed' \in {failed, TRUE}
  BY <1>3 DEF SaveTmp, SaveFails
<1>4. ASSUME NEW c \in Clients, SaveRename(c)
      PROVE  /\ UNCHANGED <<enabled, spec>> /\ hbFile' = hbTmp /\ hbTmp' = NoFile
             /\ trigger' = TRUE /\ failed' = FALSE /\ off' = job[c].off
  BY <1>4 DEF SaveRename
<1>5. RunStep => /\ UNCHANGED <<enabled, spec, hbFile, hbTmp, off, failed>>
                 /\ trigger' \in {trigger, FALSE}
  BY DEF RunStep, RunTop, Tick, Post, TakeTrigger, Timer, hbVars
<1>6. CASE Crash
  <2>1. PICK s \in Seeded(hbFile) :
          enabled' = s.mem.enabled /\ spec' = s.mem.spec /\ hbFile' = s.file /\ trigger' = s.kick
    BY <1>6 DEF Crash
  <2>2. s.mem \in HbStates /\ s.file \in HbStates \cup {NoFile} /\ s.kick \in BOOLEAN
    BY <1>0, SeededTypes
  <2>3. Saved(s.mem.enabled, s.mem.spec) \in HbStates
    BY <2>2 DEF Saved, HbStates
  <2>4. UNCHANGED <<hbTmp, off>> /\ failed' = FALSE
    BY <1>6 DEF Crash
  <2> QED
    BY <1>0, <2>1, <2>2, <2>3, <2>4
<1>7. CASE UNCHANGED hbVars
  BY <1>0, <1>7 DEF hbVars
<1>8. CASE \E c \in Clients : HandleHeartbeatPut(c) \/ HandleHeartbeatDelete(c)
  BY <1>0, <1>2, <1>8
<1>9. CASE \E c \in Clients : SaveTmp(c) \/ SaveFails(c)
  BY <1>0, <1>3, <1>9
<1>10. CASE \E c \in Clients : SaveRename(c)
  BY <1>0, <1>4, <1>10
<1>11. CASE RunStep
  BY <1>0, <1>5, <1>11
<1> QED
  BY <1>1, <1>6, <1>7, <1>8, <1>9, <1>10, <1>11 DEF Next, Continue

\* So do the clients' requests.
LEMMA JobTypes ==
  ASSUME TypeOK, Next
  PROVE  /\ pc' \in [Clients -> {"idle", "rotate", "revoke", "save", "tmp", "rename"}]
         /\ job' \in [Clients -> [token : 0..born', saved : HbStates, off : BOOLEAN]]
         /\ \A c \in Clients : pc'[c] \in {"rotate", "revoke"} => job'[c].token # 0
         /\ outbound' \in 0..born'
<1> DEFINE Ids == 0..born
           Labels == {"idle", "rotate", "revoke", "save", "tmp", "rename"}
           Jobs == [token : Ids, saved : HbStates, off : BOOLEAN]
<1>0. /\ pc \in [Clients -> Labels] /\ job \in [Clients -> Jobs] /\ outbound \in Ids
      /\ \A c \in Clients : pc[c] \in {"rotate", "revoke"} => job[c].token # 0
      /\ Saved(enabled, spec) \in HbStates
  BY DEF TypeOK
<1>1. Ids \subseteq Ids' /\ 0 \in Ids' /\ born' \in Ids' /\ born' \in Nat /\ born \in Nat
  BY CredTypes DEF TypeOK
<1>2. NoJob \in Jobs' /\ NoJob.token = 0
  BY <1>1 DEF NoJob, Saved, HbStates
<1> HIDE DEF Ids
<1>3. job \in [Clients -> Jobs']
  BY <1>0, <1>1
<1>4. ASSUME NEW c \in Clients, NEW l \in Labels, NEW j \in Jobs', Goto(c, l, j),
             l \in {"rotate", "revoke"} => j.token # 0
      PROVE  /\ pc' \in [Clients -> Labels] /\ job' \in [Clients -> Jobs']
             /\ \A d \in Clients : pc'[d] \in {"rotate", "revoke"} => job'[d].token # 0
  <2>1. pc' \in [Clients -> Labels] /\ job' \in [Clients -> Jobs']
    <3> HIDE DEF Labels, Jobs
    <3> QED
      BY <1>0, <1>3, <1>4 DEF Goto
  <2> QED
    BY <1>0, <1>4, <2>1, Moves
<1>5. ASSUME NEW c \in Clients, Answer(c)
      PROVE  /\ pc' \in [Clients -> Labels] /\ job' \in [Clients -> Jobs']
             /\ \A d \in Clients : pc'[d] \in {"rotate", "revoke"} => job'[d].token # 0
  BY <1>2, <1>4, <1>5 DEF Answer, Goto
<1>6. outbound' \in Ids'
  <2>1. outbound' \in {outbound, 0} \/ \E c \in Clients : outbound' = job[c].token
    BY DEF Next, HandleAuthCreate, HandleAuthDelete, HandleAuthRotate, HandleAuthBootstrapDisable,
       HandleHeartbeatPut, HandleHeartbeatDelete, Set, Continue, RotateRevoke, RotateAnswer, SaveRead,
       SaveTmp, SaveFails, SaveRename, RunStep, RunTop, Tick, Post, TakeTrigger, Timer, Crash
  <2> QED
    BY <1>0, <1>1, <2>1
<1>7. ASSUME NEW c \in Clients,
             \/ HandleAuthCreate(c) \/ HandleAuthDelete(c) \/ HandleAuthBootstrapDisable(c)
             \/ RotateAnswer(c) \/ SaveFails(c) \/ SaveRename(c)
      PROVE  Answer(c)
  BY <1>7 DEF HandleAuthCreate, HandleAuthDelete, HandleAuthBootstrapDisable, RotateAnswer, SaveFails,
     SaveRename
<1>8. ASSUME NEW c \in Clients, HandleAuthRotate(c)
      PROVE  Answer(c) \/ \E l \in {"rotate", "revoke"} : Goto(c, l, [NoJob EXCEPT !.token = born'])
  BY <1>8 DEF HandleAuthRotate
<1>9. [NoJob EXCEPT !.token = born'] \in Jobs' /\ [NoJob EXCEPT !.token = born'].token = born'
  BY <1>1, <1>2 DEF NoJob
<1>10. ASSUME NEW c \in Clients, HandleAuthRotate(c) PROVE born' # 0
  BY <1>1, <1>10 DEF HandleAuthRotate, Create
<1>11. ASSUME NEW c \in Clients, HandleHeartbeatPut(c) \/ HandleHeartbeatDelete(c)
       PROVE  \E b \in BOOLEAN : Goto(c, "save", [NoJob EXCEPT !.off = b])
  BY <1>11 DEF HandleHeartbeatPut, HandleHeartbeatDelete, Set
<1>12. \A b \in BOOLEAN : [NoJob EXCEPT !.off = b] \in Jobs'
  BY <1>2 DEF NoJob
<1>13. ASSUME NEW c \in Clients, RotateRevoke(c) \/ SaveRead(c) \/ SaveTmp(c)
       PROVE  \/ Goto(c, "rotate", job[c]) /\ job[c].token # 0
              \/ Goto(c, "tmp", [job[c] EXCEPT !.saved = Saved(enabled, spec)])
              \/ Goto(c, "rename", job[c])
  BY <1>0, <1>13 DEF RotateRevoke, SaveRead, SaveTmp
<1>14. ASSUME NEW c \in Clients
       PROVE  job[c] \in Jobs' /\ [job[c] EXCEPT !.saved = Saved(enabled, spec)] \in Jobs'
  BY <1>0, <1>3
<1>15. RunStep => UNCHANGED <<pc, job>>
  BY DEF RunStep, RunTop, Tick, Post, TakeTrigger, Timer
<1>16. Crash => pc' = [c \in Clients |-> "idle"] /\ job' = [c \in Clients |-> NoJob]
  BY DEF Crash
<1> HIDE DEF Jobs
<1>17. /\ pc' \in [Clients -> Labels] /\ job' \in [Clients -> Jobs']
       /\ \A c \in Clients : pc'[c] \in {"rotate", "revoke"} => job'[c].token # 0
  <2>1. CASE \E c \in Clients : Answer(c)
    BY <1>5, <2>1
  <2>2. CASE \E c \in Clients : \E l \in {"rotate", "revoke"} :
               HandleAuthRotate(c) /\ Goto(c, l, [NoJob EXCEPT !.token = born'])
    BY <1>4, <1>9, <1>10, <2>2
  <2>3. CASE \E c \in Clients : HandleHeartbeatPut(c) \/ HandleHeartbeatDelete(c)
    BY <1>4, <1>11, <1>12, <2>3
  <2>4. CASE \E c \in Clients : RotateRevoke(c) \/ SaveRead(c) \/ SaveTmp(c)
    BY <1>4, <1>13, <1>14, <2>4
  <2>5. CASE RunStep
    BY <1>0, <1>3, <1>15, <2>5
  <2>6. CASE Crash
    BY <1>2, <1>16, <2>6
  <2> QED
    BY <1>7, <1>8, <2>1, <2>2, <2>3, <2>4, <2>5, <2>6 DEF Next, Continue
<1> QED
  BY <1>6, <1>17 DEF Ids, Jobs

\* So do the loop and the counters.
LEMMA LoopTypes ==
  ASSUME TypeOK, Next
  PROVE  /\ loop' \in [pc : {"top", "wait", "tick", "post", "timer"}, spec : Specs \cup {NoSpec}]
         /\ requests' \in 0..MaxRequests /\ faults' \in 0..MaxFaults /\ crashes' \in 0..MaxCrashes
<1>0. /\ loop \in [pc : {"top", "wait", "tick", "post", "timer"}, spec : Specs \cup {NoSpec}]
      /\ spec \in Specs \cup {NoSpec}
      /\ MaxRequests \in Nat /\ MaxFaults \in Nat /\ MaxCrashes \in Nat
      /\ requests \in 0..MaxRequests /\ faults \in 0..MaxFaults /\ crashes \in 0..MaxCrashes
  BY AgentAssumption DEF TypeOK, Saved, HbStates
<1>1. \/ UNCHANGED loop
      \/ \E l \in {"top", "wait", "tick", "timer"} : Loop(l, NoSpec)
      \/ Loop("post", spec)
      \/ loop' = [pc |-> "top", spec |-> NoSpec]
  BY DEF Next, HandleAuthCreate, HandleAuthDelete, HandleAuthRotate, HandleAuthBootstrapDisable,
     HandleHeartbeatPut, HandleHeartbeatDelete, Set, Continue, RotateRevoke, RotateAnswer, SaveRead,
     SaveTmp, SaveFails, SaveRename, RunStep, RunTop, Tick, Post, TakeTrigger, Timer, Crash
<1>4. \/ UNCHANGED requests
      \/ requests < MaxRequests /\ requests' = requests + 1
  BY DEF Next, HandleAuthCreate, HandleAuthDelete, HandleAuthRotate, HandleAuthBootstrapDisable,
     HandleHeartbeatPut, HandleHeartbeatDelete, Request, Continue, RotateRevoke, RotateAnswer, SaveRead,
     SaveTmp, SaveFails, SaveRename, RunStep, RunTop, Tick, Post, TakeTrigger, Timer, Crash, counts
<1>5. \/ UNCHANGED crashes
      \/ crashes < MaxCrashes /\ crashes' = crashes + 1
  BY DEF Next, HandleAuthCreate, HandleAuthDelete, HandleAuthRotate, HandleAuthBootstrapDisable,
     HandleHeartbeatPut, HandleHeartbeatDelete, Request, Continue, RotateRevoke, RotateAnswer, SaveRead,
     SaveTmp, SaveFails, SaveRename, RunStep, RunTop, Tick, Post, TakeTrigger, Timer, Crash, counts
<1>6. \/ UNCHANGED faults
      \/ faults < MaxFaults /\ faults' = faults + 1
  BY DEF Next, HandleAuthCreate, HandleAuthDelete, HandleAuthRotate, HandleAuthBootstrapDisable,
     HandleHeartbeatPut, HandleHeartbeatDelete, Create, Delete, Save, Set, Continue, RotateRevoke,
     RotateAnswer, SaveRead, SaveTmp, SaveFails, SaveRename, RunStep, RunTop, Tick, Post, TakeTrigger,
     Timer, Crash, counts
<1>7. loop' \in [pc : {"top", "wait", "tick", "post", "timer"}, spec : Specs \cup {NoSpec}]
  BY <1>0, <1>1 DEF Loop
<1> QED
  BY <1>0, <1>4, <1>5, <1>6, <1>7

\* Every reachable state of the credentials, of the heartbeat and of the requests has its type.
THEOREM TypeCorrect == Spec => []TypeOK
<1>1. Init => TypeOK
  <2> SUFFICES ASSUME Init PROVE TypeOK
    OBVIOUS
  <2>1. PICK s \in Seeded(NoFile) :
          enabled = s.mem.enabled /\ spec = s.mem.spec /\ hbFile = s.file /\ trigger = s.kick
    BY DEF Init
  <2>2. s.mem \in HbStates /\ s.file \in HbStates \cup {NoFile} /\ s.kick \in BOOLEAN
    BY SeededTypes
  <2>3. Saved(enabled, spec) \in HbStates
    BY <2>1, <2>2 DEF Saved, HbStates
  <2>4. NoJob \in [token : 0..born, saved : HbStates, off : BOOLEAN]
    BY DEF Init, NoJob, Saved, HbStates
  <2>5. MaxTokens \in Nat /\ MaxRequests \in Nat /\ MaxFaults \in Nat /\ MaxCrashes \in Nat
    BY AgentAssumption
  <2>6. pc \in [Clients -> {"idle", "rotate", "revoke", "save", "tmp", "rename"}]
        /\ job \in [Clients -> [token : 0..born, saved : HbStates, off : BOOLEAN]]
        /\ \A c \in Clients : pc[c] \in {"rotate", "revoke"} => job[c].token # 0
    BY <2>4 DEF Init
  <2>7. /\ boot \in BOOLEAN /\ born \in 0..MaxTokens /\ tokens \subseteq 1..born
        /\ credFile \in [boot : BOOLEAN, tokens : SUBSET (1..born)] /\ given \cup gone \subseteq 1..born
    BY <2>5 DEF Init
  <2>8. /\ outbound \in 0..born /\ off \in BOOLEAN /\ failed \in BOOLEAN
        /\ loop \in [pc : {"top", "wait", "tick", "post", "timer"}, spec : Specs \cup {NoSpec}]
        /\ requests \in 0..MaxRequests /\ faults \in 0..MaxFaults /\ crashes \in 0..MaxCrashes
    <3>1. loop \in [pc : {"top", "wait", "tick", "post", "timer"}, spec : Specs \cup {NoSpec}]
      BY DEF Init
    <3>2. requests \in 0..MaxRequests /\ faults \in 0..MaxFaults /\ crashes \in 0..MaxCrashes
      BY <2>5 DEF Init
    <3>3. outbound \in 0..born
      BY DEF Init
    <3>4. off \in BOOLEAN /\ failed \in BOOLEAN
      BY Zenon DEF Init
    <3> QED
      BY <3>1, <3>2, <3>3, <3>4
  <2>9. {hbFile, hbTmp} \subseteq HbStates \cup {NoFile} /\ trigger \in BOOLEAN
    BY <2>1, <2>2 DEF Init
  <2> QED
    BY <2>3, <2>6, <2>7, <2>8, <2>9 DEF TypeOK
<1>2. TypeOK /\ [Next]_vars => TypeOK'
  <2>1. CASE Next
    BY <2>1, CredTypes, HbTypes, JobTypes, LoopTypes DEF TypeOK
  <2>2. CASE UNCHANGED vars
    BY <2>2 DEF vars, authVars, hbVars, counts, TypeOK
  <2> QED
    BY <2>1, <2>2
<1> QED
  BY <1>1, <1>2, PTL DEF Spec

-----------------------------------------------------------------------------
(* What a client was told about tokens *)

LEMMA KeptStep ==
  ASSUME TypeOK, Kept, Next
  PROVE  Kept'
<1>1. ASSUME NEW ok \in BOOLEAN, Create(ok) PROVE Kept'
  <2>1. born' \notin gone
    BY <1>1, CreateEffect DEF TypeOK
  <2> QED
    BY <1>1, <2>1, CreateEffect DEF Kept
<1>2. ASSUME NEW c \in Clients,
             HandleAuthDelete(c) \/ RotateRevoke(c) \/ HandleAuthBootstrapDisable(c)
      PROVE  Kept'
  <2>1. /\ tokens' \subseteq tokens
        /\ \/ credFile' = [boot |-> boot', tokens |-> tokens'] /\ gone' = gone \cup (tokens \ tokens')
           \/ UNCHANGED <<credFile, gone>>
    BY <1>2, RemoveEffect
  <2> QED
    BY <2>1 DEF Kept
<1>3. ASSUME NEW c \in Clients, RotateAnswer(c) PROVE Kept'
  BY <1>3 DEF RotateAnswer, Kept
<1>4. CASE Crash
  BY <1>4 DEF Crash, Kept
<1>5. CASE UNCHANGED <<boot, tokens, credFile, born, given, gone>>
  BY <1>5 DEF Kept
<1> QED
  BY <1>1, <1>2, <1>3, <1>4, <1>5, CredSteps

\* A token that was handed out and is accepted is accepted after a restart, and one whose removal
\* was written is never accepted again: Create, Delete, Rotate and DisableBootstrap write under the
\* lock, and a failed write of a removal leaves more in the file than in memory, never less.
THEOREM AnswersKept == Spec => []AnswersHold
<1>1. Init => Kept
  BY DEF Init, Kept
<1>2. TypeOK /\ Kept /\ [Next]_vars => Kept'
  <2>1. CASE Next
    BY <2>1, KeptStep
  <2>2. CASE UNCHANGED vars
    BY <2>2 DEF vars, authVars, Kept
  <2> QED
    BY <2>1, <2>2
<1>3. Kept => AnswersHold
  BY DEF Kept, AnswersHold
<1> QED
  BY <1>1, <1>2, <1>3, TypeCorrect, PTL DEF Spec

-----------------------------------------------------------------------------
(* Somebody can log in *)

\* What CountActive counts.
LEMMA ActivePositive ==
  ASSUME NEW b \in BOOLEAN, NEW n \in Nat, NEW S \in SUBSET (1..n)
  PROVE  Active(b, S) > 0 <=> b \/ S # {}
<1>1. IsFiniteSet(S)
  <2>1. n \in Int /\ IsFiniteSet(1..n)
    BY FS_Interval
  <2> QED
    BY <2>1, FS_Subset
<1>2. Cardinality(S) \in Nat /\ (Cardinality(S) = 0 <=> S = {})
  BY <1>1, FS_CardinalityType, FS_EmptySet
<1>3. CASE b
  <2>1. Active(b, S) = Cardinality(S) + 1
    BY <1>3, Zenon DEF Active
  <2>2. Active(b, S) > 0
    BY <1>2, <2>1
  <2> QED
    BY <1>3, <2>2
<1>4. CASE ~b
  <2>1. Active(b, S) = Cardinality(S) + 0
    BY <1>4, Zenon DEF Active
  <2>2. Active(b, S) > 0 <=> Cardinality(S) # 0
    BY <1>2, <2>1
  <2> QED
    BY <1>2, <1>4, <2>2, Zenon
<1> QED
  BY <1>3, <1>4

LEMMA LockStep ==
  ASSUME SerialRevocation, TypeOK, LockInv, Next
  PROVE  LockInv'
<1>0. /\ boot \/ tokens # {}
      /\ credFile.boot \/ credFile.tokens # {}
      /\ \A c \in Clients : pc[c] = "revoke" => "revoke" \in Operation[c] /\ job[c].token \in tokens
  BY DEF LockInv
<1>1. ASSUME NEW c \in Clients, HandleAuthCreate(c) PROVE LockInv'
  <2>1. PICK ok \in BOOLEAN : Create(ok) /\ Answer(c)
    BY <1>1 DEF HandleAuthCreate
  <2> QED
    BY <1>0, <2>1, CreateEffect, Answers DEF LockInv
<1>2. ASSUME NEW c \in Clients, HandleAuthRotate(c) PROVE LockInv'
  <2>1. PICK op \in {"rotate", "revoke"}, ok \in BOOLEAN :
          /\ Request(c, op) /\ Create(ok)
          /\ IF ok THEN Goto(c, op, [NoJob EXCEPT !.token = born']) ELSE Answer(c)
    BY <1>2 DEF HandleAuthRotate
  <2>2. op \in Operation[c]
    BY <2>1 DEF Request
  <2>3. CASE ok
    <3>1. tokens' = tokens \cup {born'} /\ UNCHANGED boot
          /\ credFile' = [boot |-> boot, tokens |-> tokens']
      BY <2>1, <2>3 DEF Create, Save
    <3>2. [NoJob EXCEPT !.token = born'].token = born'
      BY DEF NoJob
    <3>3. /\ pc'[c] = op /\ job'[c].token = born'
          /\ \A d \in Clients : d # c => pc'[d] = pc[d] /\ job'[d] = job[d]
      <4> DEFINE j == [NoJob EXCEPT !.token = born']
      <4>1. Goto(c, op, j)
        BY <2>1, <2>3
      <4>2. j.token = born'
        BY <3>2
      <4> HIDE DEF j
      <4> QED
        BY <4>1, <4>2, Moves
    <3> QED
      BY <1>0, <2>2, <3>1, <3>3 DEF LockInv
  <2>4. CASE ~ok
    BY <1>0, <2>1, <2>4, CreateEffect, Answers DEF LockInv
  <2> QED
    BY <2>3, <2>4
<1>3. ASSUME NEW c \in Clients, HandleAuthDelete(c) PROVE LockInv'
  <2>1. Answer(c) /\ "delete" \in Operation[c]
    BY <1>3 DEF HandleAuthDelete, Request
  <2>2. \A d \in Clients : d # c => pc[d] # "revoke"
    BY <1>0, <2>1 DEF SerialRevocation
  <2>3. \A d \in Clients : pc'[d] # "revoke"
    BY <2>1, <2>2, Answers
  <2>4. /\ UNCHANGED boot /\ (boot' \/ tokens' # {})
        /\ \/ credFile' = [boot |-> boot', tokens |-> tokens']
           \/ UNCHANGED credFile
    BY <1>3, DeleteEffect
  <2> QED
    BY <1>0, <2>3, <2>4 DEF LockInv
<1>4. ASSUME NEW c \in Clients, RotateRevoke(c) PROVE LockInv'
  <2>1. /\ pc[c] = "revoke" /\ Goto(c, "rotate", job[c]) /\ tokens' = tokens \cap {job[c].token}
        /\ UNCHANGED boot /\ credFile' \in {credFile, [boot |-> boot, tokens |-> tokens']}
    BY <1>4 DEF RotateRevoke, Save
  <2>2. job[c].token \in tokens'
    BY <1>0, <2>1
  <2>3. \A d \in Clients : d # c => pc[d] # "revoke"
    BY <1>0, <2>1 DEF SerialRevocation
  <2>4. \A d \in Clients : pc'[d] # "revoke"
    BY <2>1, <2>3, Moves
  <2> QED
    BY <1>0, <2>1, <2>2, <2>4 DEF LockInv
<1>5. ASSUME NEW c \in Clients, HandleAuthBootstrapDisable(c) PROVE LockInv'
  <2>1. /\ Answer(c) /\ tokens # {} /\ UNCHANGED tokens
        /\ credFile' \in {credFile, [boot |-> FALSE, tokens |-> tokens]}
    BY <1>5 DEF HandleAuthBootstrapDisable, Save
  <2> QED
    BY <1>0, <2>1, Answers DEF LockInv
<1>6. ASSUME NEW c \in Clients,
             \/ HandleHeartbeatPut(c) \/ HandleHeartbeatDelete(c) \/ RotateAnswer(c) \/ SaveRead(c)
             \/ SaveTmp(c) \/ SaveFails(c) \/ SaveRename(c)
      PROVE  LockInv'
  <2>1. /\ UNCHANGED <<boot, tokens, credFile>>
        /\ \/ Answer(c)
           \/ \E l \in {"save", "tmp", "rename"} : \E j : Goto(c, l, j)
    BY <1>6 DEF HandleHeartbeatPut, HandleHeartbeatDelete, Set, RotateAnswer, SaveRead, SaveTmp,
       SaveFails, SaveRename, authVars
  <2>2. pc'[c] # "revoke" /\ \A d \in Clients : d # c => pc'[d] = pc[d] /\ job'[d] = job[d]
    BY <2>1, Answers, Moves
  <2> QED
    BY <1>0, <2>1, <2>2 DEF LockInv
<1>7. CASE RunStep
  <2>1. UNCHANGED <<boot, tokens, credFile, pc, job>>
    BY <1>7 DEF RunStep, RunTop, Tick, Post, TakeTrigger, Timer, authVars
  <2> QED
    BY <2>1 DEF LockInv
<1>8. CASE Crash
  BY <1>0, <1>8 DEF Crash, LockInv
<1> QED
  BY <1>1, <1>2, <1>3, <1>4, <1>5, <1>6, <1>7, <1>8 DEF Next, Continue

\* Somebody can always log in, now and after a restart, as long as no second client revokes or
\* deletes while one rotates with revoke_others: Delete and DisableBootstrap count before they
\* remove, and Rotate has created its token before it revokes the others.
THEOREM NobodyLockedOut == SerialRevocation => (Spec => []NoLockout)
<1> SUFFICES ASSUME SerialRevocation PROVE Spec => []NoLockout
  OBVIOUS
<1>1. Init => LockInv
  BY DEF Init, LockInv
<1>2. TypeOK /\ LockInv /\ [Next]_vars => LockInv'
  <2>1. CASE Next
    BY <2>1, LockStep
  <2>2. CASE UNCHANGED vars
    BY <2>2 DEF vars, authVars, LockInv
  <2> QED
    BY <2>1, <2>2
<1>3. TypeOK /\ LockInv => NoLockout
  <2> SUFFICES ASSUME TypeOK, LockInv PROVE NoLockout
    OBVIOUS
  <2>1. /\ born \in Nat /\ boot \in BOOLEAN /\ tokens \in SUBSET (1..born)
        /\ credFile.boot \in BOOLEAN /\ credFile.tokens \in SUBSET (1..born)
    BY AgentAssumption DEF TypeOK
  <2> QED
    BY <2>1, ActivePositive DEF LockInv, NoLockout
<1> QED
  BY <1>1, <1>2, <1>3, TypeCorrect, PTL DEF Spec

-----------------------------------------------------------------------------
(* The heartbeat stays off *)

\* A client that is not in the middle of a save has nothing to promise, and the save of another
\* one is undisturbed by what leaves the heartbeat alone.
LEMMA HbFrame ==
  ASSUME TypeOK, HbInv, NEW c \in Clients,
         UNCHANGED <<enabled, spec, hbFile, hbTmp, off>>, pc'[c] \notin Saving,
         \A d \in Clients : d # c => pc'[d] = pc[d] /\ job'[d] = job[d]
  PROVE  HbInv'
BY DEF HbInv, OffStaysOff, Saving

LEMMA HbStep ==
  ASSUME SerialHeartbeat, TypeOK, HbInv, Next
  PROVE  HbInv'
<1>0. /\ off => ~enabled /\ hbFile # NoFile /\ ~hbFile.enabled
      /\ \A c \in Clients :
           /\ pc[c] \in Saving => Operation[c] \cap {"put", "off"} # {} /\ ~off /\ (job[c].off => ~enabled)
           /\ pc[c] \in {"tmp", "rename"} => job[c].saved = Saved(enabled, spec)
           /\ pc[c] = "rename" => hbTmp = job[c].saved
  BY DEF HbInv, OffStaysOff
<1>1. ASSUME NEW c \in Clients, Operation[c] \cap {"put", "off"} # {}
      PROVE  \A d \in Clients : d # c => pc[d] \notin Saving
  BY <1>0, <1>1 DEF SerialHeartbeat
<1>2. ASSUME NEW c \in Clients,
             \/ HandleAuthCreate(c) \/ HandleAuthDelete(c) \/ HandleAuthRotate(c)
             \/ HandleAuthBootstrapDisable(c) \/ RotateRevoke(c) \/ RotateAnswer(c) \/ SaveFails(c)
      PROVE  HbInv'
  <2>1. /\ Answer(c) \/ \E l \in {"rotate", "revoke"} : \E j : Goto(c, l, j)
        /\ UNCHANGED <<enabled, spec, hbFile, hbTmp, off>>
    BY <1>2 DEF HandleAuthCreate, HandleAuthDelete, HandleAuthRotate, HandleAuthBootstrapDisable,
       RotateRevoke, RotateAnswer, SaveFails, hbVars
  <2>2. pc'[c] \notin Saving /\ \A d \in Clients : d # c => pc'[d] = pc[d] /\ job'[d] = job[d]
    BY <2>1, Answers, Moves DEF Saving
  <2> QED
    BY <2>1, <2>2, HbFrame
<1>3. ASSUME NEW c \in Clients, HandleHeartbeatPut(c) \/ HandleHeartbeatDelete(c)
      PROVE  HbInv'
  <2>1. PICK e \in BOOLEAN, b \in BOOLEAN :
          /\ enabled' = e /\ off' = FALSE /\ (b => ~e)
          /\ Goto(c, "save", [NoJob EXCEPT !.off = b]) /\ Operation[c] \cap {"put", "off"} # {}
    <3>1. CASE HandleHeartbeatPut(c)
      BY <3>1 DEF HandleHeartbeatPut, Set, Request
    <3>2. CASE HandleHeartbeatDelete(c)
      BY <3>2 DEF HandleHeartbeatDelete, Set, Request
    <3> QED
      BY <1>3, <3>1, <3>2
  <2>2. /\ pc'[c] = "save" /\ job'[c].off = b
        /\ \A d \in Clients : d # c => pc'[d] = pc[d] /\ job'[d] = job[d]
    <3> DEFINE j == [NoJob EXCEPT !.off = b]
    <3>1. Goto(c, "save", j)
      BY <2>1
    <3>2. j.off = b
      BY DEF NoJob
    <3> HIDE DEF j
    <3> QED
      BY <3>1, <3>2, Moves
  <2>3. \A d \in Clients : d # c => pc'[d] \notin Saving
    BY <1>1, <2>1, <2>2
  <2> QED
    BY <2>1, <2>2, <2>3 DEF HbInv, OffStaysOff, Saving
<1>4. ASSUME NEW c \in Clients, SaveRead(c) PROVE HbInv'
  <2>1. /\ pc[c] = "save" /\ UNCHANGED <<enabled, spec, hbFile, hbTmp, off>>
        /\ Goto(c, "tmp", [job[c] EXCEPT !.saved = Saved(enabled, spec)])
    BY <1>4 DEF SaveRead, hbVars
  <2>2. /\ pc'[c] = "tmp" /\ job'[c].off = job[c].off /\ job'[c].saved = Saved(enabled, spec)
        /\ \A d \in Clients : d # c => pc'[d] = pc[d] /\ job'[d] = job[d]
    <3> DEFINE j == [job[c] EXCEPT !.saved = Saved(enabled, spec)]
    <3>1. Goto(c, "tmp", j)
      BY <2>1
    <3>2. j.off = job[c].off /\ j.saved = Saved(enabled, spec)
      BY DEF TypeOK
    <3> HIDE DEF j
    <3> QED
      BY <3>1, <3>2, Moves
  <2>3. Saved(enabled, spec)' = Saved(enabled, spec)
    BY <2>1 DEF Saved
  <2> QED
    BY <1>0, <2>1, <2>2, <2>3 DEF HbInv, OffStaysOff, Saving
<1>5. ASSUME NEW c \in Clients, SaveTmp(c) PROVE HbInv'
  <2>1. /\ pc[c] = "tmp" /\ UNCHANGED <<enabled, spec, hbFile, off>>
        /\ hbTmp' = job[c].saved /\ Goto(c, "rename", job[c])
    BY <1>5 DEF SaveTmp
  <2>2. /\ pc'[c] = "rename" /\ job'[c] = job[c]
        /\ \A d \in Clients : d # c => pc'[d] = pc[d] /\ job'[d] = job[d]
    BY <2>1, Moves
  <2>3. \A d \in Clients : d # c => pc'[d] \notin Saving
    BY <1>0, <1>1, <2>1, <2>2 DEF Saving
  <2>4. Saved(enabled, spec)' = Saved(enabled, spec)
    BY <2>1 DEF Saved
  <2> QED
    BY <1>0, <2>1, <2>2, <2>3, <2>4 DEF HbInv, OffStaysOff, Saving
<1>6. ASSUME NEW c \in Clients, SaveRename(c) PROVE HbInv'
  <2>1. /\ pc[c] = "rename" /\ hbTmp # NoFile /\ UNCHANGED <<enabled, spec>>
        /\ hbFile' = hbTmp /\ off' = job[c].off /\ Answer(c)
    BY <1>6 DEF SaveRename
  <2>2. pc'[c] = "idle" /\ \A d \in Clients : d # c => pc'[d] = pc[d] /\ job'[d] = job[d]
    BY <2>1, Answers
  <2>3. \A d \in Clients : pc'[d] \notin Saving
    BY <1>0, <1>1, <2>1, <2>2 DEF Saving
  <2>4. job[c].off => ~enabled
    BY <1>0, <2>1 DEF Saving
  <2>5. hbTmp.enabled = enabled
    BY <1>0, <2>1 DEF Saved
  <2> QED
    BY <2>1, <2>3, <2>4, <2>5 DEF HbInv, OffStaysOff, Saving
<1>7. CASE RunStep
  <2>1. UNCHANGED <<enabled, spec, hbFile, hbTmp, off, pc, job>>
    BY <1>7 DEF RunStep, RunTop, Tick, Post, TakeTrigger, Timer, hbVars
  <2>2. Saved(enabled, spec)' = Saved(enabled, spec)
    BY <2>1 DEF Saved
  <2> QED
    BY <1>0, <2>1, <2>2 DEF HbInv, OffStaysOff
<1>8. CASE Crash
  <2>1. PICK s \in Seeded(hbFile) : enabled' = s.mem.enabled /\ hbFile' = s.file
    BY <1>8 DEF Crash
  <2>2. hbFile # NoFile => s.mem = hbFile /\ s.file = hbFile
    BY SeededTypes DEF TypeOK
  <2>3. off' = off /\ \A c \in Clients : pc'[c] = "idle"
    BY <1>8 DEF Crash
  <2> QED
    BY <1>0, <2>1, <2>2, <2>3 DEF HbInv, OffStaysOff, Saving
<1> QED
  BY <1>2, <1>3, <1>4, <1>5, <1>6, <1>7, <1>8 DEF Next, Continue

\* A heartbeat that was switched off, and answered, stays off until the next PUT, as long as one
\* client changes it at a time: Disable writes what it has set, and a state file wins over the
\* heartbeat of agent.yaml at a restart.
THEOREM HeartbeatStaysOff == SerialHeartbeat => (Spec => []OffStaysOff)
<1> SUFFICES ASSUME SerialHeartbeat PROVE Spec => []OffStaysOff
  OBVIOUS
<1>1. Init => HbInv
  BY DEF Init, HbInv, OffStaysOff, Saving
<1>2. TypeOK /\ HbInv /\ [Next]_vars => HbInv'
  <2>1. CASE Next
    BY <2>1, HbStep
  <2>2. CASE UNCHANGED vars
    BY <2>2 DEF vars, hbVars, HbInv, OffStaysOff, Saved
  <2> QED
    BY <2>1, <2>2
<1>3. HbInv => OffStaysOff
  BY DEF HbInv
<1> QED
  BY <1>1, <1>2, <1>3, TypeCorrect, PTL DEF Spec

=============================================================================
