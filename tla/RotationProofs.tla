---------------------------- MODULE RotationProofs ----------------------------
(***************************************************************************)
(* Theorems about Rotation, for every set of handlers, keys and slots.     *)
(***************************************************************************)
EXTENDS Rotation, TLAPS

USE DEF storeVars, localVars, historyVars

Labels == {"idle"} \cup Suspended \cup Ended
Lists == [Slots -> Ids \cup {NoKey}]

\* Wherever a handler goes, and whatever list it takes along, the others stay
\* where they are with what they hold.
LEMMA Moves ==
    ASSUME TypeOK, NEW h \in Handlers, NEW label \in Labels,
           LoadForSave(h, label) \/ LoadPerms(h, label) \/ Leave(h, label)
    PROVE  /\ at' = [at EXCEPT ![h] = label]
           /\ at' \in [Handlers -> Labels]
           /\ vsnap' \in [Handlers -> SUBSET Ids]
           /\ psnap' \in [Handlers -> Lists]
           /\ \A d \in Handlers \ {h} : vsnap'[d] = vsnap[d] /\ psnap'[d] = psnap[d]
<1> USE DEF TypeOK, Labels, Lists, Goto
<1>1. CASE LoadForSave(h, label)
  BY <1>1 DEF LoadForSave
<1>2. CASE LoadPerms(h, label)
  BY <1>2 DEF LoadPerms
<1>3. CASE Leave(h, label)
  BY <1>3 DEF Leave, NoPerms
<1> QED BY <1>1, <1>2, <1>3

LEMMA TypeStep == TypeOK /\ [Next]_vars => TypeOK'
<1> SUFFICES ASSUME TypeOK, [Next]_vars PROVE TypeOK'
    OBVIOUS
<1> USE DEF Labels, Lists
<1>1. ASSUME NEW h \in Handlers, Step(h) PROVE TypeOK'
  <2> USE DEF Suspended, Ended, SavingVault, Mirroring
  <2>0. h \in Ids
    BY DEF Ids
  <2>1. CASE Begin(h)
    <3>1. CASE kind[h] = "rotate"
      BY <2>1, <3>1 DEF Begin, TypeOK, Goto
    <3>2. CASE kind[h] # "rotate"
      BY <2>1, <3>2, Moves DEF Begin, TypeOK
    <3> QED BY <3>1, <3>2
  <2>2. CASE Throws(h)
    BY <2>2, Moves DEF Throws, TypeOK
  <2>3. CASE EntryRead(h)
    BY <2>3, Moves DEF EntryRead, TypeOK
  <2>4. CASE Encrypted(h)
    BY <2>4, Moves DEF Encrypted, TypeOK
  <2>5. CASE AddKey(h)
    BY <2>5, <2>0, Moves DEF AddKey, SaveAdded, TypeOK
  <2>6. CASE ListGrants(h)
    BY <2>6, Moves DEF ListGrants, listByKey, TypeOK
  <2>7. CASE MirrorLoad(h)
    BY <2>7, Moves DEF MirrorLoad, TypeOK
  <2>8. CASE MirrorSet(h)
    BY <2>8, <2>0, Moves DEF MirrorSet, SetPerms, TypeOK
  <2>9. CASE DropLoad(h)
    BY <2>9, Moves DEF DropLoad, TypeOK
  <2>10. CASE RemoveKey(h)
    <3>1. at[h] \in {"dropping", "removing"} /\ key[h] \in Ids \cup {NoKey}
      BY <2>10 DEF RemoveKey, TypeOK
    <3> QED BY <2>10, <3>1, Moves DEF RemoveKey, SaveRemoved, TypeOK
  <2>11. CASE BumpRead(h)
    BY <2>11, Moves DEF BumpRead, TypeOK
  <2>12. CASE BumpSet(h)
    BY <2>12, Moves DEF BumpSet, TypeOK
  <2>13. CASE ConsentGiven(h)
    BY <2>13, Moves DEF ConsentGiven, TypeOK
  <2>14. CASE StoreGrant(h)
    BY <2>14, Moves DEF StoreGrant, SetPerms, TypeOK
  <2>15. CASE Revoke(h)
    BY <2>15, Moves DEF Revoke, SetPerms, TypeOK
  <2>16. CASE CallPermitted(h)
    <3>1. CASE psnap[h][slot[h]] = NoKey
      BY <2>16, <3>1, Moves DEF CallPermitted, TypeOK
    <3>2. CASE psnap[h][slot[h]] # NoKey
      <4>1. psnap[h][slot[h]] \in Ids \cup {NoKey}
        BY DEF TypeOK
      <4>2. key' \in [Handlers -> Ids \cup {NoKey}]
        BY <2>16, <3>2, <4>1 DEF CallPermitted, TypeOK
      <4>3. /\ at' = [at EXCEPT ![h] = "key"]
            /\ vsnap' = [vsnap EXCEPT ![h] = vault]
        BY <2>16, <3>2 DEF CallPermitted, Goto
      <4> QED BY <2>16, <3>2, <4>2, <4>3 DEF CallPermitted, TypeOK
    <3> QED BY <3>1, <3>2
  <2>17. CASE CallKeyRead(h)
    BY <2>17, Moves DEF CallKeyRead, TypeOK
  <2>18. CASE CallOpens(h)
    BY <2>18, Moves DEF CallOpens, TypeOK
  <2>19. CASE CallReturns(h)
    BY <2>19, Moves DEF CallReturns, TypeOK
  <2>20. CASE CallChecked(h)
    BY <2>20, Moves DEF CallChecked, TypeOK
  <2>21. CASE CallRecorded(h)
    BY <2>21, Moves DEF CallRecorded, SetPerms, TypeOK
  <2> QED BY <1>1, <2>1, <2>2, <2>3, <2>4, <2>5, <2>6, <2>7, <2>8, <2>9, <2>10, <2>11, <2>12,
             <2>13, <2>14, <2>15, <2>16, <2>17, <2>18, <2>19, <2>20, <2>21 DEF Step
<1>2. CASE WorkerDies
  BY <1>2 DEF WorkerDies, TypeOK, Suspended, Ended, NoPerms
<1>3. CASE UNCHANGED vars
  BY <1>3 DEF vars, TypeOK
<1> QED BY <1>1, <1>2, <1>3 DEF Next

\* The three stores and what the handlers hold of them keep their types.
THEOREM TypeCorrect == Spec => []TypeOK
<1>1. Init => TypeOK
  BY DEF Init, TypeOK, NoPerms, Ids
<1> QED BY <1>1, TypeStep, PTL DEF Spec

-----------------------------------------------------------------------------
(* Secrets.                                                                *)

\* Vault writes one after another: the writer holds the stored vault.
Serial ==
    /\ \A h \in Handlers : at[h] \in SavingVault => vsnap[h] = vault
    /\ \A h, d \in Handlers : at[h] \in SavingVault /\ at[d] \in SavingVault => h = d

\* A step that leaves the vault alone and begins no vault write, or begins one.
LEMMA SerialMove ==
    ASSUME ~Overlap, TypeOK, Serial, NEW h \in Handlers, NEW label \in Labels,
           vault' = vault,
           \/ LoadForSave(h, label)
           \/ label \notin SavingVault /\ (LoadPerms(h, label) \/ Leave(h, label))
    PROVE  Serial'
<1>1. /\ at' = [at EXCEPT ![h] = label]
      /\ \A d \in Handlers \ {h} : vsnap'[d] = vsnap[d]
  BY Moves
<1>2. \A d \in Handlers \ {h} : at'[d] = at[d]
  BY <1>1 DEF TypeOK
<1>3. CASE LoadForSave(h, label)
  <2>1. vsnap'[h] = vault /\ \A d \in Handlers : at[d] \notin SavingVault
    BY <1>3 DEF LoadForSave, TypeOK
  <2> QED BY <1>1, <1>2, <2>1 DEF Serial
<1>4. CASE label \notin SavingVault
  <2>1. at'[h] \notin SavingVault
    BY <1>1, <1>4 DEF TypeOK
  <2> QED BY <1>1, <1>2, <2>1 DEF Serial
<1> QED BY <1>3, <1>4

LEMMA SerialStep ==
    ASSUME ~Overlap
    PROVE  TypeOK /\ Serial /\ [Next]_vars => Serial'
<1> SUFFICES ASSUME TypeOK, Serial, [Next]_vars PROVE Serial'
    OBVIOUS
<1>1. ASSUME NEW h \in Handlers, Step(h) PROVE Serial'
  <2> USE DEF Labels, Suspended, Ended, SavingVault, Mirroring
  <2>1. CASE AddKey(h) \/ RemoveKey(h)
    <3>1. PICK label \in {"added", "done", "dropped"} : Leave(h, label)
      BY <2>1 DEF AddKey, RemoveKey
    <3>2. at' = [at EXCEPT ![h] = label]
      BY <3>1 DEF Leave, Goto
    <3>3. \A d \in Handlers : at'[d] \notin SavingVault
      BY <2>1, <3>2 DEF AddKey, RemoveKey, Serial, TypeOK
    <3> QED BY <3>3 DEF Serial
  <2>2. CASE Begin(h) /\ kind[h] = "rotate"
    <3>1. /\ at' = [at EXCEPT ![h] = "entry"]
          /\ vsnap' = [vsnap EXCEPT ![h] = vault]
          /\ vault' = vault
      BY <2>2 DEF Begin, Goto
    <3> QED BY <3>1 DEF Serial, TypeOK
  <2>3. CASE Begin(h) /\ kind[h] # "rotate"
    BY <2>3, SerialMove DEF Begin
  <2>4. CASE CallPermitted(h) /\ psnap[h][slot[h]] # NoKey
    <3>1. /\ at' = [at EXCEPT ![h] = "key"]
          /\ vsnap' = [vsnap EXCEPT ![h] = vault]
          /\ vault' = vault
      BY <2>4 DEF CallPermitted, Goto
    <3> QED BY <3>1 DEF Serial, TypeOK
  <2>5. CASE CallPermitted(h) /\ psnap[h][slot[h]] = NoKey
    BY <2>5, SerialMove DEF CallPermitted
  <2>6. CASE Encrypted(h) \/ DropLoad(h)
    BY <2>6, SerialMove DEF Encrypted, DropLoad
  <2>7. CASE \/ Throws(h) \/ EntryRead(h) \/ ListGrants(h) \/ MirrorLoad(h) \/ MirrorSet(h)
             \/ BumpRead(h) \/ BumpSet(h)
    BY <2>7, SerialMove
       DEF Throws, EntryRead, ListGrants, MirrorLoad, MirrorSet, BumpRead, BumpSet
  <2>8. CASE \/ ConsentGiven(h) \/ StoreGrant(h) \/ Revoke(h)
             \/ CallKeyRead(h) \/ CallOpens(h) \/ CallReturns(h) \/ CallChecked(h)
             \/ CallRecorded(h)
    BY <2>8, SerialMove
       DEF ConsentGiven, StoreGrant, Revoke,
           CallKeyRead, CallOpens, CallReturns, CallChecked, CallRecorded
  <2> QED BY <1>1, <2>1, <2>2, <2>3, <2>4, <2>5, <2>6, <2>7, <2>8 DEF Step
<1>2. CASE WorkerDies
  <2>1. \A h \in Handlers : at'[h] \notin SavingVault
    BY <1>2 DEF WorkerDies, TypeOK, Suspended, Ended, SavingVault
  <2> QED BY <2>1 DEF Serial
<1>3. CASE UNCHANGED vars
  BY <1>3 DEF vars, Serial
<1> QED BY <1>1, <1>2, <1>3 DEF Next

\* What was stored is there or was removed, and a rotation that has come past
\* addKey has stored its entry.
Kept ==
    /\ minted \subseteq vault \cup dropped
    /\ \A h \in Handlers : at[h] \in {"added"} \cup Mirroring => h \in minted

LEMMA KeptStep == TypeOK /\ Serial /\ Kept /\ [Next]_vars => Kept'
<1> SUFFICES ASSUME TypeOK, Serial, Kept, [Next]_vars PROVE Kept'
    OBVIOUS
<1>1. ASSUME NEW h \in Handlers, Step(h) PROVE Kept'
  <2> USE DEF Labels, Suspended, Ended, SavingVault, Mirroring
  <2>1. CASE AddKey(h)
    <3>1. PICK label \in {"added", "done"} : Leave(h, label)
      BY <2>1 DEF AddKey
    <3>2. at' = [at EXCEPT ![h] = label]
      BY <3>1 DEF Leave, Goto
    <3>3. vault' = vault \cup {h} /\ minted' = minted \cup {h} /\ dropped' = dropped
      BY <2>1 DEF AddKey, SaveAdded, Serial
    <3> QED BY <3>2, <3>3 DEF Kept, TypeOK
  <2>2. CASE RemoveKey(h)
    <3>1. PICK label \in {"dropped", "done"} :
            Leave(h, label) /\ (label = "dropped" => at[h] = "dropping")
      BY <2>2 DEF RemoveKey
    <3>2. at' = [at EXCEPT ![h] = label]
      BY <3>1 DEF Leave, Goto
    <3>3. /\ vault' = vault \ {key[h]}
          /\ dropped' = dropped \cup {key[h]}
          /\ minted' = minted
      BY <2>2 DEF RemoveKey, SaveRemoved, Serial
    <3> QED BY <3>1, <3>2, <3>3 DEF Kept, TypeOK
  <2>3. CASE ListGrants(h) \/ MirrorLoad(h) \/ MirrorSet(h) \/ DropLoad(h)
             \/ BumpRead(h) \/ BumpSet(h)
    <3>1. h \in minted
      BY <2>3 DEF ListGrants, MirrorLoad, MirrorSet, AllMirrored, DropLoad, BumpRead, BumpSet, Kept
    <3>2. \A d \in Handlers \ {h} : at'[d] = at[d]
      BY <2>3, Moves DEF ListGrants, MirrorLoad, MirrorSet, DropLoad, BumpRead, BumpSet, TypeOK
    <3>3. UNCHANGED <<vault, minted, dropped>>
      BY <2>3 DEF ListGrants, MirrorLoad, MirrorSet, DropLoad, BumpRead, BumpSet
    <3> QED BY <3>1, <3>2, <3>3 DEF Kept
  <2>4. CASE \/ Begin(h) \/ Throws(h) \/ EntryRead(h) \/ Encrypted(h)
             \/ ConsentGiven(h) \/ StoreGrant(h) \/ Revoke(h)
             \/ CallPermitted(h) \/ CallKeyRead(h) \/ CallOpens(h) \/ CallReturns(h)
             \/ CallChecked(h) \/ CallRecorded(h)
    <3>1. UNCHANGED <<vault, minted, dropped>>
      BY <2>4 DEF Begin, Throws, EntryRead, Encrypted, ConsentGiven, StoreGrant, Revoke,
                  CallPermitted, CallKeyRead, CallOpens, CallReturns, CallChecked, CallRecorded
    <3>2. PICK label \in Labels \ ({"added"} \cup Mirroring) : at' = [at EXCEPT ![h] = label]
      <4>1. CASE Begin(h) \/ Throws(h) \/ EntryRead(h) \/ Encrypted(h)
        BY <4>1, Moves DEF Begin, Throws, EntryRead, Encrypted, Goto
      <4>2. CASE ConsentGiven(h) \/ StoreGrant(h) \/ Revoke(h) \/ CallPermitted(h)
        BY <4>2, Moves DEF ConsentGiven, StoreGrant, Revoke, CallPermitted, Goto
      <4>3. CASE \/ CallKeyRead(h) \/ CallOpens(h) \/ CallReturns(h) \/ CallChecked(h)
                 \/ CallRecorded(h)
        BY <4>3, Moves DEF CallKeyRead, CallOpens, CallReturns, CallChecked, CallRecorded
      <4> QED BY <2>4, <4>1, <4>2, <4>3
    <3>3. \A d \in Handlers : at'[d] \in {"added"} \cup Mirroring => at'[d] = at[d]
      BY <3>2 DEF TypeOK
    <3> QED BY <3>1, <3>3 DEF Kept
  <2> QED BY <1>1, <2>1, <2>2, <2>3, <2>4 DEF Step
<1>2. CASE WorkerDies
  BY <1>2 DEF WorkerDies, Kept, TypeOK, Suspended, Ended, Mirroring
<1>3. CASE UNCHANGED vars
  BY <1>3 DEF vars, Kept
<1> QED BY <1>1, <1>2, <1>3 DEF Next

\* Whatever handlers run beside a rotation and wherever the worker dies, every
\* secret stored is in the vault until it is removed, and the successor of a
\* dropped entry was stored before: provided vault writes do not overlap.
THEOREM NoSecretStranded ==
    ASSUME ~Overlap
    PROVE  Spec => []SecretNeverStranded
<1>1. Init => Serial /\ Kept
  BY DEF Init, Serial, Kept, SavingVault, Mirroring
<1>2. TypeOK /\ Kept => SecretNeverStranded
  BY DEF Kept, SecretNeverStranded, Mirroring
<1>3. TypeOK /\ Serial /\ Kept /\ [Next]_vars => Serial' /\ Kept'
  BY SerialStep, KeptStep
<1> QED BY <1>1, <1>2, <1>3, TypeCorrect, PTL DEF Spec

-----------------------------------------------------------------------------
(* Grants.                                                                 *)

\* A handler that has not stored its entry has a fresh id, so a rotation's
\* new key is not its old one.
Fresh ==
    \A h \in Handlers :
        /\ at[h] \in {"idle", "entry", "encrypt", "adding"} => h \notin minted
        /\ at[h] \in {"entry", "added"} \cup Mirroring => kind[h] = "rotate"
        /\ /\ kind[h] = "rotate"
           /\ at[h] \in {"entry", "encrypt", "adding", "added"} \cup Mirroring
           => key[h] # h

\* The grants on a rotation's old key are those it has still to mirror.
MirroredBy(h) ==
    /\ at[h] = "mirror" => \A s \in Slots : perms[s] = key[h] => s \in todo[h]
    /\ at[h] = "minting" =>
         /\ psnap[h] = perms
         /\ \A s \in Slots : perms[s] = key[h] => s \in todo[h] \cup {slot[h]}
    /\ at[h] \in {"dropping", "dropped", "bump"} => \A s \in Slots : perms[s] # key[h]

Mirrored == \A h \in Handlers \ disturbed : MirroredBy(h)

LEMMA FreshStep == TypeOK /\ Fresh /\ [Next]_vars => Fresh'
<1> SUFFICES ASSUME TypeOK, Fresh, [Next]_vars PROVE Fresh'
    OBVIOUS
<1>1. ASSUME NEW h \in Handlers, Step(h) PROVE Fresh'
  <2> USE DEF Labels, Suspended, Ended, SavingVault, Mirroring
  <2>1. CASE AddKey(h)
    <3>1. /\ at' = [at EXCEPT ![h] = IF kind[h] = "rotate" THEN "added" ELSE "done"]
          /\ minted' = minted \cup {h}
          /\ UNCHANGED <<kind, key>>
      BY <2>1 DEF AddKey, SaveAdded, Leave, Goto
    <3>2. at[h] = "adding"
      BY <2>1 DEF AddKey
    <3> QED BY <3>1, <3>2 DEF Fresh, TypeOK
  <2>2. CASE Begin(h)
    <3>1. at[h] = "idle" /\ h \notin minted
      BY <2>2 DEF Begin, Fresh
    <3>2. CASE kind[h] = "rotate"
      <4>1. PICK k \in minted : key' = [key EXCEPT ![h] = k]
        BY <2>2, <3>2 DEF Begin
      <4>2. at' = [at EXCEPT ![h] = "entry"] /\ UNCHANGED <<kind, minted>>
        BY <2>2, <3>2 DEF Begin, Goto
      <4>3. at'[h] = "entry" /\ key'[h] # h
        BY <3>1, <4>1, <4>2 DEF TypeOK
      <4>4. \A d \in Handlers \ {h} : at'[d] = at[d] /\ key'[d] = key[d]
        BY <4>1, <4>2 DEF TypeOK
      <4> QED BY <3>1, <3>2, <4>2, <4>3, <4>4 DEF Fresh
    <3>3. CASE kind[h] # "rotate"
      <4>1. PICK label \in {"encrypt", "removing", "consent", "revoking", "perm"} :
              at' = [at EXCEPT ![h] = label]
        BY <2>2, <3>3, Moves DEF Begin
      <4>2. UNCHANGED <<kind, minted>> /\ \A d \in Handlers \ {h} : key'[d] = key[d]
        BY <2>2, <3>3 DEF Begin, TypeOK
      <4> QED BY <3>1, <3>3, <4>1, <4>2 DEF Fresh, TypeOK
    <3> QED BY <3>2, <3>3
  <2>3. CASE \/ Throws(h) \/ EntryRead(h) \/ Encrypted(h) \/ RemoveKey(h)
             \/ ConsentGiven(h) \/ StoreGrant(h) \/ Revoke(h)
             \/ CallKeyRead(h) \/ CallOpens(h) \/ CallReturns(h) \/ CallChecked(h)
             \/ CallRecorded(h) \/ ListGrants(h) \/ MirrorLoad(h) \/ MirrorSet(h) \/ DropLoad(h)
             \/ BumpRead(h) \/ BumpSet(h)
    <3>1. UNCHANGED <<kind, key, minted>>
      BY <2>3 DEF Throws, EntryRead, Encrypted, RemoveKey, ConsentGiven, StoreGrant, Revoke,
                  CallKeyRead, CallOpens, CallReturns, CallChecked, CallRecorded,
                  ListGrants, MirrorLoad, MirrorSet, DropLoad, BumpRead, BumpSet
    <3>2. PICK label \in Labels :
                 /\ at' = [at EXCEPT ![h] = label]
                 /\ at[h] # "idle"
                 /\ label \notin {"idle", "entry"}
                 /\ label \in {"encrypt", "adding"} => at[h] \in {"entry", "encrypt"}
                 /\ label \in {"added"} \cup Mirroring => at[h] \in {"added"} \cup Mirroring
      <4>1. CASE Throws(h) \/ EntryRead(h) \/ Encrypted(h) \/ RemoveKey(h)
        BY <4>1, Moves DEF Throws, EntryRead, Encrypted, RemoveKey
      <4>2. CASE ConsentGiven(h) \/ StoreGrant(h) \/ Revoke(h)
        BY <4>2, Moves DEF ConsentGiven, StoreGrant, Revoke
      <4>3. CASE \/ CallKeyRead(h) \/ CallOpens(h) \/ CallReturns(h) \/ CallChecked(h)
                 \/ CallRecorded(h)
        BY <4>3, Moves DEF CallKeyRead, CallOpens, CallReturns, CallChecked, CallRecorded
      <4>4. CASE \/ ListGrants(h) \/ MirrorLoad(h) \/ MirrorSet(h) \/ DropLoad(h)
                 \/ BumpRead(h) \/ BumpSet(h)
        BY <4>4, Moves DEF ListGrants, MirrorLoad, MirrorSet, AllMirrored, DropLoad,
                           BumpRead, BumpSet
      <4> QED BY <2>3, <4>1, <4>2, <4>3, <4>4
    <3>3. at'[h] = label /\ \A d \in Handlers \ {h} : at'[d] = at[d]
      BY <3>2 DEF TypeOK
    <3> QED BY <3>1, <3>2, <3>3 DEF Fresh
  <2>4. CASE CallPermitted(h)
    <3>1. UNCHANGED <<kind, minted>>
      BY <2>4 DEF CallPermitted
    <3>2. \/ key' = key
          \/ key' = [key EXCEPT ![h] = psnap[h][slot[h]]]
      BY <2>4 DEF CallPermitted
    <3>3. \A d \in Handlers \ {h} : key'[d] = key[d]
      BY <3>2 DEF TypeOK
    <3>4. PICK label \in {"failed", "key"} : at' = [at EXCEPT ![h] = label]
      BY <2>4 DEF CallPermitted, Leave, Goto
    <3>5. at'[h] \in {"failed", "key"} /\ \A d \in Handlers \ {h} : at'[d] = at[d]
      BY <3>4 DEF TypeOK
    <3> QED BY <3>1, <3>3, <3>5 DEF Fresh
  <2> QED BY <1>1, <2>1, <2>2, <2>3, <2>4 DEF Step
<1>2. CASE WorkerDies
  BY <1>2 DEF WorkerDies, Fresh, TypeOK, Suspended, Ended, Mirroring
<1>3. CASE UNCHANGED vars
  BY <1>3 DEF vars, Fresh
<1> QED BY <1>1, <1>2, <1>3 DEF Next

\* A step of one handler leaves the local state of the others alone, and the
\* grants too unless it marks the rotations that are mirroring.
LEMMA Undisturbed ==
    ASSUME TypeOK, NEW h \in Handlers, Step(h)
    PROVE  \A d \in Handlers \ {h} :
             /\ UNCHANGED <<at[d], key[d], slot[d], todo[d], psnap[d]>>
             /\ at[d] \in Mirroring /\ d \notin disturbed' => d \notin disturbed /\ perms' = perms
<1> USE DEF Labels, Suspended, Ended, SavingVault, Mirroring, TypeOK
<1>1. CASE MirrorSet(h) \/ StoreGrant(h) \/ Revoke(h) \/ CallRecorded(h)
  <2>1. UNCHANGED <<key, slot, todo>>
    BY <1>1 DEF MirrorSet, StoreGrant, Revoke, CallRecorded
  <2>2. \A d \in Handlers \ {h} : UNCHANGED <<at[d], psnap[d]>>
    BY <1>1, Moves DEF MirrorSet, StoreGrant, Revoke, CallRecorded
  <2>3. \/ \E list : SetPerms(h, list)
        \/ UNCHANGED <<perms, disturbed>>
    BY <1>1 DEF MirrorSet, StoreGrant, Revoke, CallRecorded
  <2> QED BY <2>1, <2>2, <2>3 DEF SetPerms
<1>2. CASE Begin(h)
  <2>1. UNCHANGED <<perms, disturbed, slot, todo>>
    BY <1>2 DEF Begin
  <2>2. \A d \in Handlers \ {h} : key'[d] = key[d]
    BY <1>2 DEF Begin
  <2>3. \A d \in Handlers \ {h} : UNCHANGED <<at[d], psnap[d]>>
    <3>1. CASE kind[h] = "rotate"
      BY <1>2, <3>1 DEF Begin, Goto
    <3>2. CASE kind[h] # "rotate"
      BY <1>2, <3>2, Moves DEF Begin
    <3> QED BY <3>1, <3>2
  <2> QED BY <2>1, <2>2, <2>3
<1>3. CASE CallPermitted(h)
  <2>1. UNCHANGED <<perms, disturbed, slot, todo>>
    BY <1>3 DEF CallPermitted
  <2>2. \A d \in Handlers \ {h} : UNCHANGED <<key[d], at[d], psnap[d]>>
    <3>1. CASE psnap[h][slot[h]] = NoKey
      BY <1>3, <3>1, Moves DEF CallPermitted
    <3>2. CASE psnap[h][slot[h]] # NoKey
      <4>1. /\ key' = [key EXCEPT ![h] = psnap[h][slot[h]]]
            /\ at' = [at EXCEPT ![h] = "key"]
            /\ psnap' = psnap
        BY <1>3, <3>2 DEF CallPermitted, Goto
      <4> QED BY <4>1
    <3> QED BY <3>1, <3>2
  <2> QED BY <2>1, <2>2
<1>4. CASE ListGrants(h) \/ MirrorLoad(h)
  <2>1. UNCHANGED <<perms, disturbed, key>>
    BY <1>4 DEF ListGrants, MirrorLoad
  <2>2. \A d \in Handlers \ {h} : UNCHANGED <<at[d], psnap[d]>>
    BY <1>4, Moves DEF ListGrants, MirrorLoad
  <2>3. \A d \in Handlers \ {h} : UNCHANGED <<slot[d], todo[d]>>
    BY <1>4 DEF ListGrants, MirrorLoad
  <2> QED BY <2>1, <2>2, <2>3
<1>5. CASE \/ Throws(h) \/ EntryRead(h) \/ Encrypted(h) \/ AddKey(h) \/ DropLoad(h) \/ RemoveKey(h)
           \/ BumpRead(h) \/ BumpSet(h) \/ ConsentGiven(h)
           \/ CallKeyRead(h) \/ CallOpens(h) \/ CallReturns(h) \/ CallChecked(h)
  <2>1. UNCHANGED <<perms, disturbed, key, slot, todo>>
    BY <1>5 DEF Throws, EntryRead, Encrypted, AddKey, DropLoad, RemoveKey, BumpRead, BumpSet,
                ConsentGiven, CallKeyRead, CallOpens, CallReturns, CallChecked
  <2>2. \A d \in Handlers \ {h} : UNCHANGED <<at[d], psnap[d]>>
    <3>1. CASE Throws(h) \/ EntryRead(h) \/ Encrypted(h) \/ AddKey(h) \/ DropLoad(h) \/ RemoveKey(h)
      BY <3>1, Moves DEF Throws, EntryRead, Encrypted, AddKey, DropLoad, RemoveKey
    <3>2. CASE BumpRead(h) \/ BumpSet(h) \/ ConsentGiven(h)
      BY <3>2, Moves DEF BumpRead, BumpSet, ConsentGiven
    <3>3. CASE CallKeyRead(h) \/ CallOpens(h) \/ CallReturns(h) \/ CallChecked(h)
      BY <3>3, Moves DEF CallKeyRead, CallOpens, CallReturns, CallChecked
    <3> QED BY <1>5, <3>1, <3>2, <3>3
  <2> QED BY <2>1, <2>2
<1> QED BY <1>1, <1>2, <1>3, <1>4, <1>5 DEF Step

LEMMA MirroredStep == TypeOK /\ Fresh /\ Mirrored /\ [Next]_vars => Mirrored'
<1> SUFFICES ASSUME TypeOK, Fresh, Mirrored, [Next]_vars PROVE Mirrored'
    OBVIOUS
<1>1. ASSUME NEW h \in Handlers, Step(h) PROVE Mirrored'
  <2> USE DEF Labels, Suspended, Ended, SavingVault, Mirroring
  <2>1. ASSUME NEW d \in Handlers \ {h}, d \notin disturbed' PROVE MirroredBy(d)'
    <3>1. /\ UNCHANGED <<at[d], key[d], slot[d], todo[d], psnap[d]>>
          /\ at[d] \in Mirroring => d \notin disturbed /\ perms' = perms
      BY <1>1, <2>1, Undisturbed
    <3> QED BY <3>1 DEF Mirrored, MirroredBy
  <2>2. ASSUME h \notin disturbed' PROVE MirroredBy(h)'
    <3>1. CASE ListGrants(h)
      <4>1. /\ at' = [at EXCEPT ![h] = "mirror"]
            /\ todo' = [todo EXCEPT ![h] = listByKey(h)]
            /\ UNCHANGED <<perms, key>>
        BY <3>1 DEF ListGrants, LoadPerms, Goto
      <4>2. at'[h] = "mirror" /\ todo'[h] = {s \in Slots : perms[s] = key[h]}
        BY <4>1 DEF TypeOK, listByKey
      <4> QED BY <4>1, <4>2 DEF MirroredBy
    <3>2. CASE MirrorLoad(h)
      <4>1. PICK s \in todo[h] :
              slot' = [slot EXCEPT ![h] = s] /\ todo' = [todo EXCEPT ![h] = @ \ {s}]
        BY <3>2 DEF MirrorLoad
      <4>2. /\ slot'[h] = s
            /\ todo'[h] = todo[h] \ {s}
        BY <4>1 DEF TypeOK
      <4>3. at'[h] = "minting" /\ psnap'[h] = perms
        BY <3>2 DEF MirrorLoad, LoadPerms, Goto, TypeOK
      <4>4. at[h] = "mirror" /\ UNCHANGED <<perms, key, disturbed>>
        BY <3>2 DEF MirrorLoad
      <4>5. \A t \in Slots : perms[t] = key[h] => t \in todo[h]
        BY <2>2, <4>4 DEF Mirrored, MirroredBy
      <4> QED BY <4>2, <4>3, <4>4, <4>5 DEF MirroredBy
    <3>3. CASE MirrorSet(h)
      <4>1. at[h] = "minting" /\ UNCHANGED <<key, todo>> /\ h \notin disturbed
        BY <2>2, <3>3 DEF MirrorSet, SetPerms
      <4>2. perms' = [psnap[h] EXCEPT ![slot[h]] = h]
        BY <3>3 DEF MirrorSet, SetPerms
      <4>3. at'[h] = "mirror"
        BY <3>3 DEF MirrorSet, Leave, Goto, TypeOK
      <4>4. /\ psnap[h] = perms
            /\ \A s \in Slots : perms[s] = key[h] => s \in todo[h] \cup {slot[h]}
        BY <4>1 DEF Mirrored, MirroredBy
      <4>5. key[h] # h
        BY <4>1 DEF Fresh
      <4>6. \A s \in Slots : perms'[s] = key[h] => s \in todo[h]
        BY <4>2, <4>4, <4>5 DEF TypeOK
      <4> QED BY <4>1, <4>3, <4>6 DEF MirroredBy
    <3>4. CASE DropLoad(h)
      <4>1. /\ at[h] = "mirror" /\ todo[h] = {}
            /\ UNCHANGED <<perms, key, disturbed>>
        BY <3>4 DEF DropLoad, AllMirrored
      <4>2. at'[h] = "dropping"
        BY <3>4 DEF DropLoad, LoadForSave, Goto, TypeOK
      <4>3. \A s \in Slots : perms[s] # key[h]
        BY <2>2, <4>1 DEF Mirrored, MirroredBy
      <4> QED BY <4>1, <4>2, <4>3 DEF MirroredBy
    <3>5. CASE RemoveKey(h) \/ BumpRead(h) \/ BumpSet(h)
      <4>1. /\ at'[h] \in {"dropped", "bump"} => at[h] \in {"dropping", "dropped"}
            /\ at'[h] \in {"dropped", "bump", "done"}
            /\ UNCHANGED <<perms, key, disturbed>>
        BY <3>5 DEF RemoveKey, BumpRead, BumpSet, Leave, Goto, TypeOK
      <4>2. at'[h] \in {"dropped", "bump"} => \A s \in Slots : perms[s] # key[h]
        BY <2>2, <4>1 DEF Mirrored, MirroredBy
      <4> QED BY <4>1, <4>2 DEF MirroredBy
    <3>6. CASE Begin(h)
      <4>1. at'[h] \notin Mirroring
        BY <3>6, Moves DEF Begin, Goto, TypeOK
      <4> QED BY <4>1 DEF MirroredBy
    <3>7. CASE \/ Throws(h) \/ EntryRead(h) \/ Encrypted(h) \/ AddKey(h)
               \/ ConsentGiven(h) \/ StoreGrant(h) \/ Revoke(h) \/ CallPermitted(h)
      <4>1. at'[h] \notin Mirroring
        BY <3>7, Moves DEF Throws, EntryRead, Encrypted, AddKey, ConsentGiven, StoreGrant, Revoke,
                           CallPermitted, Goto, TypeOK
      <4> QED BY <4>1 DEF MirroredBy
    <3>8. CASE CallKeyRead(h) \/ CallOpens(h) \/ CallReturns(h) \/ CallChecked(h) \/ CallRecorded(h)
      <4>1. at'[h] \notin Mirroring
        BY <3>8, Moves DEF CallKeyRead, CallOpens, CallReturns, CallChecked, CallRecorded, TypeOK
      <4> QED BY <4>1 DEF MirroredBy
    <3> QED BY <1>1, <3>1, <3>2, <3>3, <3>4, <3>5, <3>6, <3>7, <3>8 DEF Step
  <2>3. \A d \in Handlers \ disturbed' : MirroredBy(d)'
    BY <2>1, <2>2
  <2> QED BY <2>3 DEF Mirrored, MirroredBy
<1>2. CASE WorkerDies
  <2>1. \A h \in Handlers : at'[h] \notin Mirroring
    BY <1>2 DEF WorkerDies, TypeOK, Suspended, Ended, Mirroring
  <2> QED BY <2>1 DEF Mirrored, MirroredBy, Mirroring
<1>3. CASE UNCHANGED vars
  BY <1>3 DEF vars, Mirrored, MirroredBy
<1> QED BY <1>1, <1>2, <1>3 DEF Next

\* A rotation that drops its old entry leaves no grant on it, however many
\* slots pointed there, unless another handler set the list under its feet;
\* that needs no assumption on how vault writes interleave.
THEOREM DroppedKeyHasNoGrant == Spec => []DroppedKeyIsUnreferenced
<1>1. Init => Fresh /\ Mirrored
  BY IdsAssumption DEF Init, Fresh, Mirrored, MirroredBy, Mirroring
<1>2. Mirrored => DroppedKeyIsUnreferenced
  BY DEF Mirrored, MirroredBy, DroppedKeyIsUnreferenced
<1> QED BY <1>1, <1>2, TypeCorrect, FreshStep, MirroredStep, PTL DEF Spec
=============================================================================
