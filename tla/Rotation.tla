------------------------------- MODULE Rotation -------------------------------
(***************************************************************************)
(* Key rotation among the other handlers of the service worker:            *)
(* background/rotation.ts (rotateKey) over background/vault.ts (addKey,    *)
(* removeKey, getKeyPlaintext), background/permissions.ts and the epoch of *)
(* background/revocation.ts.  rotateKey runs beside page calls, consents,  *)
(* popup revokes, added and removed keys and other rotations; the worker   *)
(* may die at any of its awaits.                                           *)
(*                                                                         *)
(* As in Grants and Revocation, each of the three stores is one value in   *)
(* chrome.storage.local, read and written whole with an await in between.  *)
(***************************************************************************)
EXTENDS Naturals, FiniteSets

CONSTANTS
    Handlers,   \* invocations of the operations in Kinds
    Keys,       \* the ids of the vault entries present at the start
    Slots,      \* origin x service pairs
    NoKey,      \* a slot holds no grant; a handler concerns no key
    Overlap     \* TRUE: one vault write may begin before another has ended

ASSUME IdsAssumption == Keys \cap Handlers = {} /\ NoKey \notin Keys \cup Handlers
ASSUME OverlapAssumption == Overlap \in BOOLEAN

\* addKey mints one id per call, so a new vault entry is named by its minter.
Ids == Keys \cup Handlers

VARIABLES
    vault,      \* the entries of "moltypass.vault"
    perms,      \* "moltypass.permissions": the key of the grant in each slot
    epoch,      \* "moltypass.revocation.epoch"
    \* the handlers
    at,         \* the await each handler is suspended at, or how it ended
    kind,       \* the operation it performs
    key,        \* rotate: the old key; remove, connect, call: the key
    slot,       \* connect, revoke, call: the slot; rotate: the one it mirrors
    vsnap,      \* the vault it loaded last
    psnap,      \* the permissions it loaded last
    todo,       \* rotate: the slots of oldGrants still to mirror
    seen,       \* the epoch it read last
    first,      \* call: epochBefore
    \* history
    minted,     \* the ids ever stored in the vault
    dropped,    \* the ids that removeKey took out of the vault
    disturbed,  \* the rotations during whose mirroring another handler set perms
    late        \* the calls that read epochAfter once a rotation of their key was over

storeVars == <<vault, perms, epoch>>
localVars == <<key, slot, vsnap, psnap, todo, seen, first>>
historyVars == <<minted, dropped, disturbed, late>>
vars == <<storeVars, at, kind, localVars, historyVars>>

Kinds == {"rotate", "add", "remove", "connect", "revoke", "call"}
\* A vault write is in progress: loaded, not yet saved.
SavingVault == {"adding", "dropping", "removing"}
\* A rotation has listed the old grants and not yet ended.
Mirroring == {"mirror", "minting", "dropping", "dropped", "bump"}
Suspended == {"entry", "encrypt", "added", "consent", "granting", "revoking", "perm", "key",
              "decrypt", "upstream", "check", "usage"} \cup SavingVault \cup Mirroring
Ended == {"done", "failed", "answered", "refused", "lost"}

TypeOK ==
    /\ vault \subseteq Ids
    /\ perms \in [Slots -> Ids \cup {NoKey}]
    /\ epoch \in Nat
    /\ at \in [Handlers -> {"idle"} \cup Suspended \cup Ended]
    /\ kind \in [Handlers -> Kinds]
    /\ key \in [Handlers -> Ids \cup {NoKey}]
    /\ slot \in [Handlers -> Slots]
    /\ vsnap \in [Handlers -> SUBSET Ids]
    /\ psnap \in [Handlers -> [Slots -> Ids \cup {NoKey}]]
    /\ todo \in [Handlers -> SUBSET Slots]
    /\ seen \in [Handlers -> Nat]
    /\ first \in [Handlers -> Nat]
    /\ minted \subseteq Ids
    /\ dropped \subseteq Ids \cup {NoKey}
    /\ disturbed \subseteq Handlers
    /\ late \subseteq Handlers

NoPerms == [s \in Slots |-> NoKey]

Init ==
    /\ vault = Keys
    /\ perms \in [Slots -> Keys \cup {NoKey}]
    /\ epoch = 0
    /\ at = [h \in Handlers |-> "idle"]
    /\ kind \in [Handlers -> Kinds]
    /\ key = [h \in Handlers |-> NoKey]
    /\ slot \in [Handlers -> Slots]
    /\ vsnap = [h \in Handlers |-> {}]
    /\ psnap = [h \in Handlers |-> NoPerms]
    /\ todo = [h \in Handlers |-> {}]
    /\ seen = [h \in Handlers |-> 0]
    /\ first = [h \in Handlers |-> 0]
    /\ minted = Keys
    /\ dropped = {}
    /\ disturbed = {}
    /\ late = {}

-----------------------------------------------------------------------------
(* The stores.                                                             *)

Goto(h, label) == at' = [at EXCEPT ![h] = label]

\* loadState is issued; nobody else is between a load and a save of the vault
\* unless vault writes may overlap.
LoadForSave(h, label) ==
    /\ Overlap \/ \A d \in Handlers : at[d] \notin SavingVault
    /\ Goto(h, label)
    /\ vsnap' = [vsnap EXCEPT ![h] = vault]
    /\ UNCHANGED psnap

LoadPerms(h, label) ==
    /\ Goto(h, label)
    /\ psnap' = [psnap EXCEPT ![h] = perms]
    /\ UNCHANGED vsnap

\* Mutant: the new entry is stored under the id of the entry it replaces.
SaveUnderOldId(h) ==
    /\ vault' = vsnap[h] \cup {key[h]}
    /\ minted' = minted \cup {key[h]}

\* saveState of the loaded entries plus the new one.
SaveAdded(h) ==
    /\ vault' = vsnap[h] \cup {h}
    /\ minted' = minted \cup {h}

\* saveState of the loaded entries without the handler's key.
SaveRemoved(h) ==
    /\ vault' = vsnap[h] \ {key[h]}
    /\ dropped' = dropped \cup {key[h]}

\* A set of the permission list, and the rotations it disturbs.
SetPerms(h, list) ==
    /\ perms' = list
    /\ disturbed' = disturbed \cup {d \in Handlers \ {h} : at[d] \in Mirroring}

\* The handler leaves the lists it had loaded behind.
Leave(h, label) ==
    /\ Goto(h, label)
    /\ vsnap' = [vsnap EXCEPT ![h] = {}]
    /\ psnap' = [psnap EXCEPT ![h] = NoPerms]

-----------------------------------------------------------------------------
(* Where each operation begins.  A user picks among keys that exist or     *)
(* existed when the list was shown.                                        *)

Begin(h) ==
    /\ at[h] = "idle"
    /\ \/ /\ kind[h] = "rotate"
          /\ \E k \in minted : key' = [key EXCEPT ![h] = k]
          /\ Goto(h, "entry")
          /\ vsnap' = [vsnap EXCEPT ![h] = vault]
          /\ UNCHANGED psnap
       \/ /\ kind[h] = "add"
          /\ Leave(h, "encrypt")
          /\ UNCHANGED key
       \/ /\ kind[h] = "remove"
          /\ \E k \in minted : key' = [key EXCEPT ![h] = k]
          /\ LoadForSave(h, "removing")
       \/ /\ kind[h] = "connect"
          /\ \E k \in minted : key' = [key EXCEPT ![h] = k]
          /\ Leave(h, "consent")
       \/ /\ kind[h] = "revoke"
          /\ LoadPerms(h, "revoking")
          /\ UNCHANGED key
       \/ /\ kind[h] = "call"
          /\ LoadPerms(h, "perm")
          /\ UNCHANGED key
    /\ UNCHANGED <<storeVars, kind, slot, todo, seen, first, historyVars>>

\* Any handler may throw at an await that reads the vault key or waits for a
\* user or an upstream: locked vault, denied consent, failed fetch.
Throws(h) ==
    /\ at[h] \in {"entry", "encrypt", "consent", "decrypt", "upstream"}
    /\ Leave(h, "failed")
    /\ UNCHANGED <<storeVars, kind, key, slot, todo, seen, first, historyVars>>

-----------------------------------------------------------------------------
(* rotateKey, and addKey and removeKey on their own.                       *)

\* getEntry: rotate throws if the old entry is not there.
EntryRead(h) ==
    /\ at[h] = "entry"
    /\ Leave(h, IF key[h] \in vsnap[h] THEN "encrypt" ELSE "failed")
    /\ UNCHANGED <<storeVars, kind, key, slot, todo, seen, first, historyVars>>

\* addKey: the new entry is encrypted, the vault loaded.
Encrypted(h) ==
    /\ at[h] = "encrypt"
    /\ LoadForSave(h, "adding")
    /\ UNCHANGED <<storeVars, kind, key, slot, todo, seen, first, historyVars>>

AddKey(h) ==
    /\ at[h] = "adding"
    /\ SaveAdded(h)
    /\ Leave(h, IF kind[h] = "rotate" THEN "added" ELSE "done")
    /\ UNCHANGED <<perms, epoch, kind, key, slot, todo, seen, first, dropped, disturbed, late>>

\* Mutant: only the first of the old grants is listed.
ListOne(h) ==
    LET all == {s \in Slots : perms[s] = key[h]}
    IN  IF all = {} THEN {} ELSE {CHOOSE s \in all : TRUE}

listByKey(h) == {s \in Slots : perms[s] = key[h]}

ListGrants(h) ==
    /\ at[h] = "added"
    /\ LoadPerms(h, "mirror")
    /\ todo' = [todo EXCEPT ![h] = listByKey(h)]
    /\ UNCHANGED <<storeVars, kind, key, slot, seen, first, historyVars>>

\* The first half of grant() for one of the old grants.
MirrorLoad(h) ==
    /\ at[h] = "mirror"
    /\ \E s \in todo[h] :
        /\ slot' = [slot EXCEPT ![h] = s]
        /\ todo' = [todo EXCEPT ![h] = @ \ {s}]
    /\ LoadPerms(h, "minting")
    /\ UNCHANGED <<storeVars, kind, key, seen, first, historyVars>>

\* The second half: the mirrored grant, on the new key, replaces the slot.
MirrorSet(h) ==
    /\ at[h] = "minting"
    /\ SetPerms(h, [psnap[h] EXCEPT ![slot[h]] = h])
    /\ Leave(h, "mirror")
    /\ UNCHANGED <<vault, epoch, kind, key, slot, todo, seen, first, minted, dropped, late>>

\* Mutant: the old entry may be dropped before the new one is written.
DropBeforeAdd(h) == at[h] \in {"mirror", "encrypt"} /\ todo[h] = {} /\ kind[h] = "rotate"

\* Every old grant is mirrored.
AllMirrored(h) == at[h] = "mirror" /\ todo[h] = {}

DropLoad(h) ==
    /\ AllMirrored(h)
    /\ LoadForSave(h, "dropping")
    /\ UNCHANGED <<storeVars, kind, key, slot, todo, seen, first, historyVars>>

\* removeKey of the old entry, or of the entry the popup removes.
RemoveKey(h) ==
    /\ at[h] \in {"dropping", "removing"}
    /\ SaveRemoved(h)
    /\ Leave(h, IF at[h] = "dropping" THEN "dropped" ELSE "done")
    /\ UNCHANGED <<perms, epoch, kind, key, slot, todo, seen, first, minted, disturbed, late>>

BumpRead(h) ==
    /\ at[h] = "dropped"
    /\ Leave(h, "bump")
    /\ seen' = [seen EXCEPT ![h] = epoch]
    /\ UNCHANGED <<storeVars, kind, key, slot, todo, first, historyVars>>

BumpSet(h) ==
    /\ at[h] = "bump"
    /\ epoch' = seen[h] + 1
    /\ Leave(h, "done")
    /\ UNCHANGED <<vault, perms, kind, key, slot, todo, seen, first, historyVars>>

-----------------------------------------------------------------------------
(* Consents, revokes and proxied calls.                                    *)

ConsentGiven(h) ==
    /\ at[h] = "consent"
    /\ LoadPerms(h, "granting")
    /\ UNCHANGED <<storeVars, kind, key, slot, todo, seen, first, historyVars>>

StoreGrant(h) ==
    /\ at[h] = "granting"
    /\ SetPerms(h, [psnap[h] EXCEPT ![slot[h]] = key[h]])
    /\ Leave(h, "done")
    /\ UNCHANGED <<vault, epoch, kind, key, slot, todo, seen, first, minted, dropped, late>>

Revoke(h) ==
    /\ at[h] = "revoking"
    /\ SetPerms(h, [psnap[h] EXCEPT ![slot[h]] = NoKey])
    /\ Leave(h, "done")
    /\ UNCHANGED <<vault, epoch, kind, key, slot, todo, seen, first, minted, dropped, late>>

\* getPermission finds a grant and getKeyPlaintext loads the vault; a slot
\* with none asks the user, which is a "connect" of its own.
CallPermitted(h) ==
    /\ at[h] = "perm"
    /\ IF psnap[h][slot[h]] = NoKey
       THEN Leave(h, "failed") /\ UNCHANGED key
       ELSE /\ key' = [key EXCEPT ![h] = psnap[h][slot[h]]]
            /\ Goto(h, "key")
            /\ vsnap' = [vsnap EXCEPT ![h] = vault]
            /\ UNCHANGED psnap
    /\ UNCHANGED <<storeVars, kind, slot, todo, seen, first, historyVars>>

\* The entry is found and decrypted, or the call fails closed.
CallKeyRead(h) ==
    /\ at[h] = "key"
    /\ Leave(h, IF key[h] \in vsnap[h] THEN "decrypt" ELSE "failed")
    /\ UNCHANGED <<storeVars, kind, key, slot, todo, seen, first, historyVars>>

\* epochBefore is read and the fetch made.
CallOpens(h) ==
    /\ at[h] = "decrypt"
    /\ Leave(h, "upstream")
    /\ first' = [first EXCEPT ![h] = epoch]
    /\ UNCHANGED <<storeVars, kind, key, slot, todo, seen, historyVars>>

\* A rotation of key k has ended, its epoch bump in storage.
Retired(k) == \E d \in Handlers : kind[d] = "rotate" /\ at[d] = "done" /\ key[d] = k

\* The response is here; epochAfter is read.
CallReturns(h) ==
    /\ at[h] = "upstream"
    /\ Leave(h, "check")
    /\ seen' = [seen EXCEPT ![h] = epoch]
    /\ late' = IF Retired(key[h]) THEN late \cup {h} ELSE late
    /\ UNCHANGED <<storeVars, kind, key, slot, todo, first, minted, dropped, disturbed>>

\* RevokedError, or recordUsage loads the list.
CallChecked(h) ==
    /\ at[h] = "check"
    /\ IF seen[h] # first[h] THEN Leave(h, "refused") ELSE LoadPerms(h, "usage")
    /\ UNCHANGED <<storeVars, kind, key, slot, todo, seen, first, historyVars>>

\* recordUsage sets the list it loaded, with the slot's counters changed.
CallRecorded(h) ==
    /\ at[h] = "usage"
    /\ IF psnap[h][slot[h]] = NoKey THEN UNCHANGED <<perms, disturbed>> ELSE SetPerms(h, psnap[h])
    /\ Leave(h, "answered")
    /\ UNCHANGED <<vault, epoch, kind, key, slot, todo, seen, first, minted, dropped, late>>

-----------------------------------------------------------------------------
WorkerDies ==
    LET dying == {h \in Handlers : at[h] \in Suspended} IN
    /\ dying # {}
    /\ at' = [h \in Handlers |-> IF h \in dying THEN "lost" ELSE at[h]]
    /\ vsnap' = [h \in Handlers |-> {}]
    /\ psnap' = [h \in Handlers |-> NoPerms]
    /\ UNCHANGED <<storeVars, kind, key, slot, todo, seen, first, historyVars>>

Step(h) ==
    \/ Begin(h) \/ Throws(h)
    \/ EntryRead(h) \/ Encrypted(h) \/ AddKey(h) \/ ListGrants(h) \/ MirrorLoad(h)
    \/ MirrorSet(h) \/ DropLoad(h) \/ RemoveKey(h) \/ BumpRead(h) \/ BumpSet(h)
    \/ ConsentGiven(h) \/ StoreGrant(h) \/ Revoke(h)
    \/ CallPermitted(h) \/ CallKeyRead(h) \/ CallOpens(h) \/ CallReturns(h)
    \/ CallChecked(h) \/ CallRecorded(h)

Next == (\E h \in Handlers : Step(h)) \/ WorkerDies

Spec == Init /\ [][Next]_vars

-----------------------------------------------------------------------------
(* Properties.                                                             *)

\* No secret is stranded: what was ever stored in the vault is there until
\* somebody removes it, and a rotation that has removed an old entry has left
\* its successor in the vault (or the successor was removed in its turn).
\* The worker may die between any two steps.
SecretNeverStranded ==
    /\ minted \subseteq vault \cup dropped
    /\ \A h \in Handlers : at[h] \in {"dropped", "bump"} => h \in minted

\* Once a rotation has dropped the old entry no grant points at it, unless
\* another handler set the permission list while the rotation was mirroring.
DroppedKeyIsUnreferenced ==
    \A h \in Handlers :
        at[h] \in {"dropped", "bump"} /\ h \notin disturbed =>
            \A s \in Slots : perms[s] # key[h]

\* A call does not return a response obtained with a key whose rotation was
\* over before the response was checked.  It does not hold for a call that read its
\* key before the rotation and the epoch after it (README).
RotatedKeyIsNotAnswered == \A h \in late : at[h] \notin {"usage", "answered"}
=============================================================================
