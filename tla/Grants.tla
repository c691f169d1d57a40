-------------------------------- MODULE Grants --------------------------------
(***************************************************************************)
(* Origin x service permissions: background/permissions.ts, the page       *)
(* handlers of background/index.ts that use it (is-connected, connect,     *)
(* proxy, reveal) and the popup's revoke in background/popup-handler.ts.   *)
(*                                                                         *)
(* The whole permission list is one value in chrome.storage.local.  Every  *)
(* write is a load, a change of the loaded copy and a set of the copy, with *)
(* an await in between and no lock, so a handler can write back a list     *)
(* that another handler has changed since.  An await after which a handler *)
(* reads nothing shared is folded into the step before it.                 *)
(***************************************************************************)
EXTENDS Naturals, FiniteSets

CONSTANTS
    Handlers,   \* invocations of a page handler or of the popup's revoke
    Slots,      \* origin x service pairs
    Quotas,     \* what a consent may carry as callsAllowed
    NoQuota,    \* callsAllowed is undefined
    NoGrant     \* the list has no entry for a slot

ASSUME QuotasAssumption == Quotas \subseteq Nat \cup {NoQuota}
ASSUME NoQuotaAssumption == NoQuota \notin Nat
ASSUME NoGrantAssumption == NoGrant \notin Handlers

(***************************************************************************)
(* A handler mints at most one grant, so a grant is named by its minter.   *)
(* grant() filters out the slot before it pushes, so a list is a function  *)
(* from slots; keyId, mode and grantedAt never change and are left out     *)
(* (the consent page answers with the mode requested, "proxy" for connect  *)
(* and proxy, so perm.mode is "proxy" wherever it is tested).              *)
(***************************************************************************)
VARIABLES
    \* chrome.storage.local "moltypass.permissions"
    stored,     \* the grant in each slot
    used,       \* its callsUsed
    \* the handlers
    at,         \* the await each handler is suspended at, or how it ended
    kind,       \* the operation it performs
    slot,       \* the origin and service it serves
    snap,       \* the list it loaded last: the grants
    snapUsed,   \* the list it loaded last: their callsUsed
    perm,       \* the grant its proxied call runs under
    \* the grants
    quota,      \* callsAllowed of the grant a handler minted
    expired,    \* the grants whose expiresAt has passed
    \* history
    approved,   \* the handlers whose request the user allowed
    revoked,    \* the grants that a popup revoke found in storage
    raced       \* of those, the ones another handler held for writing then

storeVars == <<stored, used>>
handlerVars == <<at, kind, slot, snap, snapUsed, perm>>
historyVars == <<approved, revoked, raced>>
vars == <<storeVars, handlerVars, quota, expired, historyVars>>

Kinds == {"is-connected", "connect", "proxy", "reveal", "revoke"}
\* get, purge, grant, usage: loadAll was issued by getPermission, revoke,
\* grant and recordUsage.
Writing == {"purge", "grant", "usage"}
Suspended == {"get", "consent", "upstream"} \cup Writing
Ended == {"connected", "not_connected", "vault_locked", "user_denied", "failed",
          "served", "revealed", "revoked", "lost"}

GrantOrNone == Handlers \cup {NoGrant}

TypeOK ==
    /\ stored \in [Slots -> GrantOrNone]
    /\ used \in [Slots -> Nat]
    /\ at \in [Handlers -> {"idle"} \cup Suspended \cup Ended]
    /\ kind \in [Handlers -> Kinds]
    /\ slot \in [Handlers -> Slots]
    /\ snap \in [Handlers -> [Slots -> GrantOrNone]]
    /\ snapUsed \in [Handlers -> [Slots -> Nat]]
    /\ perm \in [Handlers -> GrantOrNone]
    /\ quota \in [Handlers -> Quotas \cup {NoQuota}]
    /\ expired \subseteq Handlers
    /\ approved \subseteq Handlers
    /\ revoked \subseteq Handlers
    /\ raced \subseteq Handlers

EmptyList == [s \in Slots |-> NoGrant]
NoUse == [s \in Slots |-> 0]

Init ==
    /\ stored = EmptyList
    /\ used = NoUse
    /\ at = [h \in Handlers |-> "idle"]
    /\ kind \in [Handlers -> Kinds]
    /\ slot \in [Handlers -> Slots]
    /\ snap = [h \in Handlers |-> EmptyList]
    /\ snapUsed = [h \in Handlers |-> NoUse]
    /\ perm = [h \in Handlers |-> NoGrant]
    /\ quota = [h \in Handlers |-> NoQuota]
    /\ expired = {}
    /\ approved = {}
    /\ revoked = {}
    /\ raced = {}

-----------------------------------------------------------------------------
(* permissions.ts                                                          *)

Goto(h, label) == at' = [at EXCEPT ![h] = label]

\* loadAll() is issued and the handler waits at `label` for the list.
LoadAll(h, label) ==
    /\ Goto(h, label)
    /\ snap' = [snap EXCEPT ![h] = stored]
    /\ snapUsed' = [snapUsed EXCEPT ![h] = used]

\* The handler leaves `label` and forgets the list it had loaded.
Forget(h, label) ==
    /\ Goto(h, label)
    /\ snap' = [snap EXCEPT ![h] = EmptyList]
    /\ snapUsed' = [snapUsed EXCEPT ![h] = NoUse]

Mine(h) == snap[h][slot[h]]

Exhausted(h) ==
    quota[Mine(h)] \in Nat /\ snapUsed[h][slot[h]] >= quota[Mine(h)]

Lapsed(h) == Mine(h) \in expired \/ Exhausted(h)

\* Mutant: revoke keeps the entry of an expired grant, to be swept later.
RevokeKeepsExpired(h) ==
    /\ stored' = [snap[h] EXCEPT ![slot[h]] = IF @ \in expired THEN @ ELSE NoGrant]
    /\ used' = snapUsed[h]

\* revoke: the loaded list without the slot is set.
revoke(h) ==
    /\ stored' = [snap[h] EXCEPT ![slot[h]] = NoGrant]
    /\ used' = [snapUsed[h] EXCEPT ![slot[h]] = 0]

\* Mutant: the new grant is stored in every free slot of the list.
GrantEverywhere(h) ==
    /\ stored' = [s \in Slots |-> IF snap[h][s] = NoGrant \/ s = slot[h] THEN h ELSE snap[h][s]]
    /\ used' = [snapUsed[h] EXCEPT ![slot[h]] = 0]

\* grant: the loaded list with this handler's new grant in its slot is set.
grant(h) ==
    /\ stored' = [snap[h] EXCEPT ![slot[h]] = h]
    /\ used' = [snapUsed[h] EXCEPT ![slot[h]] = 0]

\* Mutant: every grant of the list is charged.
ChargeAll(h) ==
    /\ stored' = snap[h]
    /\ used' = [s \in Slots |-> snapUsed[h][s] + 1]

\* Mutant: callsUsed counts down what is left.
CountDown(h) ==
    /\ stored' = snap[h]
    /\ used' = [snapUsed[h] EXCEPT ![slot[h]] = @ - 1]

\* recordUsage: the loaded list with one more call charged is set.
recordUsage(h) ==
    IF Mine(h) = NoGrant THEN UNCHANGED storeVars
    ELSE /\ stored' = snap[h]
         /\ used' = [snapUsed[h] EXCEPT ![slot[h]] = @ + 1]

-----------------------------------------------------------------------------
(* The handlers of index.ts, and the popup's revoke.                       *)

\* Where a handler without a permission goes: connect and proxy ask the user
\* unless the vault is locked, reveal always does.
WithoutPermission(h) ==
    IF kind[h] = "is-connected" THEN {"not_connected"} ELSE {"consent", "vault_locked"}

Begin(h) ==
    /\ at[h] = "idle"
    /\ \/ kind[h] \in {"is-connected", "connect", "proxy"} /\ LoadAll(h, "get")
       \/ kind[h] = "revoke" /\ LoadAll(h, "purge")
       \/ /\ kind[h] = "reveal"
          /\ \E label \in WithoutPermission(h) : Forget(h, label)
    /\ UNCHANGED <<storeVars, kind, slot, perm, quota, expired, historyVars>>

\* getPermission finds a live grant.
PermissionFound(h) ==
    /\ at[h] = "get" /\ Mine(h) # NoGrant /\ ~Lapsed(h)
    /\ Forget(h, IF kind[h] = "proxy" THEN "upstream" ELSE "connected")
    /\ perm' = [perm EXCEPT ![h] = IF kind[h] = "proxy" THEN Mine(h) ELSE NoGrant]
    /\ UNCHANGED <<storeVars, kind, slot, quota, expired, historyVars>>

\* getPermission finds a grant that has expired or used up its quota, and
\* calls revoke, which loads the list once more.
PermissionLapsed(h) ==
    /\ at[h] = "get" /\ Mine(h) # NoGrant /\ Lapsed(h)
    /\ LoadAll(h, "purge")
    /\ UNCHANGED <<storeVars, kind, slot, perm, quota, expired, historyVars>>

NoPermission(h) ==
    /\ at[h] = "get" /\ Mine(h) = NoGrant
    /\ \E label \in WithoutPermission(h) : Forget(h, label)
    /\ UNCHANGED <<storeVars, kind, slot, perm, quota, expired, historyVars>>

\* The second half of revoke inside getPermission.
Purge(h) ==
    /\ at[h] = "purge" /\ kind[h] # "revoke"
    /\ revoke(h)
    /\ \E label \in WithoutPermission(h) : Forget(h, label)
    /\ UNCHANGED <<kind, slot, perm, quota, expired, historyVars>>

\* The second half of the popup's revoke.
Revoke(h) ==
    LET g == stored[slot[h]] IN
    /\ at[h] = "purge" /\ kind[h] = "revoke"
    /\ revoke(h)
    /\ Forget(h, "revoked")
    /\ revoked' = revoked \cup ({g} \ {NoGrant})
    /\ raced' = IF \E d \in Handlers \ {h}, s \in Slots :
                       at[d] \in Writing /\ snap[d][s] = g
                THEN raced \cup ({g} \ {NoGrant}) ELSE raced
    /\ UNCHANGED <<kind, slot, perm, quota, expired, approved>>

\* The user allows the request.  The raw key of a reveal is read and handed
\* over, or the vault is locked by now; connect and proxy store a new grant.
Allow(h) ==
    /\ at[h] = "consent"
    /\ approved' = approved \cup {h}
    /\ IF kind[h] = "reveal"
       THEN /\ \E label \in {"revealed", "failed"} : Forget(h, label)
            /\ UNCHANGED quota
       ELSE /\ \E q \in Quotas : quota' = [quota EXCEPT ![h] = q]
            /\ LoadAll(h, "grant")
    /\ UNCHANGED <<storeVars, kind, slot, perm, expired, revoked, raced>>

Deny(h) ==
    /\ at[h] = "consent"
    /\ Forget(h, "user_denied")
    /\ UNCHANGED <<storeVars, kind, slot, perm, quota, expired, historyVars>>

StoreGrant(h) ==
    /\ at[h] = "grant"
    /\ grant(h)
    /\ Forget(h, IF kind[h] = "proxy" THEN "upstream" ELSE "connected")
    /\ perm' = [perm EXCEPT ![h] = IF kind[h] = "proxy" THEN h ELSE NoGrant]
    /\ UNCHANGED <<kind, slot, quota, expired, historyVars>>

\* proxyRequest returns a response; recordUsage loads the list.
ProxyReturns(h) ==
    /\ at[h] = "upstream"
    /\ LoadAll(h, "usage")
    /\ UNCHANGED <<storeVars, kind, slot, perm, quota, expired, historyVars>>

\* proxyRequest throws: no usage is recorded.
ProxyThrows(h) ==
    /\ at[h] = "upstream"
    /\ Forget(h, "failed")
    /\ UNCHANGED <<storeVars, kind, slot, perm, quota, expired, historyVars>>

RecordUsage(h) ==
    /\ at[h] = "usage"
    /\ recordUsage(h)
    /\ Forget(h, "served")
    /\ UNCHANGED <<kind, slot, perm, quota, expired, historyVars>>

-----------------------------------------------------------------------------
\* Time passes the expiresAt of a grant.  A grant without one is a grant of
\* which this step never happens.
Expires(g) ==
    /\ g \in approved \ expired
    /\ expired' = expired \cup {g}
    /\ UNCHANGED <<storeVars, handlerVars, quota, historyVars>>

\* The worker ends: the handlers in progress are gone, the list stays.
WorkerDies ==
    LET dying == {h \in Handlers : at[h] \in Suspended} IN
    /\ dying # {}
    /\ at' = [h \in Handlers |-> IF h \in dying THEN "lost" ELSE at[h]]
    /\ snap' = [h \in Handlers |-> IF h \in dying THEN EmptyList ELSE snap[h]]
    /\ snapUsed' = [h \in Handlers |-> IF h \in dying THEN NoUse ELSE snapUsed[h]]
    /\ UNCHANGED <<storeVars, kind, slot, perm, quota, expired, historyVars>>

Step(h) ==
    \/ Begin(h) \/ PermissionFound(h) \/ PermissionLapsed(h) \/ NoPermission(h)
    \/ Purge(h) \/ Revoke(h) \/ Allow(h) \/ Deny(h) \/ StoreGrant(h)
    \/ ProxyReturns(h) \/ ProxyThrows(h) \/ RecordUsage(h)

Next ==
    \/ \E h \in Handlers : Step(h) \/ Expires(h)
    \/ WorkerDies

Spec == Init /\ [][Next]_vars

-----------------------------------------------------------------------------
(* Properties.                                                             *)

\* The key of a proxied call was allowed by the user for the very origin and
\* service that calls, in a connect or proxy consent, whatever lists were
\* written over each other in between; a reveal consent never becomes a grant.
UseIsConsented ==
    \A h \in Handlers :
        at[h] \in {"upstream", "usage", "served"} =>
            /\ perm[h] \in approved
            /\ slot[perm[h]] = slot[h]
            /\ kind[perm[h]] \in {"connect", "proxy"}

\* Lost updates of the list can forget charges, never invent them: callsUsed
\* is at most the number of responses served to the slot.
ChargedOnlyWhenServed ==
    \A s \in Slots :
        used[s] <= Cardinality({h \in Handlers : at[h] = "served" /\ slot[h] = s})

\* Once the popup's revoke has removed a grant, the grant is never stored
\* again.
RevokeIsFinal == \A s \in Slots : stored[s] \notin revoked

\* A revoke is final unless, when it reached storage, another handler was
\* between its load and its set with the grant in the list it had loaded.
RevokeIsFinalUnlessRaced == \A s \in Slots : stored[s] \notin revoked \ raced
=============================================================================
