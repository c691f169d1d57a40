----------------------------- MODULE GrantsProofs -----------------------------
(***************************************************************************)
(* Theorems about Grants, for every set of handlers, slots and quotas.     *)
(***************************************************************************)
EXTENDS Grants, FiniteSetTheorems, TLAPS

USE DEF storeVars, handlerVars, historyVars

\* What a set of the list writes, whichever handler does it, has the type of
\* a list.
LEMMA WritesAreLists ==
    ASSUME TypeOK, NEW h \in Handlers, revoke(h) \/ grant(h) \/ recordUsage(h)
    PROVE  /\ stored' \in [Slots -> GrantOrNone]
           /\ used' \in [Slots -> Nat]
<1> USE DEF TypeOK, GrantOrNone
<1>1. CASE revoke(h)
  BY <1>1 DEF revoke
<1>2. CASE grant(h)
  BY <1>2 DEF grant
<1>3. CASE recordUsage(h)
  <2>1. /\ snap[h] \in [Slots -> GrantOrNone]
        /\ snapUsed[h] \in [Slots -> Nat]
        /\ snapUsed[h][slot[h]] \in Nat
    OBVIOUS
  <2>2. [snapUsed[h] EXCEPT ![slot[h]] = @ + 1] \in [Slots -> Nat]
    BY <2>1
  <2> QED BY <1>3, <2>1, <2>2 DEF recordUsage
<1> QED BY <1>1, <1>2, <1>3

\* Loading or forgetting the list keeps the types of what a handler holds.
LEMMA HoldingIsTyped ==
    ASSUME TypeOK, NEW h \in Handlers, NEW label \in {"idle"} \cup Suspended \cup Ended,
           LoadAll(h, label) \/ Forget(h, label)
    PROVE  /\ at' \in [Handlers -> {"idle"} \cup Suspended \cup Ended]
           /\ snap' \in [Handlers -> [Slots -> GrantOrNone]]
           /\ snapUsed' \in [Handlers -> [Slots -> Nat]]
<1> USE DEF TypeOK, GrantOrNone, Goto
<1>1. CASE LoadAll(h, label)
  BY <1>1 DEF LoadAll
<1>2. CASE Forget(h, label)
  BY <1>2 DEF Forget, EmptyList, NoUse
<1> QED BY <1>1, <1>2

LEMMA TypeStep == TypeOK /\ [Next]_vars => TypeOK'
<1> SUFFICES ASSUME TypeOK, [Next]_vars PROVE TypeOK'
    OBVIOUS
<1>0. \A h \in Handlers : WithoutPermission(h) \subseteq Suspended \cup Ended
  BY DEF WithoutPermission, Suspended, Ended
<1>1. ASSUME NEW h \in Handlers, Step(h) PROVE TypeOK'
  <2> USE DEF Suspended, Ended, Writing
  <2>1. CASE Begin(h)
    BY <2>1, <1>0, HoldingIsTyped DEF Begin, TypeOK
  <2>2. CASE PermissionFound(h)
    <3>1. Mine(h) \in GrantOrNone
      BY DEF Mine, TypeOK
    <3> QED BY <2>2, <3>1, HoldingIsTyped DEF PermissionFound, TypeOK, GrantOrNone
  <2>3. CASE PermissionLapsed(h)
    BY <2>3, HoldingIsTyped DEF PermissionLapsed, TypeOK
  <2>4. CASE NoPermission(h)
    BY <2>4, <1>0, HoldingIsTyped DEF NoPermission, TypeOK
  <2>5. CASE Purge(h)
    BY <2>5, <1>0, HoldingIsTyped, WritesAreLists DEF Purge, TypeOK
  <2>6. CASE Revoke(h)
    <3>1. stored[slot[h]] \in GrantOrNone
      BY DEF TypeOK
    <3> QED BY <2>6, <3>1, HoldingIsTyped, WritesAreLists DEF Revoke, TypeOK, GrantOrNone
  <2>7. CASE Allow(h)
    <3>1. CASE kind[h] = "reveal"
      BY <2>7, <3>1, HoldingIsTyped DEF Allow, TypeOK
    <3>2. CASE kind[h] # "reveal"
      BY <2>7, <3>2, HoldingIsTyped DEF Allow, TypeOK
    <3> QED BY <3>1, <3>2
  <2>8. CASE Deny(h)
    BY <2>8, HoldingIsTyped DEF Deny, TypeOK
  <2>9. CASE StoreGrant(h)
    BY <2>9, HoldingIsTyped, WritesAreLists DEF StoreGrant, TypeOK, GrantOrNone
  <2>10. CASE ProxyReturns(h)
    BY <2>10, HoldingIsTyped DEF ProxyReturns, TypeOK
  <2>11. CASE ProxyThrows(h)
    BY <2>11, HoldingIsTyped DEF ProxyThrows, TypeOK
  <2>12. CASE RecordUsage(h)
    BY <2>12, HoldingIsTyped, WritesAreLists DEF RecordUsage, TypeOK
  <2> QED BY <1>1, <2>1, <2>2, <2>3, <2>4, <2>5, <2>6, <2>7, <2>8, <2>9, <2>10, <2>11, <2>12
          DEF Step
<1>2. ASSUME NEW h \in Handlers, Expires(h) PROVE TypeOK'
  BY <1>2 DEF Expires, TypeOK
<1>3. CASE WorkerDies
  BY <1>3 DEF WorkerDies, TypeOK, Suspended, Ended, EmptyList, NoUse, GrantOrNone
<1>4. CASE UNCHANGED vars
  BY <1>4 DEF vars, TypeOK
<1> QED BY <1>1, <1>2, <1>3, <1>4 DEF Next

\* The stored list, the lists handlers hold and their local state keep their
\* types, whatever writes they lose to each other.
THEOREM TypeCorrect == Spec => []TypeOK
<1>1. Init => TypeOK
  BY DEF Init, TypeOK, EmptyList, NoUse, GrantOrNone
<1> QED BY <1>1, TypeStep, PTL DEF Spec

-----------------------------------------------------------------------------
(* The strengthening of the two safety invariants.                         *)

\* Only the operations that can get there are at an await.
Routed ==
    \A h \in Handlers :
        /\ at[h] = "get" => kind[h] \in {"is-connected", "connect", "proxy"}
        /\ at[h] = "consent" => kind[h] \in {"connect", "proxy", "reveal"}
        /\ at[h] = "grant" => kind[h] \in {"connect", "proxy"} /\ h \in approved

\* The awaits and ends a handler can be at once it has stored its grant.
Minted == {"connected", "upstream", "usage", "served", "failed", "lost"}

\* A grant that may stand in slot s of a list.
Genuine(g, s) ==
    /\ g \in approved
    /\ slot[g] = s
    /\ kind[g] \in {"connect", "proxy"}
    /\ at[g] \in Minted

GenuineList(list) == \A s \in Slots : list[s] # NoGrant => Genuine(list[s], s)

Genuineness ==
    /\ GenuineList(stored)
    /\ \A h \in Handlers : GenuineList(snap[h])
    /\ \A h \in Handlers : at[h] \in {"upstream", "usage", "served"} => Genuine(perm[h], slot[h])
    /\ revoked \subseteq {g \in Handlers : at[g] \in Minted}

\* A grant whose revoke was not raced is in no list that can be written.
Final ==
    \A g \in revoked \ raced :
        /\ \A s \in Slots : stored[s] # g
        /\ \A h \in Handlers : at[h] \in Writing => \A s \in Slots : snap[h][s] # g

LEMMA RoutedStep == TypeOK /\ Routed /\ [Next]_vars => Routed'
<1> SUFFICES ASSUME TypeOK, Routed, [Next]_vars PROVE Routed'
    OBVIOUS
<1> USE DEF TypeOK, Routed, Goto
<1>1. ASSUME NEW h \in Handlers, Step(h) PROVE Routed'
  <2>1. CASE Begin(h)
    BY <2>1 DEF Begin, LoadAll, Forget, WithoutPermission, Kinds
  <2>2. CASE PermissionFound(h)
    BY <2>2 DEF PermissionFound, Forget
  <2>3. CASE PermissionLapsed(h) \/ ProxyReturns(h)
    BY <2>3 DEF PermissionLapsed, ProxyReturns, LoadAll
  <2>4. CASE NoPermission(h)
    BY <2>4 DEF NoPermission, WithoutPermission, Forget
  <2>5. CASE Purge(h)
    BY <2>5 DEF Purge, WithoutPermission, Forget, Kinds
  <2>6. CASE Revoke(h) \/ Deny(h) \/ ProxyThrows(h) \/ RecordUsage(h)
    BY <2>6 DEF Revoke, Deny, ProxyThrows, RecordUsage, Forget
  <2>7. CASE Allow(h)
    BY <2>7 DEF Allow, LoadAll, Forget
  <2>8. CASE StoreGrant(h)
    BY <2>8 DEF StoreGrant, Forget
  <2> QED BY <1>1, <2>1, <2>2, <2>3, <2>4, <2>5, <2>6, <2>7, <2>8 DEF Step
<1>2. ASSUME NEW h \in Handlers, Expires(h) PROVE Routed'
  BY <1>2 DEF Expires
<1>3. CASE WorkerDies
  BY <1>3 DEF WorkerDies
<1>4. CASE UNCHANGED vars
  BY <1>4 DEF vars
<1> QED BY <1>1, <1>2, <1>3, <1>4 DEF Next

\* Facts that no step takes back.
LEMMA Stable ==
    ASSUME TypeOK, [Next]_vars
    PROVE  /\ UNCHANGED <<kind, slot>>
           /\ approved \subseteq approved'
           /\ \A g \in Handlers : at[g] \in Minted => at'[g] \in Minted
<1> DEFINE Kept == /\ UNCHANGED <<kind, slot>>
                   /\ approved \subseteq approved'
                   /\ \A g \in Handlers : at[g] \in Minted => at'[g] \in Minted
<1> USE DEF TypeOK, Minted, Goto
<1>1. ASSUME NEW h \in Handlers, Step(h) PROVE Kept
  <2>1. CASE Begin(h)
    BY <2>1 DEF Begin, LoadAll, Forget
  <2>2. CASE PermissionFound(h) \/ PermissionLapsed(h) \/ NoPermission(h)
    BY <2>2 DEF PermissionFound, PermissionLapsed, NoPermission, LoadAll, Forget
  <2>3. CASE Purge(h) \/ Revoke(h) \/ Deny(h)
    BY <2>3 DEF Purge, Revoke, Deny, Forget
  <2>4. CASE Allow(h)
    BY <2>4 DEF Allow, LoadAll, Forget
  <2>5. CASE StoreGrant(h) \/ ProxyReturns(h) \/ ProxyThrows(h) \/ RecordUsage(h)
    BY <2>5 DEF StoreGrant, ProxyReturns, ProxyThrows, RecordUsage, LoadAll, Forget
  <2> QED BY <1>1, <2>1, <2>2, <2>3, <2>4, <2>5 DEF Step
<1>2. ASSUME NEW h \in Handlers, Expires(h) PROVE Kept
  BY <1>2 DEF Expires
<1>3. CASE WorkerDies
  BY <1>3 DEF WorkerDies
<1>4. CASE UNCHANGED vars
  BY <1>4 DEF vars
<1> QED BY <1>1, <1>2, <1>3, <1>4 DEF Next

\* A genuine entry stays genuine, so a list that a step does not write stays
\* a list of genuine grants.
LEMMA GenuineStays ==
    ASSUME TypeOK, [Next]_vars, NEW g \in Handlers, NEW s \in Slots, Genuine(g, s)
    PROVE  Genuine(g, s)'
BY Stable DEF Genuine

\* What a handler at a write can write is genuine.
LEMMA WritesAreGenuine ==
    ASSUME TypeOK, TypeOK', Routed, Genuineness, [Next]_vars,
           NEW h \in Handlers,
           \/ UNCHANGED stored
           \/ revoke(h)
           \/ recordUsage(h)
           \/ grant(h) /\ at[h] = "grant" /\ at'[h] \in Minted
    PROVE  GenuineList(stored)'
<1>1. ASSUME NEW s \in Slots, NEW g \in Handlers, stored'[s] = g
      PROVE  Genuine(g, s)'
  <2>1. CASE g = h /\ s = slot[h] /\ at[h] = "grant" /\ at'[h] \in Minted
    BY <2>1, Stable DEF Genuine, Routed, TypeOK
  <2>2. CASE snap[h][s] = g \/ stored[s] = g
    <3>1. Genuine(g, s)
      BY <2>2, NoGrantAssumption DEF Genuineness, GenuineList
    <3> QED BY <3>1, GenuineStays
  <2>3. \/ snap[h][s] = g \/ stored[s] = g
        \/ g = h /\ s = slot[h] /\ at[h] = "grant" /\ at'[h] \in Minted
    BY <1>1, NoGrantAssumption DEF revoke, recordUsage, grant, TypeOK
  <2> QED BY <2>1, <2>2, <2>3
<1> QED BY <1>1 DEF GenuineList, Genuine, TypeOK, GrantOrNone

\* So is what a handler loads; a forgotten list is empty.
LEMMA HoldingIsGenuine ==
    ASSUME TypeOK, TypeOK', Genuineness, [Next]_vars,
           \A d \in Handlers : snap'[d] \in {snap[d], stored, EmptyList}
    PROVE  \A d \in Handlers : GenuineList(snap[d])'
<1>1. ASSUME NEW d \in Handlers, NEW s \in Slots, NEW g \in Handlers, snap'[d][s] = g
      PROVE  Genuine(g, s)'
  <2>1. snap[d][s] = g \/ stored[s] = g
    BY <1>1, NoGrantAssumption DEF EmptyList
  <2>2. Genuine(g, s)
    BY <2>1, NoGrantAssumption DEF Genuineness, GenuineList
  <2> QED BY <2>2, GenuineStays
<1>2. ASSUME NEW d \in Handlers, NEW s \in Slots PROVE snap'[d][s] \in GrantOrNone
  BY DEF TypeOK
<1> QED BY <1>1, <1>2 DEF GenuineList, Genuine, GrantOrNone

\* No step makes a handler hold anything but what is stored.
LEMMA Holding ==
    ASSUME TypeOK, [Next]_vars
    PROVE  \A d \in Handlers : snap'[d] \in {snap[d], stored, EmptyList}
<1> DEFINE Held == \A d \in Handlers : snap'[d] \in {snap[d], stored, EmptyList}
<1> USE DEF TypeOK
<1>1. ASSUME NEW h \in Handlers, Step(h) PROVE Held
  <2>1. ASSUME NEW label, LoadAll(h, label) \/ Forget(h, label) PROVE Held
    BY <2>1 DEF LoadAll, Forget
  <2>2. CASE Begin(h) \/ NoPermission(h) \/ Purge(h)
    BY <2>1, <2>2 DEF Begin, NoPermission, Purge
  <2>3. CASE PermissionFound(h) \/ Revoke(h) \/ Deny(h) \/ StoreGrant(h)
             \/ ProxyThrows(h) \/ RecordUsage(h)
    BY <2>1, <2>3 DEF PermissionFound, Revoke, Deny, StoreGrant, ProxyThrows, RecordUsage
  <2>4. CASE Allow(h) \/ PermissionLapsed(h) \/ ProxyReturns(h)
    BY <2>1, <2>4 DEF Allow, PermissionLapsed, ProxyReturns
  <2> QED BY <1>1, <2>2, <2>3, <2>4 DEF Step
<1>2. ASSUME NEW h \in Handlers, Expires(h) PROVE Held
  BY <1>2 DEF Expires
<1>3. CASE WorkerDies
  BY <1>3 DEF WorkerDies
<1>4. CASE UNCHANGED vars
  BY <1>4 DEF vars
<1> QED BY <1>1, <1>2, <1>3, <1>4 DEF Next

LEMMA GenuineStep ==
    TypeOK /\ Routed /\ Genuineness /\ [Next]_vars => Genuineness'
<1> SUFFICES ASSUME TypeOK, Routed, Genuineness, [Next]_vars PROVE Genuineness'
    OBVIOUS
<1>0. TypeOK'
  BY TypeStep
<1>1. \A h \in Handlers : GenuineList(snap[h])'
  BY <1>0, Holding, HoldingIsGenuine
<1>2. GenuineList(stored)'
  <2>1. ASSUME NEW h \in Handlers, Step(h) PROVE GenuineList(stored)'
    <3>1. CASE StoreGrant(h)
      <4>1. at'[h] \in Minted
        BY <3>1 DEF StoreGrant, Forget, Goto, Minted, TypeOK
      <4> QED BY <1>0, <3>1, <4>1, WritesAreGenuine DEF StoreGrant
    <3>2. CASE Purge(h) \/ Revoke(h) \/ RecordUsage(h)
      BY <1>0, <3>2, WritesAreGenuine DEF Purge, Revoke, RecordUsage
    <3>3. CASE UNCHANGED stored
      BY <1>0, <3>3, WritesAreGenuine
    <3> QED BY <2>1, <3>1, <3>2, <3>3 DEF Step, Begin, PermissionFound, PermissionLapsed,
            NoPermission, Allow, Deny, ProxyReturns, ProxyThrows
  <2>2. CASE UNCHANGED stored /\ \E h \in Handlers : TRUE
    BY <1>0, <2>2, WritesAreGenuine
  <2>3. CASE Handlers = {}
    BY <1>0, <2>3 DEF GenuineList, TypeOK, GrantOrNone
  <2> QED BY <2>1, <2>2, <2>3 DEF Next, Expires, WorkerDies, vars
<1>3. ASSUME NEW h \in Handlers, at'[h] \in {"upstream", "usage", "served"}
      PROVE  Genuine(perm[h], slot[h])'
  <2>1. PICK g \in GrantOrNone : perm'[h] = g
    BY <1>0 DEF TypeOK
  <2>2. CASE at[h] \in {"upstream", "usage", "served"} /\ perm'[h] = perm[h]
    <3>1. g \in Handlers /\ Genuine(g, slot[h])
      BY <2>1, <2>2 DEF Genuineness, Genuine, TypeOK
    <3> QED BY <2>1, <3>1, Stable, GenuineStays DEF Genuine, TypeOK
  <2>3. CASE at[h] = "get" /\ perm'[h] = Mine(h) /\ Mine(h) # NoGrant
    <3>1. Genuine(g, slot[h])
      BY <2>1, <2>3 DEF Genuineness, GenuineList, Mine, TypeOK
    <3> QED BY <2>1, <2>3, <3>1, Stable, GenuineStays DEF Genuine, TypeOK, GrantOrNone
  <2>4. CASE at[h] = "grant" /\ perm'[h] = h
    BY <1>3, <2>4, Stable DEF Routed, Genuine, Minted, TypeOK
  <2> QED
    <3>1. ASSUME NEW d \in Handlers, Step(d)
          PROVE  \/ at[h] \in {"upstream", "usage", "served"} /\ perm'[h] = perm[h]
                 \/ at[h] = "get" /\ perm'[h] = Mine(h) /\ Mine(h) # NoGrant
                 \/ at[h] = "grant" /\ perm'[h] = h
      <4> USE DEF TypeOK, Goto
      <4>1. CASE d # h
        BY <1>3, <3>1, <4>1 DEF Step, Begin, PermissionFound, PermissionLapsed,
           NoPermission, Purge, Revoke, Allow, Deny, StoreGrant, ProxyReturns, ProxyThrows,
           RecordUsage, LoadAll, Forget
      <4>2. CASE d = h
        <5>1. CASE PermissionFound(d)
          BY <1>3, <4>2, <5>1 DEF PermissionFound, Forget
        <5>2. CASE StoreGrant(d)
          BY <1>3, <4>2, <5>2 DEF StoreGrant, Forget
        <5>3. CASE ProxyReturns(d) \/ RecordUsage(d)
          BY <1>3, <4>2, <5>3 DEF ProxyReturns, RecordUsage, LoadAll, Forget
        <5>4. CASE Begin(d) \/ PermissionLapsed(d) \/ NoPermission(d) \/ Purge(d)
                   \/ Revoke(d) \/ Allow(d) \/ Deny(d) \/ ProxyThrows(d)
          BY <1>3, <4>2, <5>4 DEF Begin, PermissionLapsed, NoPermission, Purge, Revoke,
             Allow, Deny, ProxyThrows, LoadAll, Forget, WithoutPermission
        <5> QED BY <3>1, <5>1, <5>2, <5>3, <5>4 DEF Step
      <4> QED BY <4>1, <4>2
    <3>2. CASE WorkerDies \/ UNCHANGED vars \/ \E d \in Handlers : Expires(d)
      BY <1>3, <2>2, <3>2 DEF WorkerDies, Expires, vars, TypeOK, Suspended
    <3> QED BY <2>2, <2>3, <2>4, <3>1, <3>2 DEF Next
<1>4. revoked' \subseteq {g \in Handlers : at'[g] \in Minted}
  <2>1. ASSUME NEW g \in revoked' PROVE g \in Handlers /\ at'[g] \in Minted
    <3>1. CASE g \in revoked
      BY <3>1, Stable DEF Genuineness
    <3>2. CASE \E s \in Slots : g = stored[s] /\ g # NoGrant
      <4>1. g \in Handlers /\ at[g] \in Minted
        BY <3>2 DEF Genuineness, GenuineList, Genuine, TypeOK, GrantOrNone
      <4> QED BY <4>1, Stable
    <3>3. g \in revoked \/ \E s \in Slots : g = stored[s] /\ g # NoGrant
      BY <2>1 DEF Next, Step, Begin, PermissionFound, PermissionLapsed, NoPermission, Purge,
         Revoke, Allow, Deny, StoreGrant, ProxyReturns, ProxyThrows, RecordUsage, Expires,
         WorkerDies, vars, TypeOK
    <3> QED BY <3>1, <3>2, <3>3
  <2> QED BY <2>1
<1> QED BY <1>1, <1>2, <1>3, <1>4 DEF Genuineness

\* A handler comes to a write only by loading the stored list.
LEMMA WritersLoad ==
    ASSUME TypeOK, [Next]_vars, NEW d \in Handlers, at'[d] \in Writing
    PROVE  snap'[d] = stored \/ (at[d] \in Writing /\ snap'[d] = snap[d])
<1> DEFINE Loaded == snap'[d] = stored \/ (at[d] \in Writing /\ snap'[d] = snap[d])
<1> USE DEF TypeOK, Goto, Writing
<1>1. ASSUME NEW h \in Handlers, Step(h) PROVE Loaded
  <2>1. CASE Begin(h)
    BY <2>1 DEF Begin, LoadAll, Forget, WithoutPermission
  <2>2. CASE PermissionFound(h) \/ Revoke(h) \/ Deny(h) \/ ProxyThrows(h) \/ RecordUsage(h)
             \/ StoreGrant(h)
    BY <2>2 DEF PermissionFound, Revoke, Deny, ProxyThrows, RecordUsage, StoreGrant, Forget
  <2>3. CASE NoPermission(h) \/ Purge(h)
    BY <2>3 DEF NoPermission, Purge, Forget, WithoutPermission
  <2>4. CASE PermissionLapsed(h) \/ ProxyReturns(h)
    BY <2>4 DEF PermissionLapsed, ProxyReturns, LoadAll
  <2>5. CASE Allow(h)
    BY <2>5 DEF Allow, LoadAll, Forget
  <2> QED BY <1>1, <2>1, <2>2, <2>3, <2>4, <2>5 DEF Step
<1>2. ASSUME NEW h \in Handlers, Expires(h) PROVE Loaded
  BY <1>2 DEF Expires
<1>3. CASE WorkerDies
  BY <1>3 DEF WorkerDies, Suspended
<1>4. CASE UNCHANGED vars
  BY <1>4 DEF vars
<1> QED BY <1>1, <1>2, <1>3, <1>4 DEF Next

\* What a write leaves in the list was stored, or held by the writer, or is
\* the writer's own new grant.
LEMMA WritesAreHeld ==
    ASSUME TypeOK, [Next]_vars, NEW s \in Slots, NEW g \in Handlers, stored'[s] = g
    PROVE  \/ stored[s] = g
           \/ \E h \in Handlers : at[h] \in Writing /\ snap[h][s] = g
           \/ at[g] = "grant"
<1> USE DEF TypeOK, Writing
<1>1. ASSUME NEW h \in Handlers, Step(h), stored' # stored
      PROVE  (snap[h][s] = g /\ at[h] \in Writing) \/ at[g] = "grant" \/ stored[s] = g
  <2>1. CASE Purge(h) \/ Revoke(h)
    BY <1>1, <2>1, NoGrantAssumption DEF Purge, Revoke, revoke
  <2>2. CASE StoreGrant(h)
    BY <1>1, <2>2 DEF StoreGrant, grant
  <2>3. CASE RecordUsage(h)
    BY <1>1, <2>3 DEF RecordUsage, recordUsage
  <2> QED BY <1>1, <2>1, <2>2, <2>3 DEF Step, Begin, PermissionFound, PermissionLapsed,
          NoPermission, Allow, Deny, ProxyReturns, ProxyThrows
<1> QED BY <1>1 DEF Next, Expires, WorkerDies, vars

\* The grants that become revoked.
LEMMA RevokedBy ==
    ASSUME TypeOK, [Next]_vars, NEW g \in Handlers, g \in revoked', g \notin revoked
    PROVE  \E h \in Handlers : Revoke(h) /\ g = stored[slot[h]]
BY DEF Next, Step, Begin, PermissionFound, PermissionLapsed, NoPermission, Purge, Revoke,
       Allow, Deny, StoreGrant, ProxyReturns, ProxyThrows, RecordUsage, Expires, WorkerDies,
       vars, TypeOK

LEMMA RacedGrows == ASSUME [Next]_vars PROVE raced \subseteq raced'
BY DEF Next, Step, Begin, PermissionFound, PermissionLapsed, NoPermission, Purge, Revoke,
       Allow, Deny, StoreGrant, ProxyReturns, ProxyThrows, RecordUsage, Expires, WorkerDies,
       vars

LEMMA FinalStep ==
    TypeOK /\ Routed /\ Genuineness /\ Final /\ [Next]_vars => Final'
<1> SUFFICES ASSUME TypeOK, Routed, Genuineness, Final, [Next]_vars,
                    NEW g \in revoked', g \notin raced'
             PROVE  /\ \A s \in Slots : stored'[s] # g
                    /\ \A h \in Handlers : at'[h] \in Writing => \A s \in Slots : snap'[h][s] # g
    BY DEF Final
<1>1. g \in Handlers
  BY TypeStep DEF TypeOK
<1>2. CASE g \in revoked
  <2>1. /\ \A s \in Slots : stored[s] # g
        /\ \A h \in Handlers : at[h] \in Writing => \A s \in Slots : snap[h][s] # g
    BY <1>2, RacedGrows DEF Final
  <2>2. at[g] # "grant"
    BY <1>2 DEF Genuineness, Minted
  <2>3. \A s \in Slots : stored'[s] # g
    BY <1>1, <2>1, <2>2, WritesAreHeld
  <2>4. \A h \in Handlers : at'[h] \in Writing => \A s \in Slots : snap'[h][s] # g
    BY <2>1, WritersLoad
  <2> QED BY <2>3, <2>4
<1>3. CASE g \notin revoked
  <2>1. PICK h \in Handlers : Revoke(h) /\ g = stored[slot[h]]
    BY <1>1, <1>3, RevokedBy
  <2>2. \A d \in Handlers \ {h}, s \in Slots : at[d] \in Writing => snap[d][s] # g
    <3>1. raced' = IF \E d \in Handlers \ {h}, s \in Slots :
                          at[d] \in Writing /\ snap[d][s] = g
                   THEN raced \cup ({g} \ {NoGrant}) ELSE raced
      BY <2>1 DEF Revoke
    <3> QED BY <1>1, <3>1, NoGrantAssumption
  <2>3. \A s \in Slots : s # slot[h] => snap[h][s] # g /\ stored[s] # g
    <3>1. slot[h] \in Slots /\ g # NoGrant
      BY <1>1, NoGrantAssumption DEF TypeOK
    <3>2. slot[g] = slot[h]
      BY <2>1, <3>1 DEF Genuineness, GenuineList, Genuine
    <3>3. \A s \in Slots : snap[h][s] = g \/ stored[s] = g => slot[g] = s
      BY <3>1 DEF Genuineness, GenuineList, Genuine
    <3> QED BY <3>2, <3>3
  <2>4. \A s \in Slots : stored'[s] # g
    BY <1>1, <2>1, <2>3, NoGrantAssumption DEF Revoke, revoke, TypeOK
  <2>5. \A d \in Handlers : at'[d] \in Writing =>
            d # h /\ at[d] \in Writing /\ snap'[d] = snap[d]
    BY <2>1 DEF Revoke, Forget, Goto, Writing, TypeOK
  <2> QED BY <2>2, <2>4, <2>5
<1> QED BY <1>2, <1>3

THEOREM Invariants == Spec => [](TypeOK /\ Routed /\ Genuineness /\ Final)
<1>1. Init => Routed /\ Genuineness /\ Final
  BY DEF Init, Routed, Genuineness, GenuineList, Final, EmptyList, Writing
<1> QED BY <1>1, TypeCorrect, RoutedStep, GenuineStep, FinalStep, PTL DEF Spec

\* For any number of handlers writing the list over one another, a proxied
\* call runs only under a grant that the user allowed, by a connect or proxy
\* consent, for the origin and service of the call.
THEOREM EveryUseIsConsented == Spec => []UseIsConsented
<1>1. Genuineness => UseIsConsented
  BY DEF Genuineness, Genuine, UseIsConsented
<1> QED BY <1>1, Invariants, PTL

\* For any number of handlers, a revoked grant comes back only if some other
\* handler held it, loaded and not yet written, when the revoke landed.
THEOREM UnracedRevokeIsFinal == Spec => []RevokeIsFinalUnlessRaced
<1>1. TypeOK /\ Final => RevokeIsFinalUnlessRaced
  BY DEF Final, RevokeIsFinalUnlessRaced
<1> QED BY <1>1, Invariants, PTL
-----------------------------------------------------------------------------
(* Charges.  A list that a handler has loaded may be old, but what it counts *)
(* was served before it was loaded, and what was served stays served: so no *)
(* list, stored or held, counts more than was served, and recordUsage adds  *)
(* one call to such a list in the step that ends its own call as served.    *)

Served(s) == {h \in Handlers : at[h] = "served" /\ slot[h] = s}

Counted ==
    \A s \in Slots :
        /\ IsFiniteSet(Served(s))
        /\ used[s] <= Cardinality(Served(s))
        /\ \A h \in Handlers : snapUsed[h][s] <= Cardinality(Served(s))

\* A step after which the same calls are served, and every count is one that
\* some list had, or zero.
LEMMA NothingServed ==
    ASSUME TypeOK, Counted, \A s \in Slots : Served(s)' = Served(s),
           \A s \in Slots : used'[s] \in {0, used[s]} \cup {snapUsed[d][s] : d \in Handlers},
           \A h \in Handlers : \A s \in Slots : snapUsed'[h][s] \in {0, used[s], snapUsed[h][s]}
    PROVE  Counted'
<1> SUFFICES ASSUME NEW s \in Slots
             PROVE  /\ IsFiniteSet(Served(s)')
                    /\ used'[s] <= Cardinality(Served(s)')
                    /\ \A h \in Handlers : snapUsed'[h][s] <= Cardinality(Served(s)')
  BY DEF Counted
<1> DEFINE n == Cardinality(Served(s))
<1>1. IsFiniteSet(Served(s)) /\ Served(s)' = Served(s) /\ n \in Nat
  BY FS_CardinalityType DEF Counted
<1>2. 0 <= n /\ used[s] <= n /\ \A d \in Handlers : snapUsed[d][s] <= n
  BY <1>1 DEF Counted
<1>3. used'[s] <= n /\ \A h \in Handlers : snapUsed'[h][s] <= n
  <2> HIDE DEF n
  <2>1. QED
    BY <1>2
<1>4. QED
  BY <1>1, <1>3

\* Where at goes to a label other than "served", the same calls are served.
LEMMA SameServed ==
    ASSUME TypeOK, NEW h \in Handlers, NEW label, label # "served", at[h] # "served",
           Goto(h, label), slot' = slot
    PROVE  \A s \in Slots : Served(s)' = Served(s)
BY DEF TypeOK, Goto, Served

\* A handler that only loads or forgets a list.
LEMMA HoldsOnly ==
    ASSUME TypeOK, Counted, NEW h \in Handlers, NEW label, label # "served", at[h] # "served",
           LoadAll(h, label) \/ Forget(h, label), slot' = slot,
           \A s \in Slots : used'[s] \in {0, used[s]} \cup {snapUsed[d][s] : d \in Handlers}
    PROVE  Counted'
<1>1. \A s \in Slots : Served(s)' = Served(s)
  BY SameServed DEF LoadAll, Forget
<1>2. \A d \in Handlers : \A s \in Slots : snapUsed'[d][s] \in {0, used[s], snapUsed[d][s]}
  BY DEF LoadAll, Forget, NoUse, TypeOK
<1>3. QED
  BY <1>1, <1>2, NothingServed

LEMMA RecordUsageCounted ==
    ASSUME TypeOK, Counted, NEW h \in Handlers, RecordUsage(h)
    PROVE  Counted'
<1>1. /\ recordUsage(h) /\ Forget(h, "served") /\ slot' = slot
      /\ at[h] = "usage" /\ at' = [at EXCEPT ![h] = "served"]
  BY DEF RecordUsage, Forget, Goto
<1> SUFFICES ASSUME NEW s \in Slots
             PROVE  /\ IsFiniteSet(Served(s)')
                    /\ used'[s] <= Cardinality(Served(s)')
                    /\ \A d \in Handlers : snapUsed'[d][s] <= Cardinality(Served(s)')
  BY DEF Counted
<1> DEFINE n == Cardinality(Served(s))
<1>2. IsFiniteSet(Served(s)) /\ n \in Nat /\ used[s] \in Nat /\ snapUsed[h][s] \in Nat
  BY FS_CardinalityType DEF Counted, TypeOK
<1>3. used[s] <= n /\ \A d \in Handlers : snapUsed[d][s] <= n
  BY DEF Counted
<1>4. \A d \in Handlers : snapUsed'[d][s] \in {0, snapUsed[d][s]}
  BY <1>1 DEF Forget, NoUse, TypeOK
<1>5. \A d \in Handlers : snapUsed'[d][s] <= n
  <2> HIDE DEF n
  <2>1. QED
    BY <1>2, <1>3, <1>4
<1>6. CASE s # slot[h]
  <2>1. Served(s)' = Served(s)
    BY <1>1, <1>6 DEF Served, TypeOK
  <2>2. used'[s] \in {used[s], snapUsed[h][s]}
    BY <1>1, <1>6 DEF recordUsage, TypeOK
  <2>3. used'[s] <= n
    <3> HIDE DEF n
    <3>1. QED
      BY <1>3, <2>2
  <2>4. QED
    BY <1>2, <1>5, <2>1, <2>3
<1>7. CASE s = slot[h]
  <2>1. Served(s)' = Served(s) \cup {h} /\ h \notin Served(s)
    BY <1>1, <1>7 DEF Served, TypeOK
  <2>2. IsFiniteSet(Served(s)') /\ Cardinality(Served(s)') = n + 1
    BY <1>2, <2>1, FS_AddElement
  <2>3. used'[s] = used[s] \/ used'[s] = snapUsed[h][s] + 1
    BY <1>1, <1>7 DEF recordUsage, TypeOK
  <2>4. used'[s] <= n + 1 /\ \A d \in Handlers : snapUsed'[d][s] <= n + 1
    <3>1. \A d \in Handlers : snapUsed'[d][s] \in Nat
      BY <1>4 DEF TypeOK
    <3> HIDE DEF n
    <3>2. QED
      BY <1>2, <1>3, <1>5, <2>3, <3>1
  <2>5. QED
    BY <2>2, <2>4
<1>8. QED
  BY <1>6, <1>7

LEMMA CountedStep == TypeOK /\ Counted /\ [Next]_vars => Counted'
<1> SUFFICES ASSUME TypeOK, Counted, [Next]_vars PROVE Counted'
  OBVIOUS
<1>0. \A h \in Handlers : "served" \notin WithoutPermission(h)
  BY DEF WithoutPermission
<1>1. ASSUME NEW h \in Handlers, Step(h) PROVE Counted'
  <2>1. CASE Begin(h)
    BY <1>0, <2>1, HoldsOnly DEF Begin
  <2>2. CASE PermissionFound(h)
    BY <2>2, HoldsOnly DEF PermissionFound
  <2>3. CASE PermissionLapsed(h)
    BY <2>3, HoldsOnly DEF PermissionLapsed
  <2>4. CASE NoPermission(h)
    BY <1>0, <2>4, HoldsOnly DEF NoPermission
  <2>5. CASE Purge(h) \/ Revoke(h)
    <3>1. \A s \in Slots : used'[s] \in {0, snapUsed[h][s]}
      BY <2>5 DEF Purge, Revoke, revoke, TypeOK
    <3>2. QED
      BY <1>0, <2>5, <3>1, HoldsOnly DEF Purge, Revoke
  <2>6. CASE Allow(h)
    BY <2>6, HoldsOnly DEF Allow
  <2>7. CASE Deny(h)
    BY <2>7, HoldsOnly DEF Deny
  <2>8. CASE StoreGrant(h)
    <3>1. \A s \in Slots : used'[s] \in {0, snapUsed[h][s]}
      BY <2>8 DEF StoreGrant, grant, TypeOK
    <3>2. QED
      BY <2>8, <3>1, HoldsOnly DEF StoreGrant
  <2>9. CASE ProxyReturns(h)
    BY <2>9, HoldsOnly DEF ProxyReturns
  <2>10. CASE ProxyThrows(h)
    BY <2>10, HoldsOnly DEF ProxyThrows
  <2>11. CASE RecordUsage(h)
    BY <2>11, RecordUsageCounted
  <2> QED BY <1>1, <2>1, <2>2, <2>3, <2>4, <2>5, <2>6, <2>7, <2>8, <2>9, <2>10, <2>11 DEF Step
<1>2. ASSUME NEW h \in Handlers, Expires(h) PROVE Counted'
  BY <1>2 DEF Expires, Counted, Served
<1>3. CASE WorkerDies
  <2>1. \A s \in Slots : Served(s)' = Served(s)
    BY <1>3 DEF WorkerDies, Served, Suspended, Writing, TypeOK
  <2>2. \A h \in Handlers : \A s \in Slots : snapUsed'[h][s] \in {0, snapUsed[h][s]}
    BY <1>3 DEF WorkerDies, NoUse, TypeOK
  <2>3. QED
    BY <1>3, <2>1, <2>2, NothingServed DEF WorkerDies
<1>4. CASE UNCHANGED vars
  BY <1>4 DEF vars, Counted, Served
<1> QED BY <1>1, <1>2, <1>3, <1>4 DEF Next

\* No call is charged that was not served to its slot, though handlers write
\* the list over each other and workers die between a load and its set.
THEOREM ChargesAreServed == Spec => []ChargedOnlyWhenServed
<1>1. Init => TypeOK
  BY DEF Init, TypeOK, EmptyList, NoUse, GrantOrNone
<1>2. Init => Counted
  <2> SUFFICES ASSUME Init PROVE Counted
    OBVIOUS
  <2>1. \A s \in Slots : Served(s) = {}
    BY DEF Init, Served
  <2>2. \A s \in Slots : used[s] = 0 /\ \A h \in Handlers : snapUsed[h][s] = 0
    BY DEF Init, NoUse
  <2>3. IsFiniteSet({}) /\ Cardinality({}) = 0
    BY FS_EmptySet
  <2>4. QED
    BY <2>1, <2>2, <2>3 DEF Counted
<1>3. Counted => ChargedOnlyWhenServed
  BY DEF Counted, Served, ChargedOnlyWhenServed
<1> QED BY <1>1, <1>2, <1>3, TypeStep, CountedStep, PTL DEF Spec
=============================================================================
