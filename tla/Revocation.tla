------------------------------ MODULE Revocation ------------------------------
(***************************************************************************)
(* The revocation guard of the fetch proxy: background/revocation.ts (the  *)
(* stored epoch and the in-memory registry of AbortControllers) together   *)
(* with background/proxy.ts (proxyRequest, which reads the epoch before    *)
(* and after the upstream fetch).                                          *)
(*                                                                         *)
(* The service worker runs one JavaScript thread, and handlers interleave  *)
(* at every `await`.  chrome.storage answers its requests in the order     *)
(* they were issued, so a storage call takes effect in the step that       *)
(* issues it and the handler goes on in a later step: a value read is a    *)
(* snapshot that may be stale when the handler uses it.                    *)
(***************************************************************************)
EXTENDS Naturals

CONSTANTS
    Calls,      \* invocations of proxyRequest
    Grants,     \* grant ids that an audit context may carry
    NoGrant,    \* the audit context is absent or carries no grant id
    Bumps,      \* invocations of bumpEpoch
    Overlap     \* TRUE: two invocations of bumpEpoch may run at once

ASSUME GrantsAssumption == NoGrant \notin Grants
ASSUME OverlapAssumption == Overlap \in BOOLEAN

VARIABLES
    epoch,      \* chrome.storage.local "moltypass.revocation.epoch"
    registry,   \* module-scope registry: the calls whose controller it holds
    \* proxyRequest
    callAt,     \* the await each call is suspended at, or how it ended
    grantId,    \* the grant id of its audit context
    before,     \* epochBefore
    after,      \* epochAfter, or the epoch read in the catch block
    aborted,    \* the calls whose abort signal has fired
    \* bumpEpoch
    bumpAt,     \* the await each bump is suspended at, or how it ended
    current,    \* the epoch it read
    \* history
    crossed     \* the calls between whose two epoch reads a bump landed

callVars == <<callAt, grantId, before, after, aborted>>
bumpVars == <<bumpAt, current>>
vars == <<epoch, registry, callVars, bumpVars, crossed>>

Suspended == {"key", "epoch", "fetching", "body", "caught", "check"}
Ended == {"ok", "revoked", "aborted", "failed", "lost"}

\* The calls that have read epochBefore and not yet epochAfter.
Open == {c \in Calls : callAt[c] \in {"epoch", "fetching", "body"}}

\* The bumps that have read the epoch and not yet aborted the registry.
Bumping == {b \in Bumps : bumpAt[b] \in {"read", "set"}}

TypeOK ==
    /\ epoch \in Nat
    /\ registry \subseteq Calls
    /\ callAt \in [Calls -> {"idle"} \cup Suspended \cup Ended]
    /\ grantId \in [Calls -> Grants \cup {NoGrant}]
    /\ before \in [Calls -> Nat]
    /\ after \in [Calls -> Nat]
    /\ aborted \subseteq Calls
    /\ bumpAt \in [Bumps -> {"idle", "read", "set", "done", "lost"}]
    /\ current \in [Bumps -> Nat]
    /\ crossed \subseteq Calls

Init ==
    /\ epoch = 0
    /\ registry = {}
    /\ callAt = [c \in Calls |-> "idle"]
    /\ grantId = [c \in Calls |-> NoGrant]
    /\ before = [c \in Calls |-> 0]
    /\ after = [c \in Calls |-> 0]
    /\ aborted = {}
    /\ bumpAt = [b \in Bumps |-> "idle"]
    /\ current = [b \in Bumps |-> 0]
    /\ crossed = {}

-----------------------------------------------------------------------------
(* The registry of in-flight controllers.                                  *)

registerInFlight(c) ==
    IF grantId[c] = NoGrant THEN registry ELSE registry \cup {c}

\* Mutant: the whole bucket of the grant is deleted with one controller.
UnregisterBucket(c) == {d \in registry : grantId[d] # grantId[c]}

unregisterInFlight(c) == registry \ {c}

-----------------------------------------------------------------------------
(* proxyRequest, one action per await.                                     *)

Goto(c, at) == callAt' = [callAt EXCEPT ![c] = at]

\* The request is checked and getKeyPlaintext is called.
StartCall(c, g) ==
    /\ callAt[c] = "idle"
    /\ Goto(c, "key")
    /\ grantId' = [grantId EXCEPT ![c] = g]
    /\ UNCHANGED <<epoch, registry, before, after, aborted, bumpVars, crossed>>

\* An unknown service, a bad path, a locked vault or a missing key: throw.
KeyFails(c) ==
    /\ callAt[c] = "key"
    /\ Goto(c, "failed")
    /\ UNCHANGED <<epoch, registry, grantId, before, after, aborted, bumpVars, crossed>>

ReadEpochBefore(c) ==
    /\ callAt[c] = "key"
    /\ Goto(c, "epoch")
    /\ before' = [before EXCEPT ![c] = epoch]
    /\ UNCHANGED <<epoch, registry, grantId, after, aborted, bumpVars, crossed>>

\* A new AbortController is registered if there is a grant id; fetch starts.
StartFetch(c) ==
    /\ callAt[c] = "epoch"
    /\ Goto(c, "fetching")
    /\ registry' = registerInFlight(c)
    /\ UNCHANGED <<epoch, grantId, before, after, aborted, bumpVars, crossed>>

\* The upstream answers; res.text() starts.  An aborted fetch never resolves.
FetchResolves(c) ==
    /\ callAt[c] = "fetching"
    /\ c \notin aborted
    /\ Goto(c, "body")
    /\ UNCHANGED <<epoch, registry, grantId, before, after, aborted, bumpVars, crossed>>

\* The network fails: the error is rethrown.
FetchFails(c) ==
    /\ callAt[c] = "fetching"
    /\ c \notin aborted
    /\ Goto(c, "failed")
    /\ registry' = unregisterInFlight(c)
    /\ UNCHANGED <<epoch, grantId, before, after, aborted, bumpVars, crossed>>

\* The abort signal rejects the fetch; the catch block reads the epoch again.
FetchAborted(c) ==
    /\ callAt[c] = "fetching"
    /\ c \in aborted
    /\ Goto(c, "caught")
    /\ registry' = unregisterInFlight(c)
    /\ after' = [after EXCEPT ![c] = epoch]
    /\ UNCHANGED <<epoch, grantId, before, aborted, bumpVars, crossed>>

Caught(c) ==
    /\ callAt[c] = "caught"
    /\ Goto(c, IF after[c] # before[c] THEN "revoked" ELSE "aborted")
    /\ UNCHANGED <<epoch, registry, grantId, before, after, aborted, bumpVars, crossed>>

\* The body is complete, abort or not; the epoch is read again.
ReadEpochAfter(c) ==
    /\ callAt[c] = "body"
    /\ Goto(c, "check")
    /\ registry' = unregisterInFlight(c)
    /\ after' = [after EXCEPT ![c] = epoch]
    /\ UNCHANGED <<epoch, grantId, before, aborted, bumpVars, crossed>>

\* res.text() rejects, outside the try block: nothing is unregistered.
BodyFails(c) ==
    /\ callAt[c] = "body"
    /\ Goto(c, IF c \in aborted THEN "aborted" ELSE "failed")
    /\ UNCHANGED <<epoch, registry, grantId, before, after, aborted, bumpVars, crossed>>

\* Mutant: the check lets a response through when the epoch moved by one.
EpochIsClose(c) == after[c] <= before[c] + 1

EpochMatches(c) == after[c] = before[c]

\* The response is returned, or RevokedError is thrown.
Check(c) ==
    /\ callAt[c] = "check"
    /\ Goto(c, IF EpochMatches(c) THEN "ok" ELSE "revoked")
    /\ UNCHANGED <<epoch, registry, grantId, before, after, aborted, bumpVars, crossed>>

-----------------------------------------------------------------------------
(* bumpEpoch, one action per await, and abortGrant.                        *)

BumpRead(b) ==
    /\ bumpAt[b] = "idle"
    /\ Overlap \/ Bumping = {}
    /\ bumpAt' = [bumpAt EXCEPT ![b] = "read"]
    /\ current' = [current EXCEPT ![b] = epoch]
    /\ UNCHANGED <<epoch, registry, callVars, crossed>>

\* Mutant: the value that was read is written back.
SameEpoch(b) == current[b]

\* Mutant: the epoch counts down.
PreviousEpoch(b) == current[b] - 1

NextEpoch(b) == current[b] + 1

BumpSet(b) ==
    /\ bumpAt[b] = "read"
    /\ epoch' = NextEpoch(b)
    /\ bumpAt' = [bumpAt EXCEPT ![b] = "set"]
    /\ crossed' = crossed \cup Open
    /\ UNCHANGED <<registry, callVars, current>>

\* Mutant: the loop over the registry stops after one controller.
AbortOne(cs) == IF cs = {} THEN {} ELSE {CHOOSE c \in cs : TRUE}

\* The controllers of `cs` that a loop over them aborts.
AbortEach(cs) == cs

abortAllInFlight(b) ==
    /\ bumpAt[b] = "set"
    /\ aborted' = aborted \cup AbortEach(registry)
    /\ registry' = {}
    /\ bumpAt' = [bumpAt EXCEPT ![b] = "done"]
    /\ UNCHANGED <<epoch, callAt, grantId, before, after, current, crossed>>

\* Exported beside bumpEpoch: abort the controllers of one grant, no bump.
abortGrant(g) ==
    LET bucket == {c \in registry : grantId[c] = g} IN
    /\ bucket # {}
    /\ aborted' = aborted \cup AbortEach(bucket)
    /\ registry' = registry \ bucket
    /\ UNCHANGED <<epoch, callAt, grantId, before, after, bumpVars, crossed>>

-----------------------------------------------------------------------------
\* The browser ends the service worker: its memory, the fetches and every
\* handler in progress are gone; the stored epoch stays.
WorkerDies ==
    /\ \/ registry # {}
       \/ \E c \in Calls : callAt[c] \in Suspended
       \/ Bumping # {}
    /\ registry' = {}
    /\ callAt' = [c \in Calls |-> IF callAt[c] \in Suspended THEN "lost" ELSE callAt[c]]
    /\ bumpAt' = [b \in Bumps |-> IF b \in Bumping THEN "lost" ELSE bumpAt[b]]
    /\ UNCHANGED <<epoch, grantId, before, after, aborted, current, crossed>>

CallStep(c) ==
    \/ \E g \in Grants \cup {NoGrant} : StartCall(c, g)
    \/ KeyFails(c) \/ ReadEpochBefore(c) \/ StartFetch(c)
    \/ FetchResolves(c) \/ FetchFails(c) \/ FetchAborted(c) \/ Caught(c)
    \/ ReadEpochAfter(c) \/ BodyFails(c) \/ Check(c)

BumpStep(b) == BumpRead(b) \/ BumpSet(b) \/ abortAllInFlight(b)

Next ==
    \/ \E c \in Calls : CallStep(c)
    \/ \E b \in Bumps : BumpStep(b)
    \/ \E g \in Grants : abortGrant(g)
    \/ WorkerDies

\* The browser answers storage calls and delivers an abort; it does not
\* promise that the upstream ever answers.
Fairness ==
    /\ \A c \in Calls :
        /\ WF_vars(FetchAborted(c))
        /\ WF_vars(Caught(c))
        /\ WF_vars(Check(c))
        /\ WF_vars(c \in aborted /\ (ReadEpochAfter(c) \/ BodyFails(c)))
    /\ \A b \in Bumps : WF_vars(BumpSet(b)) /\ WF_vars(abortAllInFlight(b))

Spec == Init /\ [][Next]_vars
FairSpec == Spec /\ Fairness

-----------------------------------------------------------------------------
(* Properties.                                                             *)

\* A call that a revocation crossed - a bump reached storage between the
\* call's two epoch reads - never returns its response to the page.
NoAnswerAcrossRevoke == \A c \in crossed : callAt[c] # "ok"

\* Every tracked call that is upstream can be aborted: its controller is in
\* the registry, or has been aborted.  A call of the same grant that ends
\* must not take its neighbour's controller along.
InFlightIsAbortable ==
    \A c \in Calls :
        callAt[c] \in {"fetching", "body"} /\ grantId[c] # NoGrant
            => c \in registry \/ c \in aborted

\* The stored epoch never goes back.
EpochMonotone == [][epoch' >= epoch]_vars

\* A call that is registered when a bump lands ends, even if the upstream
\* never answers and the call would otherwise hang.
RevokeEndsTrackedCalls ==
    \A b \in Bumps, c \in Calls :
        (bumpAt[b] = "set" /\ c \in registry) ~> (callAt[c] \in Ended)

\* The abstract status of a call.  The decision to answer is taken with the
\* second read, one await before the response is returned.
Status(c) ==
    CASE callAt[c] \in {"idle", "key"} -> "idle"
      [] callAt[c] \in {"epoch", "fetching", "body"} -> "open"
      [] callAt[c] = "check" /\ EpochMatches(c) -> "cleared"
      [] callAt[c] = "ok" -> "answered"
      [] OTHER -> "refused"

Guarantee == INSTANCE RevokeGuarantee WITH
    generation <- epoch,
    status     <- [c \in Calls |-> Status(c)],
    openedAt   <- before

\* As long as bumps do not overlap, the stored epoch, the two reads and the
\* registry implement RevokeGuarantee: revocation looks instantaneous.
ImplementsGuarantee == Guarantee!Spec
=============================================================================
