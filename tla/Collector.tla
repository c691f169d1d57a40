------------------------------- MODULE Collector -------------------------------
(***************************************************************************)
(* The enterprise bridge: the outbox of audit events (background/outbox.ts), *)
(* the ingest and policy ticks that an alarm starts (background/           *)
(* enterprise.ts, background/policy.ts) under a stored backoff             *)
(* (background/backoff.ts), and the collector's two routes                 *)
(* (web/app/api/ingest, web/app/api/policy).                               *)
(*                                                                         *)
(* IndexedDB runs the transactions on the outbox in the order they were    *)
(* created, so a transaction takes effect in the step that creates it and  *)
(* its caller goes on in a later step.  Nothing keeps a tick from starting *)
(* while another is in progress, or trims from overlapping.                *)
(***************************************************************************)
EXTENDS Naturals, FiniteSets

CONSTANTS
    MaxEvents,  \* bound: how many events are enqueued
    Cap,        \* MAX_OUTBOX_ROWS
    Batch,      \* INGEST_BATCH
    Ingests,    \* ingest ticks that may be in progress at once
    Policies,   \* policy ticks that may be in progress at once
    MaxVersion, \* bound: how often the admin saves a policy
    MaxDelay,   \* MAX_MS in units of BASE_MS
    MaxDeaths,  \* bound: how often the worker dies
    Rejected    \* the events that the route's validation refuses

Events == 1..MaxEvents
Versions == 0..MaxVersion
Ticks == Ingests \cup Policies

ASSUME BoundsAssumption ==
    /\ MaxEvents \in Nat /\ MaxVersion \in Nat /\ MaxDeaths \in Nat
    /\ Cap \in Nat \ {0} /\ Batch \in Nat \ {0} /\ MaxDelay \in Nat \ {0}
ASSUME TicksAssumption == Ingests \cap Policies = {}
ASSUME RejectedAssumption == Rejected \subseteq Events

None == MaxVersion + 1

VARIABLES
    \* the outbox; an event is named by its autoIncrement key
    outbox,     \* the rows
    lastSeq,    \* the last key given out; keys are never used twice
    trimAt,     \* the trim that enqueue starts for each event
    excess,     \* toDrop of that trim
    \* "moltypass.enterprise.backoff"
    failures,   \* how many attempts have failed in a row
    wait,       \* what is left until nextAttemptAt, in units of BASE_MS
    \* the ticks
    at,         \* the await each tick is suspended at
    prior,      \* failures as the tick loaded them
    batch,      \* ingest: the rows it peeked
    etag,       \* policy: the etag it sends, then that of the reply
    \* "moltypass.enterprise.policy": the policy of a version stands for it
    cacheEtag, cachePolicy,
    \* the collector
    received,   \* the events it has stored
    version,    \* the version of the policy row
    \* history
    trimmed,    \* the rows that a trim dropped
    deaths

outboxVars == <<outbox, lastSeq, trimAt, excess>>
backoffVars == <<failures, wait>>
tickVars == <<at, prior, batch, etag>>
cacheVars == <<cacheEtag, cachePolicy>>
serverVars == <<received, version>>
vars == <<outboxVars, backoffVars, tickVars, cacheVars, serverVars, trimmed, deaths>>

IngestAt == {"load", "peek", "stored", "answered", "failed"}
PolicyAt == {"load", "cache", "fresh", "same", "answered", "failed"}

TypeOK ==
    /\ outbox \subseteq Events
    /\ lastSeq \in 0..MaxEvents
    /\ trimAt \in [Events -> {"none", "count", "drop"}]
    /\ excess \in [Events -> 0..MaxEvents]
    /\ failures \in Nat
    /\ wait \in 0..MaxDelay
    /\ at \in [Ticks -> {"idle"} \cup IngestAt \cup PolicyAt]
    /\ prior \in [Ticks -> Nat]
    /\ batch \in [Ticks -> SUBSET Events]
    /\ etag \in [Ticks -> Versions \cup {None}]
    /\ cacheEtag \in Versions \cup {None}
    /\ cachePolicy \in Versions \cup {None}
    /\ received \subseteq Events
    /\ version \in Versions
    /\ trimmed \subseteq Events
    /\ deaths \in 0..MaxDeaths

Init ==
    /\ outbox = {} /\ lastSeq = 0
    /\ trimAt = [e \in Events |-> "none"]
    /\ excess = [e \in Events |-> 0]
    /\ failures = 0 /\ wait = 0
    /\ at = [t \in Ticks |-> "idle"]
    /\ prior = [t \in Ticks |-> 0]
    /\ batch = [t \in Ticks |-> {}]
    /\ etag = [t \in Ticks |-> None]
    /\ cacheEtag = None /\ cachePolicy = None
    /\ received = {} /\ version = 0
    /\ trimmed = {} /\ deaths = 0

-----------------------------------------------------------------------------
(* The outbox.                                                             *)

\* The oldest n rows.
Oldest(n) == {e \in outbox : Cardinality({d \in outbox : d < e}) < n}

\* enqueue adds a row, and then starts a trim that it does not await.
Enqueue ==
    LET e == lastSeq + 1 IN
    /\ e \in Events
    /\ outbox' = outbox \cup {e}
    /\ lastSeq' = e
    /\ trimAt' = [trimAt EXCEPT ![e] = "count"]
    /\ UNCHANGED <<excess, backoffVars, tickVars, cacheVars, serverVars, trimmed, deaths>>

\* Mutant: one row too many is left alone.
TrimLate(total) == total <= Cap + 1

FitsCap(total) == total <= Cap

TrimCount(e) ==
    LET total == Cardinality(outbox) IN
    /\ trimAt[e] = "count"
    /\ IF FitsCap(total)
       THEN trimAt' = [trimAt EXCEPT ![e] = "none"] /\ UNCHANGED excess
       ELSE /\ trimAt' = [trimAt EXCEPT ![e] = "drop"]
            /\ excess' = [excess EXCEPT ![e] = total - Cap]
    /\ UNCHANGED <<outbox, lastSeq, backoffVars, tickVars, cacheVars, serverVars, trimmed, deaths>>

\* The rows are dropped in a transaction of their own.
TrimDrop(e) ==
    /\ trimAt[e] = "drop"
    /\ trimAt' = [trimAt EXCEPT ![e] = "none"]
    /\ excess' = [excess EXCEPT ![e] = 0]
    /\ outbox' = outbox \ Oldest(excess[e])
    /\ trimmed' = trimmed \cup Oldest(excess[e])
    /\ UNCHANGED <<lastSeq, backoffVars, tickVars, cacheVars, serverVars, deaths>>

\* Mutant: everything queued is deleted, new rows included.
ClearAll(t) == outbox

\* deleteUpTo(maxSeq): the rows up to the last one of the batch.
Confirmed(t) == {e \in outbox : \E d \in batch[t] : e <= d}

-----------------------------------------------------------------------------
(* withBackoff.                                                            *)

Goto(t, label) == at' = [at EXCEPT ![t] = label]

\* Mutant: a failure is never forgiven.
OnlyUnfailed == failures = 0

ShouldAttempt == wait = 0

nextDelay(n) == IF n = 0 THEN 0 ELSE IF 2 ^ (n - 1) > MaxDelay THEN MaxDelay ELSE 2 ^ (n - 1)

\* An alarm starts a tick, which loads the backoff state: attempt or skip.
Start(t) ==
    /\ at[t] = "idle"
    /\ ShouldAttempt
    /\ Goto(t, "load")
    /\ prior' = [prior EXCEPT ![t] = failures]
    /\ UNCHANGED <<outboxVars, backoffVars, batch, etag, cacheVars, serverVars, trimmed, deaths>>

\* The tick is over and has forgotten what it held.
Finish(t) ==
    /\ Goto(t, "idle")
    /\ prior' = [prior EXCEPT ![t] = 0]
    /\ UNCHANGED <<batch, etag>>

\* The task resolved: onSuccess is saved.
Succeed(t) == Finish(t) /\ failures' = 0 /\ wait' = 0

\* The task threw: onFailure of the state loaded at the start is saved.  The
\* delay counts from the start of the tick, so part of it may be over.  From
\* the delay's ceiling on, one more failure changes nothing.
Fail(t) ==
    LET n == IF nextDelay(prior[t]) = MaxDelay THEN prior[t] ELSE prior[t] + 1 IN
    /\ at[t] = "failed"
    /\ Finish(t)
    /\ failures' = n
    /\ wait' \in 0..nextDelay(n)
    /\ UNCHANGED <<outboxVars, cacheVars, serverVars, trimmed, deaths>>

\* The task's last write is done: its success is saved.
Resolved(t) ==
    /\ at[t] = "answered"
    /\ Succeed(t)
    /\ UNCHANGED <<outboxVars, cacheVars, serverVars, trimmed, deaths>>

TimePasses ==
    /\ wait > 0
    /\ wait' = wait - 1
    /\ UNCHANGED <<outboxVars, failures, tickVars, cacheVars, serverVars, trimmed, deaths>>

-----------------------------------------------------------------------------
(* ingestOnce and POST /api/ingest.                                        *)

Peek(t) ==
    /\ t \in Ingests /\ at[t] = "load"
    /\ Goto(t, "peek")
    /\ batch' = [batch EXCEPT ![t] = Oldest(Batch)]
    /\ UNCHANGED <<outboxVars, backoffVars, prior, etag, cacheVars, serverVars, trimmed, deaths>>

NothingQueued(t) ==
    /\ at[t] = "peek" /\ batch[t] = {}
    /\ Succeed(t)
    /\ UNCHANGED <<outboxVars, cacheVars, serverVars, trimmed, deaths>>

\* The route authenticates, validates the whole body and stores its events.
Store(t) ==
    /\ at[t] = "peek" /\ batch[t] # {} /\ batch[t] \cap Rejected = {}
    /\ Goto(t, "stored")
    /\ received' = received \cup batch[t]
    /\ UNCHANGED <<outboxVars, backoffVars, prior, batch, etag, cacheVars, version, trimmed, deaths>>

\* The POST is lost or the route refuses it as a whole, or its answer is lost
\* after the events were stored.
IngestFails(t) ==
    /\ \/ at[t] = "peek" /\ batch[t] # {}
       \/ at[t] = "stored"
    /\ Goto(t, "failed")
    /\ batch' = [batch EXCEPT ![t] = {}]
    /\ UNCHANGED <<outboxVars, backoffVars, prior, etag, cacheVars, serverVars, trimmed, deaths>>

\* A 2xx arrives: the batch is deleted.
DeleteBatch(t) ==
    /\ at[t] = "stored"
    /\ Goto(t, "answered")
    /\ outbox' = outbox \ Confirmed(t)
    /\ batch' = [batch EXCEPT ![t] = {}]
    /\ UNCHANGED <<lastSeq, trimAt, excess, backoffVars, prior, etag,
                   cacheVars, serverVars, trimmed, deaths>>

-----------------------------------------------------------------------------
(* policyOnce and GET /api/policy.                                         *)

ReadCache(t) ==
    /\ t \in Policies /\ at[t] = "load"
    /\ Goto(t, "cache")
    /\ etag' = [etag EXCEPT ![t] = cacheEtag]
    /\ UNCHANGED <<outboxVars, backoffVars, prior, batch, cacheVars, serverVars, trimmed, deaths>>

\* Mutant: any etag is current.
AnyEtag(t) == etag[t] # None

SameEtag(t) == etag[t] = version

\* The route reads the row and answers 304 or the policy; the cache the tick
\* had read is named by the etag, that is by `etag`.
Reply(t) ==
    /\ at[t] = "cache"
    /\ IF SameEtag(t) THEN Goto(t, "same") /\ UNCHANGED etag
       ELSE Goto(t, "fresh") /\ etag' = [etag EXCEPT ![t] = version]
    /\ UNCHANGED <<outboxVars, backoffVars, prior, batch, cacheVars, serverVars, trimmed, deaths>>

\* The GET or its answer is lost, which are the same: the route changes nothing.
PolicyFails(t) ==
    /\ at[t] = "cache"
    /\ Goto(t, "failed")
    /\ etag' = [etag EXCEPT ![t] = None]
    /\ UNCHANGED <<outboxVars, backoffVars, prior, batch, cacheVars, serverVars, trimmed, deaths>>

\* The cache is written, with the new policy or the one read before.
WriteCache(t) ==
    /\ at[t] \in {"fresh", "same"}
    /\ cacheEtag' = etag[t]
    /\ cachePolicy' = etag[t]
    /\ Goto(t, "answered")
    /\ etag' = [etag EXCEPT ![t] = None]
    /\ UNCHANGED <<outboxVars, backoffVars, prior, batch, serverVars, trimmed, deaths>>

\* The admin saves a policy, which bumps the version.
SavePolicy ==
    /\ version < MaxVersion
    /\ version' = version + 1
    /\ UNCHANGED <<outboxVars, backoffVars, tickVars, cacheVars, received, trimmed, deaths>>

-----------------------------------------------------------------------------
\* The browser ends the worker: trims and ticks in progress are gone.
WorkerDies ==
    /\ deaths < MaxDeaths
    /\ deaths' = deaths + 1
    /\ trimAt' = [e \in Events |-> "none"]
    /\ excess' = [e \in Events |-> 0]
    /\ at' = [t \in Ticks |-> "idle"]
    /\ prior' = [t \in Ticks |-> 0]
    /\ batch' = [t \in Ticks |-> {}]
    /\ etag' = [t \in Ticks |-> None]
    /\ UNCHANGED <<outbox, lastSeq, backoffVars, cacheVars, serverVars, trimmed>>

OutboxStep == Enqueue \/ \E e \in Events : TrimCount(e) \/ TrimDrop(e)

\* A step that the worker takes by itself.
TickGoesOn(t) ==
    \/ Peek(t) \/ NothingQueued(t) \/ Resolved(t)
    \/ ReadCache(t) \/ WriteCache(t) \/ Fail(t)

TickStep(t) ==
    \/ Start(t) \/ TickGoesOn(t)
    \/ Store(t) \/ IngestFails(t) \/ DeleteBatch(t)
    \/ Reply(t) \/ PolicyFails(t)

Next ==
    \/ OutboxStep
    \/ \E t \in Ticks : TickStep(t)
    \/ TimePasses \/ SavePolicy \/ WorkerDies

\* Alarms keep starting ticks, storage and time go on, and a collector that is
\* tried again and again answers in the end.
Fairness ==
    /\ WF_vars(TimePasses)
    /\ \A t \in Ticks : SF_vars(Start(t)) /\ WF_vars(TickGoesOn(t))
    /\ \A t \in Ingests :
        WF_vars(Store(t) \/ IngestFails(t)) /\ SF_vars(Store(t)) /\ SF_vars(DeleteBatch(t))
    /\ \A t \in Policies : SF_vars(Reply(t))

Spec == Init /\ [][Next]_vars
FairSpec == Spec /\ Fairness

-----------------------------------------------------------------------------
(* Properties.                                                             *)

\* Delivery is at least once: an event that was enqueued is in the outbox, or
\* with the collector, or was trimmed at the cap - whatever overlaps, dies or
\* is lost on the way.
NoEventLost == 1..lastSeq \subseteq outbox \cup received \cup trimmed

\* Once its trims have run the outbox is within its cap, unless a worker died
\* before a trim could run.
OutboxIsCapped ==
    (deaths = 0 /\ \A e \in Events : trimAt[e] = "none") => Cardinality(outbox) <= Cap

\* A trim drops old rows only: an event is never dropped while fewer than Cap
\* younger ones were enqueued.  It does not hold when trims overlap (README).
TrimSparesTheNewest == \A e \in trimmed : e + Cap <= lastSeq

\* Every queued event reaches the collector, unless it falls to the cap: ever
\* again there is nothing queued that has not been stored.
EveryEventShips == []<>(outbox \subseteq received)

\* Once the admin stops changing the policy (the saves are bounded here), the
\* cached policy becomes the collector's and stays it.
PolicyConverges == <>[](cachePolicy = version /\ cacheEtag = version)
=============================================================================
