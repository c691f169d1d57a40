--------------------------------- MODULE Audit ---------------------------------
(***************************************************************************)
(* The audit log of the extension: the IndexedDB store and its paged       *)
(* queries (background/audit-db.ts), the emitters (audit-log.ts), the      *)
(* one-time import of the legacy tail (audit-migrate.ts), the retention    *)
(* sweep (audit-retention.ts) and the history of one item                  *)
(* (item-history.ts).                                                      *)
(*                                                                         *)
(* Every operation first awaits openDb, which all of them share; a         *)
(* transaction takes effect in the step that issues it.  The clock that    *)
(* stamps the events is the computer's, and it may be set back.            *)
(***************************************************************************)
EXTENDS Naturals, Sequences, FiniteSets

CONSTANTS
    Keys,      \* ids of vault entries
    None,      \* an absent field
    Emitted,   \* bound: the kinds of event emitted
    Legacy,    \* the legacy tail: entries [kind, keyId, ts]
    Reads,     \* the reads made: [filter, order]
    Page,      \* the records on a page
    Retention, \* the age at which a record is deleted
    MaxSeq,    \* bound: records ever appended
    MaxTime,   \* bound: the clock
    MaxFaults  \* bound: failed and lost operations, worker deaths, clocks set back

ASSUME NoneAssumption == None \notin Keys
ASSUME LegacyAssumption == Legacy \in Seq([kind : STRING, keyId : Keys \cup {None}, ts : Nat])
ASSUME PageAssumption == Page \in Nat \ {0}
ASSUME ReadsAssumption ==
    \A r \in Reads : /\ r.order \in {"asc", "desc"}
                      /\ \A d \in {"keyId", "keyFingerprint", "origin", "kind"} : IsFiniteSet(r.filter[d])

VARIABLES
    \* memory
    conn,     \* pendingOpen: none, opening, open
    waiting,  \* the appends that wait for the database, in their order
    phase,    \* where replayOnce is
    entry,    \* the index of the entry it is at
    \* the browser
    log,      \* the records of the store
    seq,      \* the last key of the store
    flag,     \* "moltypass.audit.migratedV1"
    tail,     \* "moltypass.audit.tail" is still there
    sweeping, \* the retention alarm exists
    now,
    \* one reader: iterate, or the pages of an item's history
    walk,
    \* history
    failed,   \* the entries of the tail whose append was rejected
    imported, \* the entries appended
    again,    \* the entries appended more than once
    ordered,  \* the records were appended in the order of their times
    deaths,   \* how often the worker died
    faults

dbVars == <<conn, waiting>>
migrationVars == <<phase, entry, flag, tail, failed>>
logVars == <<log, seq, imported, again, ordered>>
bounds == <<deaths, faults>>
vars == <<dbVars, migrationVars, logVars, sweeping, now, walk, bounds>>

MutationKinds == {"item.created", "item.renamed", "item.notes_updated",
    "item.file_attached", "item.file_removed", "item.deleted", "rotate.complete", "revoke"}
VALID_KINDS == {"proxy.ok", "proxy.error", "grant", "revoke", "reveal", "capture",
    "rotate.complete", "leak.suspected", "leak.dismissed"}

Entries == DOMAIN Legacy

-----------------------------------------------------------------------------
(* Events and filters.                                                     *)

\* The helpers whose event may lack a key, and those whose event has an origin.
Keyless == {"proxy.ok", "proxy.error", "revoke", "rotate.complete"}
WithOrigin == {"proxy.ok", "proxy.error", "grant", "reveal"}

\* An event; "from" is the entry of the tail it was made from, or 0.
Event(kind, id, ts, from) ==
    [kind |-> kind, keyId |-> id, keyFingerprint |-> id, ts |-> ts, from |-> from,
     origin |-> IF kind \in WithOrigin THEN "site" ELSE None]

Rank == <<"keyId", "keyFingerprint", "origin", "kind">>

\* A filter gives each field a set of values, none of them when it is absent.
\* The first field with one value decides the index.
Single(f) == {i \in DOMAIN Rank : Cardinality(f[Rank[i]]) = 1}

pickIndex(f) == {Rank[i] : i \in {j \in Single(f) : \A k \in Single(f) : j <= k}}

buildKeyRange(f) == {r \in log : r.ts >= f.since /\ \A d \in pickIndex(f) : r[d] \in f[d]}

matchesPostFilter(r, f) ==
    \A i \in DOMAIN Rank : Cardinality(f[Rank[i]]) > 1 => r[Rank[i]] \in f[Rank[i]]

\* Without an index the cursor runs over the store, in the order of the keys.
Earlier(r, q, f) ==
    IF pickIndex(f) = {} /\ f.since = 0 THEN r.seq < q.seq
    ELSE r.ts < q.ts \/ (r.ts = q.ts /\ r.seq < q.seq)

Before(r, q) == IF walk.read.order = "asc" THEN Earlier(r, q, walk.read.filter) ELSE Earlier(q, r, walk.read.filter)

\* Mutant: the record the cursor names is read again.
PastOrAt(r) ==
    \/ walk.cursor = 0
    \/ IF walk.read.order = "asc" THEN r.seq >= walk.cursor ELSE r.seq <= walk.cursor

Past(r) ==
    \/ walk.cursor = 0
    \/ IF walk.read.order = "asc" THEN r.seq > walk.cursor ELSE r.seq < walk.cursor

\* What one query call finds, and what of it is on its page.
Found == {r \in buildKeyRange(walk.read.filter) : Past(r) /\ matchesPostFilter(r, walk.read.filter)}
OnPage == {r \in Found : Cardinality({q \in Found : Before(q, r)}) < Page}

itemHistory(k) ==
    [keyId |-> {k}, keyFingerprint |-> {}, origin |-> {}, kind |-> MutationKinds, since |-> 0]

-----------------------------------------------------------------------------
Walks == [state : {"idle", "reading", "done"}, read : Reads, cursor : 0..MaxSeq,
          got : SUBSET (1..MaxSeq), twice : BOOLEAN, start : SUBSET (1..MaxSeq)]

NoWalk == [state |-> "idle", read |-> CHOOSE r \in Reads : TRUE,
           cursor |-> 0, got |-> {}, twice |-> FALSE, start |-> {}]

IsEvent(e) ==
    /\ DOMAIN e = {"kind", "keyId", "keyFingerprint", "ts", "from", "origin"}
    /\ e.keyId \in Keys \cup {None} /\ e.from \in Entries \cup {0} /\ e.ts \in 0..MaxTime

TypeOK ==
    /\ conn \in {"none", "opening", "open"}
    /\ \A i \in DOMAIN waiting : IsEvent(waiting[i])
    /\ conn = "opening" \/ waiting = <<>>
    /\ phase \in {"off", "load", "append", "appending", "flagged", "done"}
    /\ entry \in 1..(Len(Legacy) + 1)
    /\ \A r \in log : r.seq \in 1..seq /\ \A q \in log : q.seq = r.seq => q = r
    /\ seq \in 0..MaxSeq /\ now \in 1..MaxTime
    /\ flag \in BOOLEAN /\ tail \in BOOLEAN /\ sweeping \in BOOLEAN
    /\ walk \in Walks
    /\ failed \subseteq Entries
    /\ imported \subseteq Entries /\ again \subseteq Entries
    /\ faults \in 0..MaxFaults /\ deaths \in 0..faults

Init ==
    /\ conn = "none" /\ waiting = <<>>
    /\ phase = "off" /\ entry = 1
    /\ log = {} /\ seq = 0
    /\ flag = FALSE /\ tail = TRUE
    /\ sweeping = FALSE /\ now = 1
    /\ walk = NoWalk
    /\ failed = {} /\ imported = {} /\ again = {}
    /\ ordered = TRUE /\ faults = 0 /\ deaths = 0

Fault == faults < MaxFaults /\ faults' = faults + 1 /\ UNCHANGED deaths

-----------------------------------------------------------------------------
(* audit-db.ts: appendEvent.                                               *)

\* The records added when these events are appended in turn.
Added(events) ==
    {[kind |-> events[i].kind, keyId |-> events[i].keyId, origin |-> events[i].origin,
      keyFingerprint |-> events[i].keyFingerprint, ts |-> events[i].ts,
      from |-> events[i].from, seq |-> seq + i] : i \in DOMAIN events}

AppendAll(events) ==
    /\ seq + Len(events) <= MaxSeq
    /\ log' = log \cup Added(events)
    /\ seq' = seq + Len(events)
    /\ LET new == {events[i].from : i \in DOMAIN events} \ {0}
       IN imported' = imported \cup new /\ again' = again \cup (imported \cap new)
    /\ ordered' = (ordered /\ \A r \in Added(events), q \in log \cup Added(events) :
                                  q.seq < r.seq => q.ts <= r.ts)

\* The append waits for the database, or is carried out, or fails.
Waits(e) ==
    /\ conn # "open"
    /\ conn' = "opening" /\ waiting' = Append(waiting, e)
    /\ UNCHANGED <<logVars, bounds>>

Succeeds(e) == conn = "open" /\ AppendAll(<<e>>) /\ UNCHANGED <<dbVars, bounds>>

Fails == conn = "open" /\ Fault /\ UNCHANGED <<dbVars, logVars>>

\* One of the helpers of audit-log.ts; a failure is swallowed.
Emit(kind, id) ==
    /\ kind \in Keyless \/ id # None
    /\ Len(waiting) + seq < MaxSeq
    /\ LET e == Event(kind, id, now, 0) IN Waits(e) \/ Succeeds(e) \/ Fails
    /\ UNCHANGED <<migrationVars, sweeping, now, walk>>

\* Any operation opens the database first.
Open ==
    /\ conn = "none"
    /\ conn' = "opening"
    /\ UNCHANGED <<waiting, migrationVars, logVars, sweeping, now, walk, bounds>>

\* The entries of the tail whose append is among those that wait.
Importing == {waiting[i].from : i \in DOMAIN waiting} \ {0}

Resume == IF Importing = {} THEN UNCHANGED <<phase, entry>>
          ELSE phase' = "append" /\ entry' = entry + 1

\* The appends that waited are carried out in their order ...
Opened ==
    /\ conn = "opening"
    /\ conn' = "open" /\ waiting' = <<>>
    /\ AppendAll(waiting)
    /\ Resume
    /\ UNCHANGED <<flag, tail, failed, sweeping, now, walk, bounds>>

\* ... or are rejected with the open request.
OpenFails ==
    /\ conn = "opening"
    /\ conn' = "none" /\ waiting' = <<>>
    /\ failed' = failed \cup Importing
    /\ Resume /\ Fault
    /\ UNCHANGED <<flag, tail, logVars, sweeping, now, walk>>

\* onclose, onversionchange.
Closed ==
    /\ conn = "open" /\ Fault
    /\ conn' = "none"
    /\ UNCHANGED <<waiting, migrationVars, logVars, sweeping, now, walk>>

-----------------------------------------------------------------------------
(* audit-migrate.ts: replayOnce, at the start of the worker.               *)

Boot ==
    /\ phase = "off"
    /\ phase' = IF flag THEN "done" ELSE "load"
    /\ sweeping' = TRUE
    /\ UNCHANGED <<entry, flag, tail, failed, dbVars, logVars, now, walk, bounds>>

LoadTail ==
    /\ phase = "load"
    /\ phase' = "append"
    /\ entry' = IF tail THEN 1 ELSE Len(Legacy) + 1
    /\ UNCHANGED <<flag, tail, failed, dbVars, logVars, sweeping, now, walk, bounds>>

\* mapEntry knows the kinds of the first release only.
mapEntry(i) == IF Legacy[i].kind \in VALID_KINDS
               THEN {Event(Legacy[i].kind, Legacy[i].keyId, Legacy[i].ts, i)} ELSE {}

Skip ==
    /\ phase = "append" /\ entry \in Entries
    /\ mapEntry(entry) = {}
    /\ entry' = entry + 1
    /\ UNCHANGED <<phase, flag, tail, failed, dbVars, logVars, sweeping, now, walk, bounds>>

Import ==
    /\ phase = "append" /\ entry \in Entries
    /\ \E e \in mapEntry(entry) :
           \/ Waits(e) /\ phase' = "appending" /\ UNCHANGED <<entry, failed>>
           \/ Succeeds(e) /\ entry' = entry + 1 /\ UNCHANGED <<phase, failed>>
           \/ Fails /\ entry' = entry + 1 /\ failed' = failed \cup {entry} /\ UNCHANGED phase
    /\ UNCHANGED <<flag, tail, sweeping, now, walk>>

\* Mutant: the flag is set as soon as the tail is loaded.
NotAwaited == phase = "append"

AllReplayed == phase = "append" /\ entry > Len(Legacy)

SetFlag ==
    /\ AllReplayed
    /\ phase' = "flagged"
    /\ flag' = TRUE
    /\ UNCHANGED <<entry, tail, failed, dbVars, logVars, sweeping, now, walk, bounds>>

\* A failed removal is ignored.
RemoveTail ==
    /\ phase = "flagged"
    /\ phase' = "done"
    /\ tail' \in {FALSE, tail}
    /\ UNCHANGED <<entry, flag, failed, dbVars, logVars, sweeping, now, walk, bounds>>

-----------------------------------------------------------------------------
(* audit-retention.ts and the readers.                                     *)

sweep ==
    /\ sweeping /\ conn = "open"
    /\ log' = {r \in log : r.ts + Retention >= now}
    /\ UNCHANGED <<seq, imported, again, ordered, dbVars, migrationVars, sweeping, now, walk, bounds>>

\* What a filter asks for.
Wanted(f) == {r \in log : r.ts >= f.since
                          /\ \A d \in {"keyId", "keyFingerprint", "origin", "kind"} :
                                 f[d] = {} \/ r[d] \in f[d]}

StartWalk(r) ==
    /\ walk.state = "idle"
    /\ walk' = [NoWalk EXCEPT !.state = "reading", !.read = r,
                              !.start = {q.seq : q \in Wanted(r.filter)}]
    /\ UNCHANGED <<dbVars, migrationVars, logVars, sweeping, now, bounds>>

\* One page; a full one has a cursor, the key of its last record.
ReadPage ==
    /\ walk.state = "reading" /\ conn = "open"
    /\ LET last == {r \in OnPage : \A q \in OnPage : q = r \/ Before(q, r)}
           keys == {r.seq : r \in OnPage}
       IN walk' = [walk EXCEPT
              !.got = @ \cup keys,
              !.twice = @ \/ walk.got \cap keys # {},
              !.state = IF Cardinality(OnPage) = Page THEN "reading" ELSE "done",
              !.cursor = IF Cardinality(OnPage) = Page
                         THEN CHOOSE s \in keys : \E r \in last : r.seq = s ELSE @]
    /\ UNCHANGED <<dbVars, migrationVars, logVars, sweeping, now, bounds>>

-----------------------------------------------------------------------------
(* The computer.                                                           *)

Tick ==
    /\ now < MaxTime
    /\ now' = now + 1
    /\ UNCHANGED <<dbVars, migrationVars, logVars, sweeping, walk, bounds>>

SetBack ==
    /\ now > 1 /\ Fault
    /\ now' = now - 1
    /\ UNCHANGED <<dbVars, migrationVars, logVars, sweeping, walk>>

\* The worker ends: what waits and the replay are gone, and it boots anew.
WorkerDies ==
    /\ faults < MaxFaults
    /\ faults' = faults + 1 /\ deaths' = deaths + 1
    /\ conn' = "none" /\ waiting' = <<>>
    /\ phase' = "off" /\ entry' = 1
    /\ walk' = NoWalk
    /\ UNCHANGED <<flag, tail, failed, logVars, sweeping, now>>

Replay == LoadTail \/ Skip \/ Import \/ SetFlag \/ RemoveTail

Next ==
    \/ \E kind \in Emitted, id \in Keys \cup {None} : Emit(kind, id)
    \/ Open \/ Opened \/ OpenFails \/ Closed
    \/ Boot \/ Replay
    \/ sweep
    \/ \E r \in Reads : StartWalk(r)
    \/ ReadPage
    \/ Tick \/ SetBack \/ WorkerDies

Spec == Init /\ [][Next]_vars

-----------------------------------------------------------------------------
(* Properties.                                                             *)

NoLegacyLost ==
    /\ ~tail => flag
    /\ flag => \A i \in Entries : mapEntry(i) # {} => i \in imported \cup failed

ImportedTwiceOnlyAfterDeath == again # {} => deaths > 0

\* Once the migration is marked as done, no later boot looks at the tail: by then
\* every entry that mapEntry accepts was appended or had its append rejected, and
\* the tail is removed only after that, whatever ends the replay on the way.  An
\* entry is imported again only if the worker died during the replay.
MigrationIsSafe == NoLegacyLost /\ ImportedTwiceOnlyAfterDeath

\* A read that went through all its pages got every record that matched when it
\* started and is still there, and none of them twice, if the log was written in
\* the order of its times; and it got nothing else, unless a second field of the
\* filter names a single value, which the query ignores.
WalkReadsWhatMatches ==
    walk.state = "done" =>
        /\ ordered => ~walk.twice /\ \A r \in log : r.seq \in walk.start => r.seq \in walk.got
        /\ Cardinality(Single(walk.read.filter)) <= 1 =>
               \A r \in log : r.seq \in walk.got => r \in Wanted(walk.read.filter)
=============================================================================
