---------------------------------- MODULE Leak ---------------------------------
(***************************************************************************)
(* Leak detection in the background worker: the rolling baseline of each   *)
(* key's calls (background/baseline.ts), the findings and their dismissal  *)
(* (leak-findings.ts), the two signals that raise them                     *)
(* (leak-detection.ts) and the registered detection key                    *)
(* (detection-keys.ts).                                                    *)
(*                                                                         *)
(* Every change is a load of a whole stored value and a later save of it,  *)
(* a chrome.storage call takes effect in the step that issues it, and the  *)
(* proxied calls, the poll of the provider and the user interleave.        *)
(***************************************************************************)
EXTENDS Naturals, FiniteSets

CONSTANTS
    Calls,      \* proxied calls whose bookkeeping may be in progress at once
    Prints,     \* fingerprints of keys
    Admins,     \* vault entries that may be the detection key of the provider
    None,
    Deltas,     \* the differences a poll reports: [upstream, local]
    HourMs, DayMs, Window, HourlyCap, DailyCap,
    Warmup, Multiplier, Floor, CriticalFactor,
    MaxTime,    \* bound: the clock
    MaxCalls,   \* bound: proxied calls
    MaxPolls,   \* bound: polls
    MaxEdits    \* bound: dismissals and changes of the detection key

ASSUME UnitsAssumption == HourMs \in Nat \ {0} /\ DayMs \in Nat \ {0} /\ DayMs >= HourMs
ASSUME DeltasAssumption == \A d \in Deltas : d.upstream \in Nat /\ d.local \in Nat
ASSUME TimeAssumption == MaxTime \in Nat \ {0}

VARIABLES
    now,
    \* chrome.storage.local
    baseline,   \* the baseline of each fingerprint
    findings,   \* the row of each signal and fingerprint
    detection,  \* the detection key of the provider, and whose cursor is kept with it
    \* the operations in progress
    job,        \* of the calls, the poll and the user
    \* history
    stale,      \* those whose loaded findings have been overwritten since
    made,       \* the calls of each fingerprint in each hour
    calls, polls, edits

history == <<stale, made>>
bounds == <<calls, polls, edits>>
vars == <<now, baseline, findings, detection, job, history, bounds>>

Procs == Calls \cup {"poll", "user"}
Signals == {"A", "B"}
Rows == Signals \X Prints

Floored(t, unit) == (t \div unit) * unit
Hours == {Floored(t, HourMs) : t \in 0..MaxTime}
Days == {Floored(t, DayMs) : t \in 0..MaxTime}

Severities == {"warn", "critical"}
Row == [observed : Nat, expected : Nat, severity : Severities,
        status : {"open", "dismissed"}, mark : Nat]

Idle == [at |-> "idle", print |-> None, ts |-> 0, base |-> None, loaded |-> None, input |-> None]

IsBaseline(b) ==
    b # None => /\ b.first \in 1..MaxTime
                /\ DOMAIN b.hourly \subseteq Hours /\ DOMAIN b.daily \subseteq Days
                /\ \A s \in DOMAIN b.hourly : b.hourly[s] \in 1..MaxCalls

TypeOK ==
    /\ now \in 1..MaxTime
    /\ DOMAIN baseline = Prints /\ \A f \in Prints : IsBaseline(baseline[f])
    /\ \A r \in Rows : findings[r] = None \/ findings[r] \in Row
    /\ detection = None \/ detection \in [key : Admins, cursor : Admins \cup {None}]
    /\ \A p \in Procs : job[p].at \in {"idle", "recording", "reloading", "recorded", "checking",
                                       "polling", "raising", "saving", "dismissing", "polled",
                                       "setting", "clearing"}
    /\ stale \subseteq Procs
    /\ calls \in 0..MaxCalls /\ polls \in 0..MaxPolls /\ edits \in 0..MaxEdits

Init ==
    /\ now = 1
    /\ baseline = [f \in Prints |-> None]
    /\ findings = [r \in Rows |-> None]
    /\ detection = None
    /\ job = [p \in Procs |-> Idle]
    /\ stale = {}
    /\ made = [f \in Prints |-> [h \in Hours |-> 0]]
    /\ calls = 0 /\ polls = 0 /\ edits = 0

At(p, label) == job[p].at = label
Goto(p, label) == job' = [job EXCEPT ![p].at = label]
Done(p) == job' = [job EXCEPT ![p] = Idle]

-----------------------------------------------------------------------------
(* baseline.ts: buckets are functions from the start of a window.          *)

Kept(buckets, S) == [s \in S |-> buckets[s]]

pruneOld(buckets, ts) == Kept(buckets, {s \in DOMAIN buckets : s + Window >= ts})

bumpBucket(buckets, unit, ts) ==
    LET start == Floored(ts, unit)
    IN [s \in DOMAIN buckets \cup {start} |->
           IF s \notin DOMAIN buckets THEN 1 ELSE IF s = start THEN buckets[s] + 1 ELSE buckets[s]]

Capped(buckets, cap) ==
    Kept(buckets, {s \in DOMAIN buckets : Cardinality({t \in DOMAIN buckets : t > s}) < cap})

\* Mutant: the hour of a call is not looked at.
NoHours(prev, ts) ==
    LET b == IF prev # None THEN prev ELSE [hourly |-> <<>>, daily |-> <<>>, first |-> ts]
    IN [hourly |-> [s \in {Floored(ts, HourMs)} |-> 1 + Cardinality(DOMAIN b.hourly)],
        daily |-> bumpBucket(b.daily, DayMs, ts), first |-> b.first]

pureRecord(prev, ts) ==
    LET b == IF prev # None THEN prev ELSE [hourly |-> <<>>, daily |-> <<>>, first |-> ts]
    IN [hourly |-> Capped(bumpBucket(pruneOld(b.hourly, ts), HourMs, ts), HourlyCap),
        daily |-> Capped(bumpBucket(pruneOld(b.daily, ts), DayMs, ts), DailyCap),
        first |-> b.first]

recentHour(b, ts) ==
    IF Floored(ts, HourMs) \in DOMAIN b.hourly THEN b.hourly[Floored(ts, HourMs)] ELSE 0

\* The calls of the earlier days, summed, and the hours of these days.
priorDays(b, ts) == {s \in DOMAIN b.daily : s < Floored(ts, DayMs)}
priorCalls(b, ts) ==
    Cardinality(UNION {{s} \X (1..b.daily[s]) : s \in priorDays(b, ts)})
priorHours(b, ts) == Cardinality(priorDays(b, ts)) * (DayMs \div HourMs)

\* recentHour > factor * baselineRate, without the division.
Exceeds(b, ts, factor) ==
    IF priorDays(b, ts) = {} THEN recentHour(b, ts) > 0
    ELSE recentHour(b, ts) * priorHours(b, ts) > factor * priorCalls(b, ts)

pureCheckAnomaly(b, ts) ==
    /\ b # None
    /\ ts >= b.first + Warmup
    /\ recentHour(b, ts) >= Floor
    /\ Exceeds(b, ts, Multiplier)

\* A baseline of no calls is never critical; the boundary itself is.
severityForSignalB(b, ts) ==
    IF priorCalls(b, ts) > 0
       /\ recentHour(b, ts) * priorHours(b, ts) >= CriticalFactor * priorCalls(b, ts)
    THEN "critical" ELSE "warn"

\* Math.round of the rate.
Rounded(b, ts) == IF priorDays(b, ts) = {} THEN 0
                  ELSE (2 * priorCalls(b, ts) + priorHours(b, ts)) \div (2 * priorHours(b, ts))

-----------------------------------------------------------------------------
(* leak-detection.ts, onProxyOk: record the call, check, raise.            *)

ProxyOk(c, f) ==
    /\ At(c, "idle") /\ calls < MaxCalls
    /\ job' = [job EXCEPT ![c] = [Idle EXCEPT !.at = "recording", !.print = f, !.ts = now,
                                              !.base = baseline[f]]]
    /\ made' = [made EXCEPT ![f][Floored(now, HourMs)] = @ + 1]
    /\ calls' = calls + 1
    /\ UNCHANGED <<now, baseline, findings, detection, stale, polls, edits>>

\* save loads the map of all fingerprints again ...
Reload(c) ==
    /\ At(c, "recording")
    /\ job' = [job EXCEPT ![c].at = "reloading", ![c].loaded = baseline,
                          ![c].base = pureRecord(@, job[c].ts)]
    /\ UNCHANGED <<now, baseline, findings, detection, history, bounds>>

\* ... and sets it with the new baseline.
SaveBaseline(c) ==
    /\ At(c, "reloading")
    /\ baseline' = [job[c].loaded EXCEPT ![job[c].print] = job[c].base]
    /\ job' = [job EXCEPT ![c].at = "recorded", ![c].loaded = None, ![c].base = None]
    /\ UNCHANGED <<now, findings, detection, history, bounds>>

CheckLoad(c) ==
    /\ At(c, "recorded")
    /\ job' = [job EXCEPT ![c].at = "checking", ![c].base = baseline[job[c].print]]
    /\ UNCHANGED <<now, baseline, findings, detection, history, bounds>>

\* An anomaly is raised, and raise starts with a load of the findings.
Raising(p, signal, f, sev, expected, observed) ==
    /\ job' = [job EXCEPT ![p] = [Idle EXCEPT !.at = "saving", !.loaded = findings,
           !.input = [row |-> <<signal, f>>, severity |-> sev, expected |-> expected,
                      observed |-> observed]]]
    /\ stale' = stale \ {p}

Check(c) ==
    /\ At(c, "checking")
    /\ LET b == job[c].base  ts == job[c].ts IN
           IF pureCheckAnomaly(b, ts)
           THEN Raising(c, "B", job[c].print, severityForSignalB(b, ts), Rounded(b, ts),
                        recentHour(b, ts))
           ELSE Done(c) /\ UNCHANGED stale
    /\ UNCHANGED <<now, baseline, findings, detection, made, bounds>>

-----------------------------------------------------------------------------
(* onProviderPollResult and the poll loop around it.                       *)

Larger(a, b) == IF a >= b THEN a ELSE b

\* Five times the tolerance: max(5, 20% of max(local, 1)).
Tolerance(d) == Larger(25, Larger(d.local, 1))

shouldRaiseSignalA(d) == 5 * d.upstream > 5 * d.local + Tolerance(d)

severityForSignalA(d) ==
    IF d.upstream > d.local + Tolerance(d) THEN "critical" ELSE "warn"

\* The loop asks the provider with the registered key.
StartPoll ==
    /\ At("poll", "idle") /\ detection # None /\ polls < MaxPolls
    /\ job' = [job EXCEPT !["poll"] = [Idle EXCEPT !.at = "polling", !.base = detection.key]]
    /\ polls' = polls + 1
    /\ UNCHANGED <<now, baseline, findings, detection, history, calls, edits>>

\* One row of the answer; the rows that need no finding are passed over.
PollRow(f, d) ==
    /\ At("poll", "polling")
    /\ shouldRaiseSignalA(d)
    /\ job' = [job EXCEPT !["poll"].at = "raising", !["poll"].loaded = findings,
           !["poll"].input = [row |-> <<"A", f>>, severity |-> severityForSignalA(d),
                              expected |-> d.local, observed |-> d.upstream]]
    /\ stale' = stale \ {"poll"}
    /\ UNCHANGED <<now, baseline, findings, detection, made, bounds>>

\* recordPoll loads the registration ...
RecordPoll ==
    /\ At("poll", "polling")
    /\ job' = [job EXCEPT !["poll"].at = "polled", !["poll"].loaded = detection]
    /\ UNCHANGED <<now, baseline, findings, detection, history, bounds>>

\* ... and saves it with the new cursor, unless there is none.
RecordPollSave ==
    /\ At("poll", "polled")
    /\ detection' = IF job["poll"].loaded = None THEN detection
                    ELSE [job["poll"].loaded EXCEPT !.cursor = job["poll"].base]
    /\ Done("poll")
    /\ UNCHANGED <<now, baseline, findings, history, bounds>>

-----------------------------------------------------------------------------
(* leak-findings.ts.                                                       *)

mergeSeverity(a, b) == IF a = "critical" THEN a ELSE b

Updated(row, in) ==
    [observed |-> in.observed, expected |-> in.expected, status |-> "open", mark |-> 0,
     severity |-> IF row = None THEN in.severity ELSE mergeSeverity(row.severity, in.severity)]

\* Mutant: a dismissed row is raised again by whatever is observed.
AlwaysLoud(row, in) == FALSE

suppressed(row, in) == row # None /\ row.status = "dismissed" /\ in.observed <= row.mark

\* A save of the findings makes every other loaded list stale.
SaveFindings(p, list) ==
    /\ findings' = list
    /\ stale' = {q \in Procs \ {p} : job[q].at \in {"saving", "raising", "dismissing"}}

raise(p) ==
    LET in == job[p].input  row == job[p].loaded[in.row]
    IN IF suppressed(row, in) THEN UNCHANGED <<findings, stale>>
       ELSE SaveFindings(p, [job[p].loaded EXCEPT ![in.row] = Updated(row, in)])

RaiseSave(c) ==
    /\ At(c, "saving")
    /\ raise(c)
    /\ Done(c)
    /\ UNCHANGED <<now, baseline, detection, made, bounds>>

\* The poll goes on with its next row.
PollRaiseSave ==
    /\ At("poll", "raising")
    /\ raise("poll")
    /\ job' = [job EXCEPT !["poll"].at = "polling", !["poll"].loaded = None, !["poll"].input = None]
    /\ UNCHANGED <<now, baseline, detection, made, bounds>>

dismiss(r) ==
    /\ At("user", "idle") /\ edits < MaxEdits
    /\ findings[r] # None
    /\ job' = [job EXCEPT !["user"] = [Idle EXCEPT !.at = "dismissing", !.input = r,
                                                   !.loaded = findings]]
    /\ stale' = stale \ {"user"}
    /\ edits' = edits + 1
    /\ UNCHANGED <<now, baseline, findings, detection, made, calls, polls>>

DismissSave ==
    /\ At("user", "dismissing")
    /\ LET r == job["user"].input
           row == job["user"].loaded[r]
       IN SaveFindings("user", [job["user"].loaded EXCEPT
              ![r] = [row EXCEPT !.status = "dismissed", !.mark = row.observed]])
    /\ Done("user")
    /\ UNCHANGED <<now, baseline, detection, made, bounds>>

\* clear: the whole list is removed.
ClearFindings ==
    /\ At("user", "idle") /\ edits < MaxEdits
    /\ SaveFindings("user", [r \in Rows |-> None])
    /\ edits' = edits + 1
    /\ UNCHANGED <<now, baseline, detection, job, made, calls, polls>>

-----------------------------------------------------------------------------
(* detection-keys.ts: set and clear.                                       *)

set(k) ==
    /\ At("user", "idle") /\ edits < MaxEdits
    /\ job' = [job EXCEPT !["user"] = [Idle EXCEPT !.at = "setting", !.input = k]]
    /\ edits' = edits + 1
    /\ UNCHANGED <<now, baseline, findings, detection, history, calls, polls>>

NewMeta(k) == [key |-> k, cursor |-> None]

SetSave ==
    /\ At("user", "setting")
    /\ detection' = NewMeta(job["user"].input)
    /\ Done("user")
    /\ UNCHANGED <<now, baseline, findings, stale, made, bounds>>

clear ==
    /\ At("user", "idle") /\ edits < MaxEdits /\ detection # None
    /\ Goto("user", "clearing")
    /\ edits' = edits + 1
    /\ UNCHANGED <<now, baseline, findings, detection, history, calls, polls>>

ClearSave ==
    /\ At("user", "clearing")
    /\ detection' = None
    /\ Done("user")
    /\ UNCHANGED <<now, baseline, findings, history, bounds>>

Tick ==
    /\ now < MaxTime
    /\ now' = now + 1
    /\ UNCHANGED <<baseline, findings, detection, job, history, bounds>>

CallStep(c) == Reload(c) \/ SaveBaseline(c) \/ CheckLoad(c) \/ Check(c) \/ RaiseSave(c)

Next ==
    \/ \E c \in Calls : CallStep(c) \/ \E f \in Prints : ProxyOk(c, f)
    \/ StartPoll \/ RecordPoll \/ RecordPollSave \/ PollRaiseSave
    \/ \E f \in Prints, d \in Deltas : PollRow(f, d)
    \/ \E r \in Rows : dismiss(r)
    \/ DismissSave \/ ClearFindings
    \/ \E k \in Admins : set(k)
    \/ SetSave \/ clear \/ ClearSave
    \/ Tick

Spec == Init /\ [][Next]_vars

-----------------------------------------------------------------------------
(* Properties.                                                             *)

\* Nothing is raised for nothing: a volume finding names a number of calls that
\* this key really made within one hour, at least the floor, whatever counts the
\* overlapping saves lost; a poll finding exceeds the tolerance.
FindingsAreEarned ==
    \A r \in Rows : findings[r] # None =>
        IF r[1] = "B"
        THEN /\ findings[r].observed >= Floor
             /\ \E h \in Hours : made[r[2]][h] >= findings[r].observed
        ELSE shouldRaiseSignalA([upstream |-> findings[r].observed, local |-> findings[r].expected])

\* A dismissed finding is open again only when more was observed than when it was
\* dismissed, or when the save comes from a list loaded before the dismissal.
DismissalHolds ==
    [][\A r \in Rows :
           (findings[r] # None /\ findings[r].status = "dismissed"
            /\ findings'[r] # None /\ findings'[r].status = "open") =>
               \/ findings'[r].observed > findings[r].mark
               \/ \E p \in stale : job[p] # job'[p]]_vars
=============================================================================
