------------------------------- MODULE Watchtower ------------------------------
(***************************************************************************)
(* Watchtower (src/watchtower): five checks over a snapshot of the vault,  *)
(* the grants, the audit log and the dotfiles, run again and again while   *)
(* keys age, are used, duplicated, rotated and left on the disk.           *)
(*                                                                         *)
(* A finding is [id, severity]; messages are left out, and the report is a *)
(* set, since its order is a matter of display.                            *)
(***************************************************************************)
EXTENDS Naturals, FiniteSets

CONSTANTS
    KeyIds,      \* ids of vault entries
    Secrets,     \* plaintexts
    Grants,      \* grant ids
    Paths,       \* files that are scanned
    Absent,
    Day,         \* the ticks of a day
    Rotation,    \* thresholds, in days
    Unused,
    Zombie,
    Slice,       \* the ticks the audit slice goes back
    MaxNow,      \* bound: the clock
    MaxDismissed \* bound: the ids dismissed

\* The caller's slice goes back as far as the unused threshold looks.
ASSUME SliceAssumption ==
    Unused \in Nat /\ Day \in Nat \ {0} /\ Slice \in Nat /\ Slice >= Unused * Day
ASSUME ThresholdsAssumption == Rotation \in Nat /\ Zombie \in Nat

VARIABLES
    entries,    \* the entry of each key: [createdAt, secret]
    grants,     \* the grant of each id: [keyId, grantedAt]
    uses,       \* the proxy.ok events: [keyId, grantId, ts]
    files,      \* each file: [values, readable]
    dismissed,  \* the ids the user dismissed
    today

watchVars == <<entries, grants, uses, files, dismissed, today>>

Present(f) == {x \in DOMAIN f : f[x] # Absent}

severityRank(s) == CASE s = "low" -> 1 [] s = "medium" -> 2 [] s = "high" -> 3

Finding(id, severity) == [id |-> id, severity |-> severity]

\* t is at least so many days ago, and the full days since then.
Past(t, days) == t + days * Day <= today
DaysSince(t) == (today - t) \div Day

-----------------------------------------------------------------------------
(* The checks.                                                             *)

staleRotation ==
    {Finding(<<"stale.rotation", k>>,
             LET age == DaysSince(entries[k].createdAt) IN
             IF age > 2 * Rotation THEN "high" ELSE IF 2 * age > 3 * Rotation THEN "medium" ELSE "low") :
        k \in {j \in Present(entries) : Past(entries[j].createdAt, Rotation)}}

audit == {u \in uses : u.ts + Slice >= today}

\* Mutant: of the events of a key the one listed last counts, the oldest.
OldestOf(events) == {u.ts : u \in {v \in events : \A w \in events : v.ts <= w.ts}}

LastOf(events) == {u.ts : u \in {v \in events : \A w \in events : w.ts <= v.ts}}

\* Old enough to be unused, and never used or not for as long.
staleUnused ==
    LET last(k) == LastOf({u \in audit : u.keyId = k})
        idle == {k \in Present(entries) : /\ Past(entries[k].createdAt, Unused)
                                          /\ \A t \in last(k) : Past(t, Unused)}
    IN {Finding(<<"stale.unused", k>>, IF last(k) = {} THEN "medium" ELSE "low") : k \in idle}

\* Mutant: the longer a grant is idle the milder.
Milder(idle) == IF idle > 2 * Zombie THEN "low" ELSE "medium"

ZombieSeverity(idle) == IF idle > 2 * Zombie THEN "medium" ELSE "low"

\* A grant never used counts from when it was given.
grantZombie ==
    LET last(g) == LET used == LastOf({u \in audit : u.grantId = g})
                   IN IF used = {} THEN {grants[g].grantedAt} ELSE used
    IN UNION {{Finding(<<"grant.zombie", g>>, ZombieSeverity(DaysSince(t))) :
                  t \in {s \in last(g) : Past(grants[g].grantedAt, Zombie) /\ Past(s, Zombie)}} :
              g \in Present(grants)}

\* Files too large or unreadable are passed over.
extractCandidateValues(p) == IF files[p].readable THEN files[p].values ELSE {}

\* The callback names one key for a value.
matchAgainstVault(v) ==
    LET held == {k \in Present(entries) : entries[k].secret = v}
    IN IF held = {} THEN {} ELSE {CHOOSE k \in held : TRUE}

diskPlaintext ==
    UNION {{Finding(<<"disk.plaintext", k, p>>, "high") :
               k \in UNION {matchAgainstVault(v) : v \in extractCandidateValues(p)}} :
           p \in Present(files)}

vaultDuplicate ==
    {Finding(<<"vault.duplicate", entries[k].secret, k>>, "medium") :
        k \in {j \in Present(entries) :
                  \E i \in Present(entries) \ {j} : entries[i].secret = entries[j].secret}}

\* Of two findings with one id the more severe is kept.
runWatchtower ==
    LET all == {f \in staleRotation \cup staleUnused \cup grantZombie \cup diskPlaintext
                      \cup vaultDuplicate : f.id \notin dismissed}
    IN {f \in all : \A g \in all : g.id = f.id => severityRank(g.severity) <= severityRank(f.severity)}

-----------------------------------------------------------------------------
(* The life of the vault between two scans.                                *)

WatchInit ==
    /\ entries = [k \in KeyIds |-> Absent]
    /\ grants = [g \in Grants |-> Absent]
    /\ uses = {}
    /\ files = [p \in Paths |-> Absent]
    /\ dismissed = {}
    /\ today = 0

AddEntry(k, s) ==
    /\ entries[k] = Absent
    /\ entries' = [entries EXCEPT ![k] = [createdAt |-> today, secret |-> s]]
    /\ UNCHANGED <<grants, uses, files, dismissed, today>>

\* Removing an entry takes its grants along.
RemoveEntry(k) ==
    /\ entries[k] # Absent
    /\ entries' = [entries EXCEPT ![k] = Absent]
    /\ grants' = [g \in Grants |-> IF grants[g] # Absent /\ grants[g].keyId = k THEN Absent
                                   ELSE grants[g]]
    /\ UNCHANGED <<uses, files, dismissed, today>>

Allow(g, k) ==
    /\ entries[k] # Absent /\ grants[g] = Absent
    /\ \A u \in uses : u.grantId # g
    /\ grants' = [grants EXCEPT ![g] = [keyId |-> k, grantedAt |-> today]]
    /\ UNCHANGED <<entries, uses, files, dismissed, today>>

\* A proxied call; what left the slice can be forgotten.
Use(g) ==
    /\ grants[g] # Absent
    /\ uses' = audit \cup {[keyId |-> grants[g].keyId, grantId |-> g, ts |-> today]}
    /\ UNCHANGED <<entries, grants, files, dismissed, today>>

\* Some tool writes a file, or the user deletes it.
WriteFile(p, values, readable) ==
    /\ files' = [files EXCEPT ![p] = [values |-> values, readable |-> readable]]
    /\ UNCHANGED <<entries, grants, uses, dismissed, today>>

DeleteFile(p) ==
    /\ files[p] # Absent
    /\ files' = [files EXCEPT ![p] = Absent]
    /\ UNCHANGED <<entries, grants, uses, dismissed, today>>

Dismiss(f) ==
    /\ Cardinality(dismissed) < MaxDismissed
    /\ dismissed' = dismissed \cup {f.id}
    /\ UNCHANGED <<entries, grants, uses, files, today>>

NextDay ==
    /\ today < MaxNow
    /\ today' = today + 1
    /\ UNCHANGED <<entries, grants, uses, files, dismissed>>

WatchNext ==
    \/ \E k \in KeyIds, s \in Secrets : AddEntry(k, s)
    \/ \E k \in KeyIds : RemoveEntry(k) \/ \E g \in Grants : Allow(g, k)
    \/ \E g \in Grants : Use(g)
    \/ \E p \in Paths : DeleteFile(p) \/ \E v \in SUBSET Secrets, r \in BOOLEAN : WriteFile(p, v, r)
    \/ \E f \in runWatchtower : Dismiss(f)
    \/ NextDay

WatchSpec == WatchInit /\ [][WatchNext]_watchVars

-----------------------------------------------------------------------------
(* Properties.                                                             *)

Reported(id) == \E f \in runWatchtower : f.id = id

\* A key that was used within the period is not called unused, and one that is
\* old and was not is, unless dismissed, whatever has left the audit slice; and
\* every key whose plaintext lies in a readable file is reported, through the
\* entry itself or another entry that holds the same plaintext.
ReportIsRight ==
    /\ \A k \in Present(entries) :
           LET recent == \E u \in uses : u.keyId = k /\ ~Past(u.ts, Unused)
           IN Reported(<<"stale.unused", k>>) <=>
                  /\ ~recent /\ Past(entries[k].createdAt, Unused)
                  /\ <<"stale.unused", k>> \notin dismissed
    /\ \A k \in Present(entries), p \in Present(files) :
           files[p].readable /\ entries[k].secret \in files[p].values =>
               \E j \in Present(entries) :
                   /\ entries[j].secret = entries[k].secret
                   /\ Reported(<<"disk.plaintext", j, p>>) \/ <<"disk.plaintext", j, p>> \in dismissed

\* Nothing gets better by waiting: as long as nothing but time passes, no finding
\* goes away and none becomes less severe.
TimeNeverClears ==
    [][today' > today =>
           \A f \in runWatchtower : \E g \in runWatchtower' :
               g.id = f.id /\ severityRank(g.severity) >= severityRank(f.severity)]_watchVars
=============================================================================
