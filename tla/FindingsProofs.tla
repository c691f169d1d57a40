----------------------------- MODULE FindingsProofs ----------------------------
(***************************************************************************)
(* Theorems about the two parts of the program that raise findings, Leak    *)
(* and Watchtower, for every number of calls, keys, polls, grants, files   *)
(* and days.                                                               *)
(***************************************************************************)
EXTENDS Leak, Watchtower, NaturalsInduction, WellFoundedInduction, TLAPS

-----------------------------------------------------------------------------
(* Leak.  Baselines and lists of findings are loaded, changed and set whole, *)
(* so what is claimed of the stored ones is claimed of those in the hands of *)
(* every process.  The claims name the calls made so far, m, which grow.    *)

IsJob(j) == DOMAIN j = {"at", "print", "ts", "base", "loaded", "input"}

\* No bucket of an hour counts more calls than the key had in it.
Counted(b, f, m) ==
    b # None => \A s \in DOMAIN b.hourly :
                    s \in Hours /\ b.hourly[s] \in Nat /\ b.hourly[s] <= m[f][s]

CountedMap(l, m) == l = [f \in Prints |-> l[f]] /\ \A f \in Prints : Counted(l[f], f, m)

\* The baseline a call loaded does not count the call itself yet.
Room(b, f, ts, m) ==
    LET h == Floored(ts, HourMs) IN
    /\ h \in Hours /\ 1 <= m[f][h]
    /\ b # None /\ h \in DOMAIN b.hourly => b.hourly[h] + 1 <= m[f][h]

\* What may stand in row r of the findings.
Earned(r, x, m) ==
    /\ x.observed \in Nat
    /\ IF r[1] = "B" THEN x.observed >= Floor /\ \E h \in Hours : m[r[2]][h] >= x.observed
       ELSE shouldRaiseSignalA([upstream |-> x.observed, local |-> x.expected])

IsRow(x) ==
    DOMAIN x = {"observed", "expected", "severity", "status", "mark"} /\ x.mark \in Nat

EarnedList(l, m) ==
    /\ l = [r \in Rows |-> l[r]]
    /\ \A r \in Rows : l[r] # None => IsRow(l[r]) /\ Earned(r, l[r], m)

Holding == {"saving", "raising", "dismissing"}

\* What a process holds at each of its awaits.
JobHolds(j, m) ==
    /\ j.at \in {"recording", "reloading", "recorded", "checking"} => j.print \in Prints
    /\ j.at \in {"recording", "reloading", "checking"} => Counted(j.base, j.print, m)
    /\ j.at = "recording" => Room(j.base, j.print, j.ts, m)
    /\ j.at = "reloading" => CountedMap(j.loaded, m)
    /\ j.at \in Holding => EarnedList(j.loaded, m)
    /\ j.at \in {"saving", "raising"} => j.input.row \in Rows /\ Earned(j.input.row, j.input, m)
    /\ j.at = "dismissing" => j.input \in Rows /\ j.loaded[j.input] # None

Jobs ==
    /\ job = [p \in Procs |-> job[p]]
    /\ \A p \in Procs : IsJob(job[p]) /\ JobHolds(job[p], made)

\* A list that was loaded and not overwritten since is the stored one.
Fresh ==
    \A p \in Procs \ stale : job[p].at \in Holding => job[p].loaded = findings

Stored ==
    /\ now \in 1..MaxTime
    /\ made \in [Prints -> [Hours -> Nat]]
    /\ CountedMap(baseline, made)
    /\ EarnedList(findings, made)

LeakInv == Stored /\ Jobs /\ Fresh

-----------------------------------------------------------------------------
\* Calls are made and never unmade.
Grows(m, n) ==
    /\ m \in [Prints -> [Hours -> Nat]] /\ n \in [Prints -> [Hours -> Nat]]
    /\ \A f \in Prints : \A h \in Hours : m[f][h] <= n[f][h]

LEMMA CountedGrows ==
    ASSUME NEW m, NEW n, Grows(m, n), NEW f \in Prints, NEW b, Counted(b, f, m)
    PROVE  Counted(b, f, n)
<1> SUFFICES ASSUME b # None, NEW s \in DOMAIN b.hourly
             PROVE  s \in Hours /\ b.hourly[s] \in Nat /\ b.hourly[s] <= n[f][s]
  BY DEF Counted
<1>1. s \in Hours /\ b.hourly[s] \in Nat /\ b.hourly[s] <= m[f][s]
  BY DEF Counted
<1>2. m[f][s] <= n[f][s] /\ m[f][s] \in Nat /\ n[f][s] \in Nat
  BY <1>1 DEF Grows
<1>3. QED
  BY <1>1, <1>2

LEMMA EarnedGrows ==
    ASSUME NEW m, NEW n, Grows(m, n), NEW r \in Rows, NEW x, Earned(r, x, m)
    PROVE  Earned(r, x, n)
<1>1. CASE r[1] = "B"
  <2>1. PICK h \in Hours : m[r[2]][h] >= x.observed
    BY <1>1 DEF Earned
  <2>2. r[2] \in Prints /\ x.observed \in Nat
    BY DEF Rows, Earned
  <2>3. m[r[2]][h] <= n[r[2]][h] /\ m[r[2]][h] \in Nat /\ n[r[2]][h] \in Nat
    BY <2>2 DEF Grows
  <2>4. n[r[2]][h] >= x.observed
    BY <2>1, <2>2, <2>3
  <2>5. QED
    BY <1>1, <2>4 DEF Earned
<1>2. CASE r[1] # "B"
  BY <1>2 DEF Earned
<1>3. QED
  BY <1>1, <1>2

LEMMA JobGrows ==
    ASSUME NEW m, NEW n, Grows(m, n), NEW j, JobHolds(j, m)
    PROVE  JobHolds(j, n)
<1>1. j.at \in {"recording", "reloading", "checking"} => Counted(j.base, j.print, n)
  BY CountedGrows DEF JobHolds
<1>2. j.at = "recording" => Room(j.base, j.print, j.ts, n)
  <2> SUFFICES ASSUME j.at = "recording" PROVE Room(j.base, j.print, j.ts, n)
    OBVIOUS
  <2> DEFINE h == Floored(j.ts, HourMs)
             b == j.base
             f == j.print
  <2>1. /\ h \in Hours /\ 1 <= m[f][h] /\ f \in Prints
        /\ b # None /\ h \in DOMAIN b.hourly => b.hourly[h] + 1 <= m[f][h]
        /\ b # None /\ h \in DOMAIN b.hourly => b.hourly[h] \in Nat
    BY DEF JobHolds, Room, Counted
  <2>2. m[f][h] <= n[f][h] /\ m[f][h] \in Nat /\ n[f][h] \in Nat
    BY <2>1 DEF Grows
  <2> HIDE DEF h, b, f
  <2>3. /\ h \in Hours /\ 1 <= n[f][h]
        /\ b # None /\ h \in DOMAIN b.hourly => b.hourly[h] + 1 <= n[f][h]
    BY <2>1, <2>2
  <2>4. QED
    BY <2>3 DEF Room, h, b, f
<1>3. j.at = "reloading" => CountedMap(j.loaded, n)
  BY CountedGrows DEF JobHolds, CountedMap
<1>4. j.at \in Holding => EarnedList(j.loaded, n)
  BY EarnedGrows DEF JobHolds, EarnedList
<1>5. j.at \in {"saving", "raising"} => j.input.row \in Rows /\ Earned(j.input.row, j.input, n)
  BY EarnedGrows DEF JobHolds
<1>6. QED
  BY <1>1, <1>2, <1>3, <1>4, <1>5 DEF JobHolds

\* A step in which no process but p moves.
Moves(p) == job' = [q \in Procs |-> IF q = p THEN job'[p] ELSE job[q]]

LEMMA JobMoves ==
    ASSUME Jobs, NEW p \in Procs, Moves(p), IsJob(job'[p]), JobHolds(job'[p], made'),
           Grows(made, made')
    PROVE  Jobs'
<1>1. \A q \in Procs : job'[q] = IF q = p THEN job'[p] ELSE job[q]
  BY DEF Moves
<1>2. job' = [q \in Procs |-> job'[q]]
  BY <1>1 DEF Moves
<1>3. \A q \in Procs : IsJob(job[q]) /\ JobHolds(job[q], made')
  BY JobGrows DEF Jobs
<1>4. \A q \in Procs : IsJob(job'[q]) /\ JobHolds(job'[q], made')
  BY <1>1, <1>3
<1>5. QED
  BY <1>2, <1>4 DEF Jobs

-----------------------------------------------------------------------------
(* The operators.                                                          *)

\* A recorded call is counted in its hour, and nothing else is.
LEMMA RecordIsCounted ==
    ASSUME NEW m, NEW f, NEW b, NEW ts, Counted(b, f, m), Room(b, f, ts, m)
    PROVE  Counted(pureRecord(b, ts), f, m)
<1> DEFINE h == Floored(ts, HourMs)
           prev == IF b # None THEN b ELSE [hourly |-> <<>>, daily |-> <<>>, first |-> ts]
           kept == pruneOld(prev.hourly, ts)
           more == bumpBucket(kept, HourMs, ts)
           all == Capped(more, HourlyCap)
<1>1. \A s \in DOMAIN prev.hourly : b # None /\ prev = b
  OBVIOUS
<1>2. \A s \in DOMAIN prev.hourly :
          s \in Hours /\ prev.hourly[s] \in Nat /\ prev.hourly[s] <= m[f][s]
  BY <1>1 DEF Counted
<1>3. h \in DOMAIN prev.hourly => prev.hourly[h] + 1 <= m[f][h]
  BY <1>1 DEF Room
<1>4. h \in Hours /\ 1 <= m[f][h]
  BY DEF Room
<1> HIDE DEF prev, h
<1>5. \A s \in DOMAIN kept : s \in DOMAIN prev.hourly /\ kept[s] = prev.hourly[s]
  BY DEF pruneOld, Kept
<1> HIDE DEF kept
<1>6. \A s \in DOMAIN more : s \in Hours /\ more[s] \in Nat /\ more[s] <= m[f][s]
  <2> SUFFICES ASSUME NEW s \in DOMAIN more
               PROVE  s \in Hours /\ more[s] \in Nat /\ more[s] <= m[f][s]
    OBVIOUS
  <2>1. s \in DOMAIN kept \cup {h}
    BY DEF bumpBucket, h
  <2>2. CASE s \notin DOMAIN kept
    <3>1. more[s] = 1 /\ s = h
      BY <2>1, <2>2 DEF bumpBucket, h
    <3>2. QED
      BY <3>1, <1>4
  <2>3. CASE s \in DOMAIN kept
    <3>1. more[s] = IF s = h THEN kept[s] + 1 ELSE kept[s]
      BY <2>3 DEF bumpBucket, h
    <3>2. s \in Hours /\ kept[s] \in Nat /\ kept[s] <= m[f][s] /\ (s = h => kept[s] + 1 <= m[f][s])
      BY <1>2, <1>3, <1>5, <2>3
    <3>3. QED
      BY <3>1, <3>2
  <2>4. QED
    BY <2>2, <2>3
<1> HIDE DEF more
<1>7. \A s \in DOMAIN all : s \in DOMAIN more /\ all[s] = more[s]
  BY DEF Capped, Kept
<1>8. pureRecord(b, ts).hourly = all
  BY DEF pureRecord, all, more, kept, prev
<1> HIDE DEF all
<1>9. QED
  BY <1>6, <1>7, <1>8 DEF Counted

\* The count of a call's hour is one of calls made within an hour.
LEMMA RecentIsCounted ==
    ASSUME NEW m, m \in [Prints -> [Hours -> Nat]], NEW f \in Prints, NEW b, b # None, NEW ts,
           Counted(b, f, m), Hours # {}
    PROVE  recentHour(b, ts) \in Nat /\ \E h \in Hours : m[f][h] >= recentHour(b, ts)
<1> DEFINE h == Floored(ts, HourMs)
<1>1. CASE h \in DOMAIN b.hourly
  <2>1. h \in Hours /\ b.hourly[h] \in Nat /\ b.hourly[h] <= m[f][h] /\ m[f][h] \in Nat
    BY <1>1 DEF Counted
  <2>2. recentHour(b, ts) = b.hourly[h]
    BY <1>1 DEF recentHour
  <2> HIDE DEF h
  <2>3. QED
    BY <2>1, <2>2
<1>2. CASE h \notin DOMAIN b.hourly
  <2>1. recentHour(b, ts) = 0
    BY <1>2 DEF recentHour
  <2>2. PICK g \in Hours : m[f][g] \in Nat
    OBVIOUS
  <2>3. QED
    BY <2>1, <2>2
<1>3. QED
  BY <1>1, <1>2

LEMMA HourOfNow == Stored => Floored(now, HourMs) \in Hours /\ Hours # {}
BY DEF Stored, Hours

LEMMA SameCalls == Stored => Grows(made, made)
BY DEF Stored, Grows

-----------------------------------------------------------------------------
(* The steps of a call.                                                    *)

LEMMA ProxyOkStep ==
    ASSUME LeakInv, NEW c \in Calls, NEW f \in Prints, ProxyOk(c, f)
    PROVE  LeakInv'
<1> DEFINE h == Floored(now, HourMs)
<1>0. c \in Procs
  BY DEF Procs
<1>1. /\ job' = [job EXCEPT ![c] = [Idle EXCEPT !.at = "recording", !.print = f, !.ts = now,
                                              !.base = baseline[f]]]
      /\ made' = [made EXCEPT ![f][h] = @ + 1]
      /\ UNCHANGED <<now, baseline, findings, stale>>
  BY DEF ProxyOk
<1>2. h \in Hours /\ made \in [Prints -> [Hours -> Nat]] /\ Counted(baseline[f], f, made)
  BY HourOfNow DEF LeakInv, Stored, CountedMap
<1>3. job'[c].at = "recording" /\ job'[c].print = f /\ job'[c].ts = now
      /\ job'[c].base = baseline[f] /\ IsJob(job'[c]) /\ Moves(c)
  BY <1>0, <1>1 DEF Idle, IsJob, LeakInv, Jobs, Moves
<1> HIDE DEF h
<1>4. Grows(made, made') /\ made'[f][h] = made[f][h] + 1
  BY <1>1, <1>2 DEF Grows
<1>5. Stored'
  <2>1. CountedMap(baseline, made')
    BY <1>4, CountedGrows DEF LeakInv, Stored, CountedMap
  <2>2. EarnedList(findings, made')
    BY <1>4, EarnedGrows DEF LeakInv, Stored, EarnedList
  <2>3. QED
    BY <1>1, <1>4, <2>1, <2>2 DEF LeakInv, Stored, Grows
<1>6. Room(baseline[f], f, now, made')
  <2>1. baseline[f] # None /\ h \in DOMAIN baseline[f].hourly =>
            baseline[f].hourly[h] \in Nat /\ baseline[f].hourly[h] <= made[f][h]
    BY <1>2 DEF Counted
  <2>2. made[f][h] \in Nat
    BY <1>2
  <2>3. h \in Hours /\ 1 <= made'[f][h]
        /\ (baseline[f] # None /\ h \in DOMAIN baseline[f].hourly =>
                baseline[f].hourly[h] + 1 <= made'[f][h])
    BY <1>2, <1>4, <2>1, <2>2
  <2>4. QED
    BY <2>3 DEF Room, h
<1>7. Counted(baseline[f], f, made')
  BY <1>2, <1>4, CountedGrows
<1>8. JobHolds(job'[c], made')
  BY <1>3, <1>6, <1>7 DEF JobHolds, Holding
<1>9. Jobs'
  BY <1>0, <1>3, <1>4, <1>8, JobMoves DEF LeakInv
<1>10. Fresh'
  BY <1>1, <1>3 DEF LeakInv, Fresh, Moves, Holding
<1>11. QED
  BY <1>5, <1>9, <1>10 DEF LeakInv

\* A step that makes no call and writes neither findings nor baselines.
LEMMA JobOnly ==
    ASSUME LeakInv, UNCHANGED <<now, made, baseline, findings>>, NEW p \in Procs, Moves(p),
           IsJob(job'[p]), JobHolds(job'[p], made),
           stale' = stale \/ stale' = stale \ {p},
           job'[p].at \in Holding => job'[p].loaded = findings
    PROVE  LeakInv'
<1>1. Stored'
  BY DEF LeakInv, Stored
<1>2. Jobs'
  BY SameCalls, JobMoves DEF LeakInv
<1>3. Fresh'
  BY DEF LeakInv, Fresh, Moves
<1>4. QED
  BY <1>1, <1>2, <1>3 DEF LeakInv

LEMMA IdleHolds == IsJob(Idle) /\ JobHolds(Idle, made) /\ Idle.at \notin Holding
BY DEF IsJob, JobHolds, Holding, Idle

\* A process whose job is over.
LEMMA DoneMoves ==
    ASSUME LeakInv, NEW p \in Procs, Done(p)
    PROVE  Moves(p) /\ job'[p] = Idle
BY DEF Done, Moves, LeakInv, Jobs

LEMMA DoneStep ==
    ASSUME LeakInv, UNCHANGED <<now, made, baseline, findings, stale>>, NEW p \in Procs, Done(p)
    PROVE  LeakInv'
BY DoneMoves, IdleHolds, JobOnly

LEMMA ReloadStep ==
    ASSUME LeakInv, NEW c \in Calls, Reload(c)
    PROVE  LeakInv'
<1> DEFINE b == pureRecord(job[c].base, job[c].ts)
<1>0. c \in Procs
  BY DEF Procs
<1>1. IsJob(job[c]) /\ JobHolds(job[c], made) /\ job = [q \in Procs |-> job[q]]
  BY <1>0 DEF LeakInv, Jobs
<1>2. /\ job' = [job EXCEPT ![c].at = "reloading", ![c].loaded = baseline, ![c].base = b]
      /\ UNCHANGED <<now, baseline, findings, stale, made>> /\ job[c].at = "recording"
  BY <1>0, <1>1 DEF Reload, history, At, IsJob
<1>3. Counted(b, job[c].print, made)
  BY <1>1, <1>2, RecordIsCounted DEF JobHolds
<1> HIDE DEF b
<1>4. /\ job'[c].at = "reloading" /\ job'[c].loaded = baseline /\ job'[c].base = b
      /\ job'[c].print = job[c].print /\ IsJob(job'[c]) /\ Moves(c)
  BY <1>0, <1>1, <1>2 DEF IsJob, Moves
<1>5. JobHolds(job'[c], made) /\ job'[c].at \notin Holding
  BY <1>1, <1>2, <1>3, <1>4 DEF JobHolds, Holding, LeakInv, Stored
<1>6. QED
  BY <1>0, <1>2, <1>4, <1>5, JobOnly

LEMMA SaveBaselineStep ==
    ASSUME LeakInv, NEW c \in Calls, SaveBaseline(c)
    PROVE  LeakInv'
<1>0. c \in Procs
  BY DEF Procs
<1>1. IsJob(job[c]) /\ JobHolds(job[c], made) /\ job = [q \in Procs |-> job[q]]
  BY <1>0 DEF LeakInv, Jobs
<1>2. /\ job' = [job EXCEPT ![c].at = "recorded", ![c].loaded = None, ![c].base = None]
      /\ baseline' = [job[c].loaded EXCEPT ![job[c].print] = job[c].base]
      /\ UNCHANGED <<now, findings, stale, made>> /\ job[c].at = "reloading"
  BY DEF SaveBaseline, history, At
<1>3. job'[c].at = "recorded" /\ job'[c].print = job[c].print /\ IsJob(job'[c]) /\ Moves(c)
  BY <1>0, <1>1, <1>2 DEF IsJob, Moves
<1>4. JobHolds(job'[c], made')
  BY <1>1, <1>2, <1>3 DEF JobHolds, Holding
<1>5. CountedMap(baseline', made)
  BY <1>1, <1>2 DEF JobHolds, CountedMap
<1>6. Stored'
  BY <1>2, <1>5 DEF LeakInv, Stored
<1>7. Grows(made, made')
  BY <1>2, SameCalls DEF LeakInv
<1>8. Jobs'
  BY <1>0, <1>3, <1>4, <1>7, JobMoves DEF LeakInv
<1>9. Fresh'
  BY <1>0, <1>2, <1>3 DEF LeakInv, Fresh, Moves, Holding
<1>10. QED
  BY <1>6, <1>8, <1>9 DEF LeakInv

LEMMA CheckLoadStep ==
    ASSUME LeakInv, NEW c \in Calls, CheckLoad(c)
    PROVE  LeakInv'
<1>0. c \in Procs
  BY DEF Procs
<1>1. IsJob(job[c]) /\ JobHolds(job[c], made) /\ job = [q \in Procs |-> job[q]]
  BY <1>0 DEF LeakInv, Jobs
<1>2. /\ job' = [job EXCEPT ![c].at = "checking", ![c].base = baseline[job[c].print]]
      /\ UNCHANGED <<now, baseline, findings, stale, made>> /\ job[c].at = "recorded"
  BY DEF CheckLoad, history, At
<1>3. job[c].print \in Prints /\ Counted(baseline[job[c].print], job[c].print, made)
  BY <1>1, <1>2 DEF JobHolds, LeakInv, Stored, CountedMap
<1>4. /\ job'[c].at = "checking" /\ job'[c].base = baseline[job[c].print]
      /\ job'[c].print = job[c].print /\ IsJob(job'[c]) /\ Moves(c)
  BY <1>0, <1>1, <1>2 DEF IsJob, Moves
<1>5. JobHolds(job'[c], made) /\ job'[c].at \notin Holding
  BY <1>3, <1>4 DEF JobHolds, Holding
<1>6. QED
  BY <1>0, <1>2, <1>4, <1>5, JobOnly

\* What a call raises is earned by the calls of its hour.
LEMMA CheckStep ==
    ASSUME LeakInv, NEW c \in Calls, Check(c)
    PROVE  LeakInv'
<1> DEFINE b == job[c].base
           ts == job[c].ts
           f == job[c].print
           in == [row |-> <<"B", f>>, severity |-> severityForSignalB(b, ts),
                  expected |-> Rounded(b, ts), observed |-> recentHour(b, ts)]
<1>0. c \in Procs
  BY DEF Procs
<1>1. IsJob(job[c]) /\ JobHolds(job[c], made) /\ job = [q \in Procs |-> job[q]]
  BY <1>0 DEF LeakInv, Jobs
<1>2. UNCHANGED <<now, baseline, findings, made>> /\ job[c].at = "checking"
  BY DEF Check, At
<1>3. CASE ~ pureCheckAnomaly(b, ts)
  <2>1. Done(c) /\ UNCHANGED stale
    BY <1>3 DEF Check
  <2>2. QED
    BY <1>0, <1>2, <2>1, DoneStep
<1>4. CASE pureCheckAnomaly(b, ts)
  <2>1. /\ job' = [job EXCEPT ![c] = [Idle EXCEPT !.at = "saving", !.loaded = findings,
                                                !.input = in]]
        /\ stale' = stale \ {c}
    BY <1>4 DEF Check, Raising
  <2>2. b # None /\ recentHour(b, ts) >= Floor
    BY <1>4 DEF pureCheckAnomaly
  <2>3. f \in Prints /\ Counted(b, f, made)
    BY <1>1, <1>2 DEF JobHolds
  <2>4. recentHour(b, ts) \in Nat /\ \E h \in Hours : made[f][h] >= recentHour(b, ts)
    BY <2>2, <2>3, HourOfNow, RecentIsCounted DEF LeakInv, Stored
  <2>5. in.row = <<"B", f>> /\ in.observed = recentHour(b, ts)
    OBVIOUS
  <2> HIDE DEF in, b, ts, f
  <2>6. <<"B", f>> \in Rows /\ <<"B", f>>[1] = "B" /\ <<"B", f>>[2] = f
    BY <2>3 DEF Rows, Signals
  <2>7. in.row \in Rows /\ Earned(in.row, in, made)
    BY <2>2, <2>4, <2>5, <2>6 DEF Earned
  <2>8. /\ job'[c].at = "saving" /\ job'[c].loaded = findings /\ job'[c].input = in
        /\ IsJob(job'[c]) /\ Moves(c)
    BY <1>0, <1>1, <2>1 DEF IsJob, Moves, Idle
  <2>9. JobHolds(job'[c], made)
    BY <2>7, <2>8 DEF JobHolds, Holding, LeakInv, Stored
  <2>10. QED
    BY <1>0, <1>2, <2>1, <2>8, <2>9, JobOnly
<1>5. QED
  BY <1>3, <1>4

-----------------------------------------------------------------------------
(* The steps of the poll and of the user that leave the findings alone.     *)

LEMMA StartPollStep == LeakInv /\ StartPoll => LeakInv'
<1> SUFFICES ASSUME LeakInv, StartPoll PROVE LeakInv'
  OBVIOUS
<1>0. "poll" \in Procs
  BY DEF Procs
<1>1. IsJob(job["poll"]) /\ job = [q \in Procs |-> job[q]]
  BY <1>0 DEF LeakInv, Jobs
<1>2. /\ job' = [job EXCEPT !["poll"] = [Idle EXCEPT !.at = "polling", !.base = detection.key]]
      /\ UNCHANGED <<now, baseline, findings, stale, made>>
  BY DEF StartPoll, history
<1>3. job'["poll"].at = "polling" /\ IsJob(job'["poll"]) /\ Moves("poll")
  BY <1>0, <1>1, <1>2 DEF IsJob, Moves, Idle
<1>4. JobHolds(job'["poll"], made) /\ job'["poll"].at \notin Holding
  BY <1>3 DEF JobHolds, Holding
<1>5. QED
  BY <1>0, <1>2, <1>3, <1>4, JobOnly

\* What a poll raises is earned by the difference it reports.
LEMMA PollRowStep ==
    ASSUME LeakInv, NEW f \in Prints, NEW d \in Deltas, PollRow(f, d)
    PROVE  LeakInv'
<1> DEFINE in == [row |-> <<"A", f>>, severity |-> severityForSignalA(d),
                  expected |-> d.local, observed |-> d.upstream]
<1>0. "poll" \in Procs
  BY DEF Procs
<1>1. IsJob(job["poll"]) /\ job = [q \in Procs |-> job[q]]
  BY <1>0 DEF LeakInv, Jobs
<1>2. /\ job' = [job EXCEPT !["poll"].at = "raising", !["poll"].loaded = findings,
                           !["poll"].input = in]
      /\ stale' = stale \ {"poll"} /\ shouldRaiseSignalA(d)
      /\ UNCHANGED <<now, baseline, findings, made>>
  BY DEF PollRow
<1>3. in.row = <<"A", f>> /\ in.observed = d.upstream /\ in.expected = d.local
  OBVIOUS
<1> HIDE DEF in
<1>4. d.upstream \in Nat /\ shouldRaiseSignalA([upstream |-> in.observed, local |-> in.expected])
  BY <1>2, <1>3, DeltasAssumption DEF shouldRaiseSignalA, Tolerance
<1>5. <<"A", f>> \in Rows /\ <<"A", f>>[1] # "B"
  BY DEF Rows, Signals
<1>6. in.row \in Rows /\ Earned(in.row, in, made)
  BY <1>3, <1>4, <1>5 DEF Earned
<1>7. /\ job'["poll"].at = "raising" /\ job'["poll"].loaded = findings /\ job'["poll"].input = in
      /\ IsJob(job'["poll"]) /\ Moves("poll")
  BY <1>0, <1>1, <1>2 DEF IsJob, Moves
<1>8. JobHolds(job'["poll"], made)
  BY <1>6, <1>7 DEF JobHolds, Holding, LeakInv, Stored
<1>9. QED
  BY <1>0, <1>2, <1>7, <1>8, JobOnly

LEMMA RecordPollStep == LeakInv /\ (RecordPoll \/ RecordPollSave) => LeakInv'
<1> SUFFICES ASSUME LeakInv, RecordPoll \/ RecordPollSave PROVE LeakInv'
  OBVIOUS
<1>0. "poll" \in Procs
  BY DEF Procs
<1>1. IsJob(job["poll"]) /\ job = [q \in Procs |-> job[q]]
  BY <1>0 DEF LeakInv, Jobs
<1>2. CASE RecordPoll
  <2>1. /\ job' = [job EXCEPT !["poll"].at = "polled", !["poll"].loaded = detection]
        /\ UNCHANGED <<now, baseline, findings, stale, made>>
    BY <1>2 DEF RecordPoll, history
  <2>2. job'["poll"].at = "polled" /\ IsJob(job'["poll"]) /\ Moves("poll")
    BY <1>0, <1>1, <2>1 DEF IsJob, Moves
  <2>3. JobHolds(job'["poll"], made) /\ job'["poll"].at \notin Holding
    BY <2>2 DEF JobHolds, Holding
  <2>4. QED
    BY <1>0, <2>1, <2>2, <2>3, JobOnly
<1>3. CASE RecordPollSave
  <2>1. Done("poll") /\ UNCHANGED <<now, made, baseline, findings, stale>>
    BY <1>3 DEF RecordPollSave, history
  <2>2. QED
    BY <1>0, <2>1, DoneStep
<1>4. QED
  BY <1>2, <1>3

\* Setting and clearing the detection key.
LEMMA DetectionStep ==
    ASSUME LeakInv, (\E k \in Admins : set(k)) \/ SetSave \/ clear \/ ClearSave
    PROVE  LeakInv'
<1>0. "user" \in Procs
  BY DEF Procs
<1>1. IsJob(job["user"]) /\ job = [q \in Procs |-> job[q]]
  BY <1>0 DEF LeakInv, Jobs
<1>2. ASSUME NEW k \in Admins, set(k) PROVE LeakInv'
  <2>1. /\ job' = [job EXCEPT !["user"] = [Idle EXCEPT !.at = "setting", !.input = k]]
        /\ UNCHANGED <<now, baseline, findings, stale, made>>
    BY <1>2 DEF set, history
  <2>2. job'["user"].at = "setting" /\ IsJob(job'["user"]) /\ Moves("user")
    BY <1>0, <1>1, <2>1 DEF IsJob, Moves, Idle
  <2>3. JobHolds(job'["user"], made) /\ job'["user"].at \notin Holding
    BY <2>2 DEF JobHolds, Holding
  <2>4. QED
    BY <1>0, <2>1, <2>2, <2>3, JobOnly
<1>3. CASE clear
  <2>1. /\ job' = [job EXCEPT !["user"].at = "clearing"]
        /\ UNCHANGED <<now, baseline, findings, stale, made>>
    BY <1>3 DEF clear, history, Goto
  <2>2. job'["user"].at = "clearing" /\ IsJob(job'["user"]) /\ Moves("user")
    BY <1>0, <1>1, <2>1 DEF IsJob, Moves
  <2>3. JobHolds(job'["user"], made) /\ job'["user"].at \notin Holding
    BY <2>2 DEF JobHolds, Holding
  <2>4. QED
    BY <1>0, <2>1, <2>2, <2>3, JobOnly
<1>4. CASE SetSave \/ ClearSave
  <2>1. Done("user") /\ UNCHANGED <<now, made, baseline, findings, stale>>
    BY <1>4 DEF SetSave, ClearSave, history
  <2>2. QED
    BY <1>0, <2>1, DoneStep
<1>5. QED
  BY <1>2, <1>3, <1>4

-----------------------------------------------------------------------------
(* The steps that write the findings.                                      *)

\* A save of a list of earned rows.
LEMMA WriteStep ==
    ASSUME LeakInv, UNCHANGED <<now, made, baseline>>, NEW p \in Procs, NEW list,
           SaveFindings(p, list), EarnedList(list, made), Moves(p), IsJob(job'[p]),
           JobHolds(job'[p], made), job'[p].at \notin Holding
    PROVE  LeakInv'
<1>1. Stored'
  BY DEF LeakInv, Stored, SaveFindings
<1>2. Jobs'
  BY SameCalls, JobMoves DEF LeakInv
<1>3. Fresh'
  BY DEF LeakInv, Fresh, Moves, SaveFindings, Holding
<1>4. QED
  BY <1>1, <1>2, <1>3 DEF LeakInv

\* One row of a list is changed.
LEMMA RowChanged ==
    ASSUME NEW l, NEW m, EarnedList(l, m), NEW r \in Rows, NEW x, IsRow(x), Earned(r, x, m)
    PROVE  EarnedList([l EXCEPT ![r] = x], m)
BY DEF EarnedList

LEMMA UpdatedRow ==
    ASSUME NEW m, NEW r \in Rows, NEW row, NEW in, Earned(r, in, m)
    PROVE  IsRow(Updated(row, in)) /\ Earned(r, Updated(row, in), m)
<1>1. /\ Updated(row, in).observed = in.observed /\ Updated(row, in).expected = in.expected
      /\ IsRow(Updated(row, in))
  BY DEF Updated, IsRow
<1>2. QED
  BY <1>1 DEF Earned

\* raise, whatever the process that raises goes on to.
LEMMA RaiseWrites ==
    ASSUME LeakInv, UNCHANGED <<now, made, baseline>>, NEW p \in Procs,
           job[p].at \in {"saving", "raising"}, raise(p), Moves(p), IsJob(job'[p]),
           JobHolds(job'[p], made), job'[p].at \notin Holding
    PROVE  LeakInv'
<1> DEFINE in == job[p].input
           row == job[p].loaded[in.row]
<1>1. in.row \in Rows /\ Earned(in.row, in, made) /\ EarnedList(job[p].loaded, made)
  BY DEF LeakInv, Jobs, JobHolds, Holding
<1>2. CASE suppressed(row, in)
  <2>1. UNCHANGED <<findings, stale>>
    BY <1>2 DEF raise
  <2>2. QED
    BY <2>1, JobOnly
<1>3. CASE ~ suppressed(row, in)
  <2>1. SaveFindings(p, [job[p].loaded EXCEPT ![in.row] = Updated(row, in)])
    BY <1>3 DEF raise
  <2> HIDE DEF in, row
  <2>2. EarnedList([job[p].loaded EXCEPT ![in.row] = Updated(row, in)], made)
    BY <1>1, UpdatedRow, RowChanged
  <2>3. QED
    BY <2>1, <2>2, WriteStep
<1>4. QED
  BY <1>2, <1>3

LEMMA RaiseSaveStep ==
    ASSUME LeakInv, NEW c \in Calls, RaiseSave(c)
    PROVE  LeakInv'
<1>0. c \in Procs
  BY DEF Procs
<1>1. Done(c) /\ raise(c) /\ job[c].at = "saving" /\ UNCHANGED <<now, made, baseline>>
  BY DEF RaiseSave, At
<1>2. Moves(c) /\ job'[c] = Idle
  BY <1>0, <1>1, DoneMoves
<1>3. QED
  BY <1>0, <1>1, <1>2, IdleHolds, RaiseWrites

LEMMA PollRaiseSaveStep == LeakInv /\ PollRaiseSave => LeakInv'
<1> SUFFICES ASSUME LeakInv, PollRaiseSave PROVE LeakInv'
  OBVIOUS
<1>0. "poll" \in Procs
  BY DEF Procs
<1>1. IsJob(job["poll"]) /\ job = [q \in Procs |-> job[q]]
  BY <1>0 DEF LeakInv, Jobs
<1>2. /\ job' = [job EXCEPT !["poll"].at = "polling", !["poll"].loaded = None, !["poll"].input = None]
      /\ raise("poll") /\ job["poll"].at = "raising" /\ UNCHANGED <<now, made, baseline>>
  BY DEF PollRaiseSave, At
<1>3. job'["poll"].at = "polling" /\ IsJob(job'["poll"]) /\ Moves("poll")
  BY <1>0, <1>1, <1>2 DEF IsJob, Moves
<1>4. JobHolds(job'["poll"], made) /\ job'["poll"].at \notin Holding
  BY <1>3 DEF JobHolds, Holding
<1>5. QED
  BY <1>0, <1>2, <1>3, <1>4, RaiseWrites

LEMMA DismissStep ==
    ASSUME LeakInv, NEW r \in Rows, dismiss(r)
    PROVE  LeakInv'
<1>0. "user" \in Procs
  BY DEF Procs
<1>1. IsJob(job["user"]) /\ job = [q \in Procs |-> job[q]]
  BY <1>0 DEF LeakInv, Jobs
<1>2. /\ job' = [job EXCEPT !["user"] = [Idle EXCEPT !.at = "dismissing", !.input = r,
                                                   !.loaded = findings]]
      /\ stale' = stale \ {"user"} /\ findings[r] # None
      /\ UNCHANGED <<now, baseline, findings, made>>
  BY DEF dismiss
<1>3. /\ job'["user"].at = "dismissing" /\ job'["user"].loaded = findings
      /\ job'["user"].input = r /\ IsJob(job'["user"]) /\ Moves("user")
  BY <1>0, <1>1, <1>2 DEF IsJob, Moves, Idle
<1>4. JobHolds(job'["user"], made)
  BY <1>2, <1>3 DEF JobHolds, Holding, LeakInv, Stored
<1>5. QED
  BY <1>0, <1>2, <1>3, <1>4, JobOnly

LEMMA DismissSaveStep == LeakInv /\ DismissSave => LeakInv'
<1> SUFFICES ASSUME LeakInv, DismissSave PROVE LeakInv'
  OBVIOUS
<1> DEFINE r == job["user"].input
           l == job["user"].loaded
           x == [l[r] EXCEPT !.status = "dismissed", !.mark = l[r].observed]
<1>0. "user" \in Procs
  BY DEF Procs
<1>1. JobHolds(job["user"], made)
  BY <1>0 DEF LeakInv, Jobs
<1>2. /\ SaveFindings("user", [l EXCEPT ![r] = x]) /\ Done("user")
      /\ job["user"].at = "dismissing" /\ UNCHANGED <<now, made, baseline>>
  BY DEF DismissSave, At
<1>3. EarnedList(l, made) /\ r \in Rows /\ l[r] # None
  BY <1>1, <1>2 DEF JobHolds, Holding
<1> HIDE DEF r, l
<1>4. IsRow(l[r]) /\ Earned(r, l[r], made)
  BY <1>3 DEF EarnedList
<1>5. x.mark = l[r].observed /\ x.observed = l[r].observed /\ x.expected = l[r].expected
      /\ IsRow(x)
  BY <1>4 DEF IsRow, Earned
<1>6. Earned(r, x, made)
  BY <1>4, <1>5 DEF Earned
<1>7. EarnedList([l EXCEPT ![r] = x], made)
  BY <1>3, <1>5, <1>6, RowChanged
<1>8. Moves("user") /\ job'["user"] = Idle
  BY <1>0, <1>2, DoneMoves
<1>9. QED
  BY <1>0, <1>2, <1>7, <1>8, IdleHolds, WriteStep

LEMMA ClearFindingsStep == LeakInv /\ ClearFindings => LeakInv'
<1> SUFFICES ASSUME LeakInv, ClearFindings PROVE LeakInv'
  OBVIOUS
<1>0. "user" \in Procs
  BY DEF Procs
<1>1. /\ SaveFindings("user", [r \in Rows |-> None]) /\ job' = job
      /\ job["user"].at = "idle" /\ UNCHANGED <<now, made, baseline>>
  BY DEF ClearFindings, At
<1>2. EarnedList([r \in Rows |-> None], made)
  BY DEF EarnedList
<1>3. Moves("user") /\ IsJob(job'["user"]) /\ JobHolds(job'["user"], made)
      /\ job'["user"].at \notin Holding
  BY <1>0, <1>1 DEF LeakInv, Jobs, Moves, Holding
<1>4. QED
  BY <1>0, <1>1, <1>2, <1>3, WriteStep

-----------------------------------------------------------------------------
LEMMA LeakInit == Init => LeakInv
<1> SUFFICES ASSUME Init PROVE LeakInv
  OBVIOUS
<1>1. Stored
  <2>1. now \in 1..MaxTime
    BY TimeAssumption DEF Init, TimeAssumption
  <2>2. made \in [Prints -> [Hours -> Nat]]
    BY DEF Init
  <2>3. CountedMap(baseline, made) /\ EarnedList(findings, made)
    BY DEF Init, CountedMap, Counted, EarnedList
  <2>4. QED
    BY <2>1, <2>2, <2>3 DEF Stored
<1>2. Jobs
  BY IdleHolds DEF Init, Jobs
<1>3. Fresh
  BY IdleHolds DEF Init, Fresh
<1>4. QED
  BY <1>1, <1>2, <1>3 DEF LeakInv

LEMMA TickStep == LeakInv /\ Tick => LeakInv'
<1> SUFFICES ASSUME LeakInv, Tick PROVE LeakInv'
  OBVIOUS
<1>1. now < MaxTime /\ now' = now + 1 /\ UNCHANGED <<baseline, findings, job, stale, made>>
  BY DEF Tick, history
<1>2. now' \in 1..MaxTime
  BY <1>1, TimeAssumption DEF TimeAssumption, LeakInv, Stored
<1>3. QED
  BY <1>1, <1>2 DEF LeakInv, Stored, Jobs, Fresh

LEMMA LeakStep == LeakInv /\ [Next]_vars => LeakInv'
<1> SUFFICES ASSUME LeakInv, [Next]_vars PROVE LeakInv'
  OBVIOUS
<1>1. ASSUME NEW c \in Calls, CallStep(c) PROVE LeakInv'
  BY <1>1, ReloadStep, SaveBaselineStep, CheckLoadStep, CheckStep, RaiseSaveStep DEF CallStep
<1>2. ASSUME NEW c \in Calls, NEW f \in Prints, ProxyOk(c, f) PROVE LeakInv'
  BY <1>2, ProxyOkStep
<1>3. CASE StartPoll \/ RecordPoll \/ RecordPollSave \/ PollRaiseSave
  BY <1>3, StartPollStep, RecordPollStep, PollRaiseSaveStep
<1>4. ASSUME NEW f \in Prints, NEW d \in Deltas, PollRow(f, d) PROVE LeakInv'
  BY <1>4, PollRowStep
<1>5. ASSUME NEW r \in Rows, dismiss(r) PROVE LeakInv'
  BY <1>5, DismissStep
<1>6. CASE DismissSave \/ ClearFindings
  BY <1>6, DismissSaveStep, ClearFindingsStep
<1>7. CASE (\E k \in Admins : set(k)) \/ SetSave \/ clear \/ ClearSave
  BY <1>7, DetectionStep
<1>8. CASE Tick
  BY <1>8, TickStep
<1>9. CASE UNCHANGED vars
  BY <1>9 DEF vars, history, LeakInv, Stored, Jobs, Fresh
<1>10. QED
  BY <1>1, <1>2, <1>3, <1>4, <1>5, <1>6, <1>7, <1>8, <1>9 DEF Next

\* Whatever counts the overlapping saves of a baseline lose, a volume finding
\* never names more calls than its key made in one hour, and every poll finding
\* exceeds the tolerance (onProxyOk, onProviderPollResult, raise).
THEOREM LeakFindingsEarned == Spec => []FindingsAreEarned
<1>1. LeakInv => FindingsAreEarned
  <2> SUFFICES ASSUME LeakInv, NEW r \in Rows, findings[r] # None
               PROVE  IF r[1] = "B"
                      THEN /\ findings[r].observed >= Floor
                           /\ \E h \in Hours : made[r[2]][h] >= findings[r].observed
                      ELSE shouldRaiseSignalA([upstream |-> findings[r].observed,
                                               local |-> findings[r].expected])
    BY DEF FindingsAreEarned
  <2>1. Earned(r, findings[r], made)
    BY DEF LeakInv, Stored, EarnedList
  <2>2. QED
    BY <2>1 DEF Earned
<1>2. QED
  BY <1>1, LeakInit, LeakStep, PTL DEF Spec

-----------------------------------------------------------------------------
(* Dismissal.                                                              *)

Reopens(r) ==
    findings[r] # None /\ findings[r].status = "dismissed"
    /\ findings'[r] # None /\ findings'[r].status = "open"

Allowed(r) ==
    findings'[r].observed > findings[r].mark \/ \E p \in stale : job[p] # job'[p]

\* A raise from the stored list reopens a row only for more than was observed
\* when it was dismissed.
LEMMA RaiseRespects ==
    ASSUME LeakInv, NEW p \in Procs, job[p].at \in {"saving", "raising"}, raise(p),
           job'[p] # job[p], NEW r \in Rows, Reopens(r)
    PROVE  Allowed(r)
<1> SUFFICES ASSUME p \notin stale PROVE Allowed(r)
  BY DEF Allowed
<1> DEFINE in == job[p].input
           l == job[p].loaded
<1>1. in.row \in Rows /\ Earned(in.row, in, made) /\ l = findings
  BY DEF LeakInv, Jobs, JobHolds, Fresh, Holding
<1>2. ~ suppressed(l[in.row], in)
  BY DEF raise, Reopens
<1>3. findings' = [l EXCEPT ![in.row] = Updated(l[in.row], in)]
  BY <1>2 DEF raise, SaveFindings
<1> HIDE DEF in, l
<1>4. EarnedList(findings, made)
  BY DEF LeakInv, Stored
<1>5. r = in.row
  <2> SUFFICES ASSUME r # in.row PROVE FALSE
    OBVIOUS
  <2>1. findings'[r] = findings[r]
    BY <1>1, <1>3, <1>4 DEF EarnedList
  <2>2. QED
    BY <2>1 DEF Reopens
<1>6. findings'[r] = Updated(findings[r], in)
  BY <1>1, <1>3, <1>4, <1>5 DEF EarnedList
<1>7. findings'[r].observed = in.observed
  BY <1>6 DEF Updated
<1>8. in.observed \in Nat /\ findings[r].mark \in Nat
  BY <1>1, <1>4 DEF Earned, EarnedList, IsRow, Reopens
<1>9. ~ (in.observed <= findings[r].mark)
  BY <1>1, <1>2, <1>5 DEF suppressed, Reopens
<1>10. QED
  BY <1>7, <1>8, <1>9 DEF Allowed

\* A dismissal opens nothing that is dismissed in the list it was loaded from.
LEMMA DismissRespects ==
    ASSUME LeakInv, DismissSave, NEW r \in Rows, Reopens(r)
    PROVE  Allowed(r)
<1> DEFINE k == job["user"].input
           l == job["user"].loaded
<1>0. "user" \in Procs
  BY DEF Procs
<1>1. Done("user") /\ job["user"].at = "dismissing"
      /\ findings' = [l EXCEPT ![k] = [l[k] EXCEPT !.status = "dismissed", !.mark = l[k].observed]]
  BY DEF DismissSave, SaveFindings, At
<1>2. job'["user"] # job["user"]
  BY <1>0, <1>1, DoneMoves DEF Idle
<1> SUFFICES ASSUME "user" \notin stale PROVE Allowed(r)
  BY <1>2 DEF Allowed
<1>3. l = findings /\ k \in Rows /\ l[k] # None
  BY <1>0, <1>1 DEF LeakInv, Jobs, JobHolds, Fresh, Holding
<1> HIDE DEF k, l
<1>4. EarnedList(findings, made)
  BY DEF LeakInv, Stored
<1>5. CASE r # k
  <2>1. findings'[r] = findings[r]
    BY <1>1, <1>3, <1>4, <1>5 DEF EarnedList
  <2>2. QED
    BY <2>1 DEF Reopens
<1>6. CASE r = k
  <2>1. IsRow(findings[r])
    BY <1>3, <1>4, <1>6 DEF EarnedList
  <2>2. findings'[r] = [findings[r] EXCEPT !.status = "dismissed", !.mark = findings[r].observed]
    BY <1>1, <1>3, <1>4, <1>6 DEF EarnedList
  <2>3. findings'[r].status = "dismissed"
    BY <2>1, <2>2 DEF IsRow
  <2>4. QED
    BY <2>3 DEF Reopens
<1>7. QED
  BY <1>5, <1>6

\* A dismissed finding comes back only for more than was observed when it was
\* dismissed, or because a list loaded before the dismissal is saved over it
\* (raise and dismiss of leak-findings.ts, between the load and the save).
THEOREM LeakDismissalHolds == Spec => DismissalHolds
<1> DEFINE Holds == \A r \in Rows : Reopens(r) => Allowed(r)
<1>1. LeakInv /\ [Next]_vars => Holds
  <2> SUFFICES ASSUME LeakInv, [Next]_vars, NEW r \in Rows, Reopens(r) PROVE Allowed(r)
    OBVIOUS
  <2>1. findings' # findings
    BY DEF Reopens
  <2>2. ASSUME NEW c \in Calls, RaiseSave(c) PROVE Allowed(r)
    <3>1. c \in Procs /\ job[c].at = "saving" /\ Done(c) /\ raise(c)
      BY <2>2 DEF Procs, RaiseSave, At
    <3>2. job'[c] # job[c]
      BY <3>1, DoneMoves DEF Idle
    <3>3. QED
      BY <3>1, <3>2, RaiseRespects
  <2>3. CASE PollRaiseSave
    <3>1. "poll" \in Procs /\ job["poll"].at = "raising" /\ raise("poll")
      BY <2>3 DEF Procs, PollRaiseSave, At
    <3>2. IsJob(job["poll"]) /\ job = [q \in Procs |-> job[q]]
      BY <3>1 DEF LeakInv, Jobs
    <3>3. job'["poll"].at = "polling"
      BY <2>3, <3>1, <3>2 DEF PollRaiseSave, IsJob
    <3>4. QED
      BY <3>1, <3>3, RaiseRespects
  <2>4. CASE DismissSave
    BY <2>4, DismissRespects
  <2>5. CASE ClearFindings
    BY <2>5 DEF ClearFindings, SaveFindings, Reopens
  <2>6. QED
    BY <2>1, <2>2, <2>3, <2>4, <2>5 DEF Next, CallStep, vars, ProxyOk, Reload, SaveBaseline,
       CheckLoad, Check, StartPoll, RecordPoll, RecordPollSave, PollRow, dismiss, set, SetSave,
       clear, ClearSave, Tick
<1>2. Holds <=> \A r \in Rows :
           (findings[r] # None /\ findings[r].status = "dismissed"
            /\ findings'[r] # None /\ findings'[r].status = "open") =>
               \/ findings'[r].observed > findings[r].mark
               \/ \E p \in stale : job[p] # job'[p]
  BY DEF Reopens, Allowed
<1> HIDE DEF Holds
<1>3. QED
  BY <1>1, <1>2, LeakInit, LeakStep, PTL DEF Spec, DismissalHolds

-----------------------------------------------------------------------------
(* Watchtower.  Nothing is dated later than today, and no use of a grant is *)
(* older than the grant.                                                   *)

Dated == \A u \in uses : u.ts \in Nat /\ u.ts <= today

EntriesDated ==
    /\ entries = [k \in KeyIds |-> entries[k]]
    /\ \A k \in KeyIds : entries[k] # Absent =>
           entries[k].createdAt \in Nat /\ entries[k].createdAt <= today

GrantsDated ==
    /\ grants = [g \in Grants |-> grants[g]]
    /\ \A g \in Grants : grants[g] # Absent =>
           /\ grants[g].grantedAt \in Nat /\ grants[g].grantedAt <= today
           /\ \A u \in uses : u.grantId = g => grants[g].grantedAt <= u.ts

WatchInv == today \in Nat /\ Dated /\ EntriesDated /\ GrantsDated

LEMMA WatchInitInv == WatchInit => WatchInv
BY DEF WatchInit, WatchInv, Dated, EntriesDated, GrantsDated

LEMMA WatchStep == WatchInv /\ [WatchNext]_watchVars => WatchInv'
<1> SUFFICES ASSUME WatchInv, [WatchNext]_watchVars PROVE WatchInv'
  OBVIOUS
<1> USE DEF WatchInv, Dated, EntriesDated, GrantsDated
<1>1. ASSUME NEW k \in KeyIds, NEW s \in Secrets, AddEntry(k, s) PROVE WatchInv'
  <2>1. entries' = [j \in KeyIds |-> entries'[j]]
    BY <1>1 DEF AddEntry
  <2>2. \A j \in KeyIds : j # k => entries'[j] = entries[j]
    BY <1>1 DEF AddEntry
  <2>3. entries'[k].createdAt = today
    BY <1>1 DEF AddEntry
  <2>4. EntriesDated'
    BY <1>1, <2>1, <2>2, <2>3 DEF AddEntry
  <2>5. QED
    BY <1>1, <2>4 DEF AddEntry
<1>2. ASSUME NEW k \in KeyIds, RemoveEntry(k) PROVE WatchInv'
  BY <1>2 DEF RemoveEntry
<1>3. ASSUME NEW g \in Grants, NEW k \in KeyIds, Allow(g, k) PROVE WatchInv'
  <2>1. grants' = [h \in Grants |-> grants'[h]]
    BY <1>3 DEF Allow
  <2>2. \A h \in Grants : h # g => grants'[h] = grants[h]
    BY <1>3 DEF Allow
  <2>3. grants'[g].grantedAt = today /\ \A u \in uses : u.grantId # g
    BY <1>3 DEF Allow
  <2>4. GrantsDated'
    BY <1>3, <2>1, <2>2, <2>3 DEF Allow
  <2>5. QED
    BY <1>3, <2>4 DEF Allow
<1>4. ASSUME NEW g \in Grants, Use(g) PROVE WatchInv'
  <2> DEFINE new == [keyId |-> grants[g].keyId, grantId |-> g, ts |-> today]
  <2>1. \A u \in uses' : u \in uses \/ u = new
    BY <1>4 DEF Use, audit
  <2>2. new.ts = today /\ new.grantId = g
    OBVIOUS
  <2> HIDE DEF new
  <2>3. Dated' /\ today' \in Nat
    BY <1>4, <2>1, <2>2 DEF Use
  <2>4. EntriesDated' /\ grants' = grants
    BY <1>4 DEF Use
  <2>5. GrantsDated'
    BY <1>4, <2>1, <2>2, <2>4 DEF Use
  <2>6. QED
    BY <2>3, <2>4, <2>5
<1>5. ASSUME NEW p \in Paths, DeleteFile(p) \/ \E v \in SUBSET Secrets, r \in BOOLEAN : WriteFile(p, v, r)
      PROVE  WatchInv'
  BY <1>5 DEF DeleteFile, WriteFile
<1>6. ASSUME NEW f \in runWatchtower, Dismiss(f) PROVE WatchInv'
  BY <1>6 DEF Dismiss
<1>7. CASE NextDay
  BY <1>7 DEF NextDay
<1>8. CASE UNCHANGED watchVars
  BY <1>8 DEF watchVars
<1>9. QED
  BY <1>1, <1>2, <1>3, <1>4, <1>5, <1>6, <1>7, <1>8 DEF WatchNext

-----------------------------------------------------------------------------
(* The operators.                                                          *)

AllFindings ==
    {f \in staleRotation \cup staleUnused \cup grantZombie \cup diskPlaintext
           \cup vaultDuplicate : f.id \notin dismissed}

MostSevereOf(A) ==
    {f \in A : \A g \in A : g.id = f.id => severityRank(g.severity) <= severityRank(f.severity)}

Ranked == {"low", "medium", "high"}

LEMMA RunIsMostSevere == runWatchtower = MostSevereOf(AllFindings)
BY DEF runWatchtower, MostSevereOf, AllFindings

LEMMA Ranks ==
    /\ severityRank("low") = 1 /\ severityRank("medium") = 2 /\ severityRank("high") = 3
    /\ \A s \in Ranked : severityRank(s) \in {1, 2, 3}
BY DEF severityRank, Ranked

\* The merge keeps a finding of every id, at least as severe as any of that id.
LEMMA MergeKeeps ==
    ASSUME NEW A, \A f \in A : f.severity \in Ranked, NEW a \in A
    PROVE  \E b \in MostSevereOf(A) :
               b.id = a.id /\ severityRank(b.severity) >= severityRank(a.severity)
<1> DEFINE R(f) == severityRank(f.severity)
           S == {f \in A : f.id = a.id}
<1>1. \A f \in A : R(f) \in {1, 2, 3}
  BY Ranks
<1> HIDE DEF R
<1>2. \E b \in S : \A g \in S : R(g) <= R(b)
  <2>1. CASE \E b \in S : R(b) = 3
    BY <1>1, <2>1
  <2>2. CASE (\A f \in S : R(f) # 3) /\ \E b \in S : R(b) = 2
    BY <1>1, <2>2
  <2>3. CASE \A f \in S : R(f) # 3 /\ R(f) # 2
    BY <1>1, <2>3
  <2>4. QED
    BY <2>1, <2>2, <2>3
<1>3. PICK b \in S : \A g \in S : R(g) <= R(b)
  BY <1>2
<1>4. b.id = a.id /\ R(b) >= R(a)
  BY <1>1, <1>3
<1>5. b \in MostSevereOf(A)
  BY <1>3 DEF MostSevereOf, R
<1>6. QED
  BY <1>4, <1>5 DEF R

\* When a grant was last used, or given.
LastUse(g) ==
    LET used == LastOf({u \in audit : u.grantId = g})
    IN IF used = {} THEN {grants[g].grantedAt} ELSE used

ZombieIf(g, t) == Past(grants[g].grantedAt, Zombie) /\ Past(t, Zombie)

ZombieOf(g, t) == Finding(<<"grant.zombie", g>>, ZombieSeverity(DaysSince(t)))

ZombieMembers ==
    \A f : f \in grantZombie <=>
        \E g \in Present(grants) : \E t \in LastUse(g) :
            ZombieIf(g, t) /\ f = ZombieOf(g, t)

ZombiesOf(g) == {ZombieOf(g, t) : t \in {s \in LastUse(g) : ZombieIf(g, s)}}

LEMMA ZombieIsMembers == ZombieMembers
<1>1. grantZombie = UNION {ZombiesOf(g) : g \in Present(grants)}
  BY Zenon DEF grantZombie, LastUse, ZombieIf, ZombieOf, ZombiesOf
<1>2. \A f : f \in grantZombie <=> \E g \in Present(grants) : f \in ZombiesOf(g)
  BY <1>1
<1>3. ASSUME NEW f, NEW g
      PROVE  f \in ZombiesOf(g) <=> \E t \in LastUse(g) : ZombieIf(g, t) /\ f = ZombieOf(g, t)
  BY DEF ZombiesOf
<1>4. QED
  BY <1>2, <1>3 DEF ZombieMembers

AllRanked == \A f \in AllFindings : f.severity \in Ranked

LEMMA FindingsRanked == AllRanked
<1>1. \A f \in staleRotation : f.severity \in Ranked
  BY DEF staleRotation, Finding, Ranked
<1>2. \A f \in staleUnused : f.severity \in Ranked
  BY DEF staleUnused, Finding, Ranked
<1>3. \A f \in grantZombie : f.severity \in Ranked
  BY ZombieIsMembers DEF ZombieMembers, ZombieOf, Finding, Ranked, ZombieSeverity
<1>4. \A f \in diskPlaintext : f.severity \in Ranked
  BY DEF diskPlaintext, Finding, Ranked
<1>5. \A f \in vaultDuplicate : f.severity \in Ranked
  BY DEF vaultDuplicate, Finding, Ranked
<1>6. QED
  BY <1>1, <1>2, <1>3, <1>4, <1>5 DEF AllFindings, AllRanked

LEMMA RankedNext == AllRanked'
BY FindingsRanked, PTL

\* There is a last one of some events.
LEMMA LastExists ==
    ASSUME NEW E, NEW n \in Nat, \A u \in E : u.ts \in Nat /\ u.ts <= n, E # {}
    PROVE  \E v \in E : \A w \in E : w.ts <= v.ts
<1> DEFINE ages == {n - u.ts : u \in E}
<1>1. ages \subseteq Nat /\ ages # {}
  OBVIOUS
<1>2. PICK x \in ages : \A y \in ages : ~ (<<y, x>> \in OpToRel(<, Nat))
  BY <1>1, NatLessThanWellFounded, WFMin
<1>3. PICK v \in E : x = n - v.ts
  BY <1>2
<1>4. ASSUME NEW w \in E PROVE w.ts <= v.ts
  <2>1. n - w.ts \in ages
    OBVIOUS
  <2>2. ~ (n - w.ts < n - v.ts)
    BY <1>1, <1>2, <1>3, <2>1 DEF OpToRel
  <2>3. QED
    BY <2>2
<1>5. QED
  BY <1>3, <1>4

LEMMA LastOfEvents ==
    ASSUME NEW E, NEW n \in Nat, \A u \in E : u.ts \in Nat /\ u.ts <= n
    PROVE  /\ \A t \in LastOf(E) : (\E u \in E : u.ts = t) /\ \A w \in E : w.ts <= t
           /\ E # {} => LastOf(E) # {}
BY LastExists DEF LastOf

\* The uses of a key and of a grant in the audit slice.
OfKey(k) == {u \in audit : u.keyId = k}
OfGrant(g) == {u \in audit : u.grantId = g}

UnusedOf(k) == Finding(<<"stale.unused", k>>, IF LastOf(OfKey(k)) = {} THEN "medium" ELSE "low")

UnusedIf(k) ==
    Past(entries[k].createdAt, Unused) /\ \A t \in LastOf(OfKey(k)) : Past(t, Unused)

UnusedMembers ==
    staleUnused = {UnusedOf(k) : k \in {j \in Present(entries) : UnusedIf(j)}}

LEMMA UnusedIsMembers == UnusedMembers
BY Zenon DEF UnusedMembers, staleUnused, OfKey, UnusedOf, UnusedIf

LEMMA UnusedNext == UnusedMembers'
BY UnusedIsMembers, PTL

\* The slice forgets no use that is recent enough to matter.
LEMMA SliceIsEnough ==
    ASSUME WatchInv, NEW u \in uses, ~ Past(u.ts, Unused)
    PROVE  u \in audit
<1>1. Unused * Day \in Nat /\ Slice \in Nat /\ Slice >= Unused * Day
  BY SliceAssumption DEF SliceAssumption
<1>2. u.ts \in Nat /\ today \in Nat
  BY DEF WatchInv, Dated
<1>3. ~ (u.ts + Unused * Day <= today)
  BY DEF Past
<1>4. u.ts + Slice >= today
  BY <1>1, <1>2, <1>3
<1>5. QED
  BY <1>4 DEF audit

LEMMA EventsDated ==
    ASSUME WatchInv
    PROVE  today \in Nat /\ \A u \in audit : u \in uses /\ u.ts \in Nat /\ u.ts <= today
BY DEF WatchInv, Dated, audit

LEMMA LastOfKey ==
    ASSUME WatchInv, NEW k
    PROVE  /\ \A t \in LastOf(OfKey(k)) : (\E u \in OfKey(k) : u.ts = t) /\ \A w \in OfKey(k) : w.ts <= t
           /\ OfKey(k) # {} => LastOf(OfKey(k)) # {}
<1>1. today \in Nat /\ \A u \in OfKey(k) : u.ts \in Nat /\ u.ts <= today
  BY EventsDated DEF OfKey
<1>2. QED
  BY <1>1, LastOfEvents

LEMMA LastOfGrant ==
    ASSUME WatchInv, NEW g
    PROVE  /\ \A t \in LastOf(OfGrant(g)) : (\E u \in OfGrant(g) : u.ts = t) /\ \A w \in OfGrant(g) : w.ts <= t
           /\ OfGrant(g) # {} => LastOf(OfGrant(g)) # {}
<1>1. today \in Nat /\ \A u \in OfGrant(g) : u.ts \in Nat /\ u.ts <= today
  BY EventsDated DEF OfGrant
<1>2. QED
  BY <1>1, LastOfEvents

\* What is later than a time in the past is not longer past.
LEMMA EarlierIsPast ==
    ASSUME today \in Nat, NEW s \in Nat, NEW t \in Nat, s <= t, NEW d \in Nat, Past(t, d)
    PROVE  Past(s, d)
<1>1. d * Day \in Nat
  BY SliceAssumption DEF SliceAssumption
<1>2. t + d * Day <= today
  BY DEF Past
<1>3. s + d * Day <= today
  BY <1>1, <1>2
<1>4. QED
  BY <1>3 DEF Past

LEMMA IdleKey ==
    ASSUME WatchInv, NEW k
    PROVE  (\A t \in LastOf(OfKey(k)) : Past(t, Unused))
               <=> ~ \E u \in uses : u.keyId = k /\ ~ Past(u.ts, Unused)
<1>0. Unused \in Nat /\ today \in Nat
  BY SliceAssumption DEF SliceAssumption, WatchInv
<1>1. ASSUME \A t \in LastOf(OfKey(k)) : Past(t, Unused), NEW u \in uses, u.keyId = k
      PROVE  Past(u.ts, Unused)
  <2> SUFFICES ASSUME ~ Past(u.ts, Unused) PROVE FALSE
    OBVIOUS
  <2>1. u \in OfKey(k)
    BY <1>1, SliceIsEnough DEF OfKey
  <2>2. PICK t \in LastOf(OfKey(k)) : TRUE
    BY <2>1, LastOfKey
  <2>3. u.ts <= t /\ u.ts \in Nat /\ t \in Nat
    BY <2>1, <2>2, LastOfKey, EventsDated DEF OfKey
  <2>4. QED
    BY <1>0, <1>1, <2>2, <2>3, EarlierIsPast
<1>2. ASSUME \A u \in uses : u.keyId = k => Past(u.ts, Unused), NEW t \in LastOf(OfKey(k))
      PROVE  Past(t, Unused)
  <2>1. PICK u \in OfKey(k) : u.ts = t
    BY LastOfKey
  <2>2. QED
    BY <1>2, <2>1, EventsDated DEF OfKey
<1>3. QED
  BY <1>1, <1>2

-----------------------------------------------------------------------------
(* The report.                                                             *)

RunIs == runWatchtower = MostSevereOf(AllFindings)

LEMMA RunNext == RunIs'
<1>1. RunIs
  BY RunIsMostSevere DEF RunIs
<1>2. QED
  BY <1>1, PTL

LEMMA ReportedIs == \A id : Reported(id) <=> \E f \in AllFindings : f.id = id
<1> SUFFICES ASSUME NEW id PROVE Reported(id) <=> \E f \in AllFindings : f.id = id
  OBVIOUS
<1>1. Reported(id) => \E f \in AllFindings : f.id = id
  BY RunIsMostSevere DEF Reported, MostSevereOf
<1>2. ASSUME NEW f \in AllFindings, f.id = id PROVE Reported(id)
  <2>1. \E b \in MostSevereOf(AllFindings) : b.id = f.id
    BY FindingsRanked, MergeKeeps DEF AllRanked
  <2>2. QED
    BY <1>2, <2>1, RunIsMostSevere DEF Reported
<1>3. QED
  BY <1>1, <1>2

\* The ids of the checks differ.
LEMMA UnusedIds ==
    ASSUME NEW k, NEW f \in AllFindings, f.id = <<"stale.unused", k>>
    PROVE  f \in staleUnused
<1>0. f.id[1] = "stale.unused"
  OBVIOUS
<1>1. f \notin staleRotation
  BY <1>0 DEF staleRotation, Finding
<1>2. f \notin grantZombie
  BY <1>0, ZombieIsMembers DEF ZombieMembers, ZombieOf, Finding
<1>3. f \notin diskPlaintext
  BY <1>0 DEF diskPlaintext, Finding
<1>4. f \notin vaultDuplicate
  BY <1>0 DEF vaultDuplicate, Finding
<1>5. QED
  BY <1>1, <1>2, <1>3, <1>4 DEF AllFindings

LEMMA UnusedReported ==
    ASSUME WatchInv, NEW k \in Present(entries)
    PROVE  Reported(<<"stale.unused", k>>) <=>
               /\ ~ \E u \in uses : u.keyId = k /\ ~ Past(u.ts, Unused)
               /\ Past(entries[k].createdAt, Unused)
               /\ <<"stale.unused", k>> \notin dismissed
<1>1. UnusedIf(k) <=> /\ Past(entries[k].createdAt, Unused)
                      /\ ~ \E u \in uses : u.keyId = k /\ ~ Past(u.ts, Unused)
  BY IdleKey DEF UnusedIf
<1>2. \A j : UnusedOf(j).id = <<"stale.unused", j>>
  BY DEF UnusedOf, Finding
<1>3. ASSUME Reported(<<"stale.unused", k>>)
      PROVE  UnusedIf(k) /\ <<"stale.unused", k>> \notin dismissed
  <2>1. PICK f \in AllFindings : f.id = <<"stale.unused", k>>
    BY <1>3, ReportedIs
  <2>2. f \in staleUnused
    BY <2>1, UnusedIds
  <2>3. PICK j \in Present(entries) : UnusedIf(j) /\ f = UnusedOf(j)
    BY <2>2, UnusedIsMembers DEF UnusedMembers
  <2>4. j = k
    BY <1>2, <2>1, <2>3
  <2>5. QED
    BY <2>1, <2>3, <2>4 DEF AllFindings
<1>4. ASSUME UnusedIf(k), <<"stale.unused", k>> \notin dismissed
      PROVE  Reported(<<"stale.unused", k>>)
  <2>1. UnusedOf(k) \in staleUnused
    BY <1>4, UnusedIsMembers DEF UnusedMembers
  <2>2. UnusedOf(k) \in AllFindings
    BY <1>2, <1>4, <2>1 DEF AllFindings
  <2>3. QED
    BY <1>2, <2>2, ReportedIs
<1>5. QED
  BY <1>1, <1>3, <1>4

LEMMA DiskReported ==
    ASSUME NEW k \in Present(entries), NEW p \in Present(files), files[p].readable,
           entries[k].secret \in files[p].values
    PROVE  \E j \in Present(entries) :
               /\ entries[j].secret = entries[k].secret
               /\ Reported(<<"disk.plaintext", j, p>>) \/ <<"disk.plaintext", j, p>> \in dismissed
<1> DEFINE v == entries[k].secret
           held == {i \in Present(entries) : entries[i].secret = v}
           j == CHOOSE i \in held : TRUE
           f == Finding(<<"disk.plaintext", j, p>>, "high")
<1>1. k \in held
  OBVIOUS
<1>2. j \in held
  BY <1>1
<1>3. matchAgainstVault(v) = {j}
  BY <1>1 DEF matchAgainstVault
<1>4. v \in extractCandidateValues(p)
  BY DEF extractCandidateValues
<1>5. j \in Present(entries) /\ entries[j].secret = entries[k].secret
  BY <1>2
<1> HIDE DEF j, held, v
<1>6. j \in UNION {matchAgainstVault(x) : x \in extractCandidateValues(p)}
  BY <1>3, <1>4
<1>7. f \in diskPlaintext
  BY <1>6 DEF diskPlaintext
<1>8. f.id = <<"disk.plaintext", j, p>>
  BY DEF Finding
<1>9. <<"disk.plaintext", j, p>> \notin dismissed => Reported(<<"disk.plaintext", j, p>>)
  BY <1>7, <1>8, ReportedIs DEF AllFindings
<1>10. QED
  BY <1>5, <1>9

\* A key used within the period is never called unused, an old one that was not
\* is, whatever the slice has dropped; and a plaintext in a readable file is
\* reported through an entry that holds it (runWatchtower and its checks).
THEOREM WatchReportIsRight == WatchSpec => []ReportIsRight
<1>1. WatchInv => ReportIsRight
  BY UnusedReported, DiskReported DEF ReportIsRight
<1>2. QED
  BY <1>1, WatchInitInv, WatchStep, PTL DEF WatchSpec

-----------------------------------------------------------------------------
(* The passing of a day.                                                   *)

LEMMA DivMonotone ==
    ASSUME NEW a \in Nat, NEW b \in Nat, a <= b, NEW d \in Nat \ {0}
    PROVE  a \div d \in Nat /\ b \div d \in Nat /\ a \div d <= b \div d
<1>1. a \div d \in Nat /\ b \div d \in Nat
  OBVIOUS
<1>2. a \div d <= b \div d
  OBVIOUS
<1>3. QED
  BY <1>1, <1>2

\* The full days since a time grow with the day, and with how early the time is.
LEMMA DaysGrow ==
    ASSUME today \in Nat, today' = today + 1, NEW s \in Nat, NEW t \in Nat, s <= t, t <= today
    PROVE  DaysSince(t) \in Nat /\ DaysSince(s)' \in Nat /\ DaysSince(t) <= DaysSince(s)'
<1>1. Day \in Nat \ {0}
  BY SliceAssumption DEF SliceAssumption
<1>2. today - t \in Nat /\ today' - s \in Nat /\ today - t <= today' - s
  OBVIOUS
<1>3. QED
  BY <1>1, <1>2, DivMonotone DEF DaysSince

LEMMA PastStays ==
    ASSUME today \in Nat, today' = today + 1, NEW t \in Nat, NEW d \in Nat, Past(t, d)
    PROVE  Past(t, d)'
<1>1. d * Day \in Nat
  BY SliceAssumption DEF SliceAssumption
<1>2. t + d * Day <= today
  BY DEF Past
<1>3. t + d * Day <= today'
  BY <1>1, <1>2
<1>4. QED
  BY <1>3 DEF Past

\* What the slice holds tomorrow it holds today.
LEMMA SliceShrinks ==
    ASSUME WatchInv, NextDay
    PROVE  audit' \subseteq audit
<1> SUFFICES ASSUME NEW u \in uses, u.ts + Slice >= today' PROVE u.ts + Slice >= today
  BY DEF audit, NextDay
<1>1. u.ts \in Nat /\ today \in Nat /\ today' = today + 1 /\ Slice \in Nat
  BY SliceAssumption DEF SliceAssumption, WatchInv, Dated, NextDay
<1>2. QED
  BY <1>1

Keeps(f) ==
    \E g \in staleRotation' \cup staleUnused' \cup grantZombie' \cup diskPlaintext'
             \cup vaultDuplicate' :
        g.id = f.id /\ severityRank(g.severity) >= severityRank(f.severity)

LEMMA RotationKeeps ==
    ASSUME WatchInv, NextDay, NEW f \in staleRotation
    PROVE  Keeps(f)
<1> DEFINE Sev(a) == IF a > 2 * Rotation THEN "high" ELSE IF 2 * a > 3 * Rotation THEN "medium" ELSE "low"
<1>1. today \in Nat /\ today' = today + 1 /\ UNCHANGED entries /\ Rotation \in Nat
  BY ThresholdsAssumption DEF ThresholdsAssumption, WatchInv, NextDay
<1>2. PICK k \in Present(entries) :
          /\ Past(entries[k].createdAt, Rotation)
          /\ f = Finding(<<"stale.rotation", k>>, Sev(DaysSince(entries[k].createdAt)))
  BY DEF staleRotation
<1> DEFINE t == entries[k].createdAt
           g == Finding(<<"stale.rotation", k>>, Sev(DaysSince(t)'))
<1>3. t \in Nat /\ t <= today
  BY DEF WatchInv, EntriesDated, Present
<1>4. k \in Present(entries') /\ Past(t, Rotation)' /\ t' = t
  BY <1>1, <1>2, <1>3, PastStays DEF Present
<1>5. DaysSince(t) \in Nat /\ DaysSince(t)' \in Nat /\ DaysSince(t) <= DaysSince(t)'
  BY <1>1, <1>3, <1>4, DaysGrow
<1>6. g \in staleRotation'
  BY <1>4 DEF staleRotation, Past, DaysSince
<1>7. g.id = f.id /\ g.severity = Sev(DaysSince(t)') /\ f.severity = Sev(DaysSince(t))
  BY <1>2 DEF Finding
<1> HIDE DEF g, t
<1>8. severityRank(Sev(DaysSince(t)')) >= severityRank(Sev(DaysSince(t)))
  BY <1>1, <1>5, Ranks
<1>9. QED
  BY <1>6, <1>7, <1>8 DEF Keeps

LEMMA UnusedKeeps ==
    ASSUME WatchInv, NextDay, NEW f \in staleUnused
    PROVE  Keeps(f)
<1>1. today \in Nat /\ today' = today + 1 /\ UNCHANGED <<entries, uses>> /\ Unused \in Nat
  BY SliceAssumption DEF SliceAssumption, WatchInv, NextDay
<1>2. WatchInv'
  BY WatchStep DEF WatchNext
<1>3. PICK k \in Present(entries) : UnusedIf(k) /\ f = UnusedOf(k)
  BY UnusedIsMembers DEF UnusedMembers
<1>4. entries[k].createdAt \in Nat
  BY DEF WatchInv, EntriesDated, Present
<1>5. Past(entries[k].createdAt, Unused)'
  BY <1>1, <1>3, <1>4, PastStays DEF UnusedIf
<1>6. OfKey(k)' \subseteq OfKey(k)
  BY SliceShrinks DEF OfKey
<1>7. ASSUME NEW t \in LastOf(OfKey(k)') PROVE Past(t, Unused)'
  <2>1. PICK u \in OfKey(k)' : u.ts = t
    BY DEF LastOf
  <2>2. PICK s \in LastOf(OfKey(k)) : u.ts <= s
    BY <1>6, <2>1, LastOfKey
  <2>3. u.ts \in Nat /\ s \in Nat
    BY <1>6, <2>1, <2>2, LastOfKey, EventsDated DEF OfKey
  <2>4. Past(u.ts, Unused)
    BY <1>1, <1>3, <2>2, <2>3, EarlierIsPast DEF UnusedIf
  <2>5. QED
    BY <1>1, <2>1, <2>3, <2>4, PastStays DEF Past
<1>8. UnusedIf(k)' /\ k \in Present(entries')
  BY <1>1, <1>5, <1>7 DEF UnusedIf, Past, Present
<1>9. UnusedOf(k)' \in staleUnused'
  BY <1>8, UnusedNext DEF UnusedMembers, Present
<1>10. LastOf(OfKey(k)) = {} => LastOf(OfKey(k)') = {}
  BY <1>6, LastOfKey DEF LastOf
<1>11. UnusedOf(k)'.id = f.id
  BY <1>3 DEF UnusedOf, Finding
<1>12. severityRank(UnusedOf(k)'.severity) >= severityRank(f.severity)
  <2>1. UnusedOf(k)'.severity = IF LastOf(OfKey(k)') = {} THEN "medium" ELSE "low"
    BY DEF UnusedOf, Finding
  <2>2. f.severity = IF LastOf(OfKey(k)) = {} THEN "medium" ELSE "low"
    BY <1>3 DEF UnusedOf, Finding
  <2>3. QED
    BY <1>10, <2>1, <2>2, Ranks
<1>13. QED
  BY <1>9, <1>11, <1>12 DEF Keeps

\* The slice may forget a grant's last use, which then counts from when it was
\* given: no later.
LEMMA LastUseKeeps ==
    ASSUME WatchInv, NextDay, NEW g \in Present(grants), NEW t \in LastUse(g)
    PROVE  /\ t \in Nat /\ t <= today
           /\ \E s \in LastUse(g)' : s \in Nat /\ s <= t /\ (s = t \/ s = grants[g].grantedAt)
<1>1. today \in Nat /\ today' = today + 1 /\ UNCHANGED <<grants, uses>>
  BY DEF WatchInv, NextDay
<1>2. WatchInv'
  BY WatchStep DEF WatchNext
<1>3. /\ grants[g].grantedAt \in Nat /\ grants[g].grantedAt <= today
      /\ \A u \in OfGrant(g) : grants[g].grantedAt <= u.ts /\ u.ts \in Nat /\ u.ts <= today
  BY EventsDated DEF WatchInv, GrantsDated, Present, OfGrant, audit
<1>4. OfGrant(g)' \subseteq OfGrant(g)
  BY SliceShrinks DEF OfGrant
<1>5. LastUse(g) = IF LastOf(OfGrant(g)) = {} THEN {grants[g].grantedAt} ELSE LastOf(OfGrant(g))
  BY DEF LastUse, OfGrant
<1>6. LastUse(g)' = IF LastOf(OfGrant(g)') = {} THEN {grants[g].grantedAt} ELSE LastOf(OfGrant(g)')
  BY <1>1 DEF LastUse, OfGrant
<1>7. CASE LastOf(OfGrant(g)) = {}
  <2>1. OfGrant(g)' = {} /\ LastOf(OfGrant(g)') = {}
    BY <1>4, <1>7, LastOfGrant DEF LastOf
  <2>2. QED
    BY <1>3, <1>5, <1>6, <1>7, <2>1
<1>8. CASE LastOf(OfGrant(g)) # {}
  <2>1. (\E u \in OfGrant(g) : u.ts = t) /\ \A w \in OfGrant(g) : w.ts <= t
    BY <1>5, <1>8, LastOfGrant
  <2>2. t \in Nat /\ t <= today /\ grants[g].grantedAt <= t
    BY <1>3, <2>1
  <2>3. CASE LastOf(OfGrant(g)') = {}
    BY <1>3, <1>6, <2>2, <2>3
  <2>4. ASSUME NEW s \in LastOf(OfGrant(g)') PROVE s \in LastUse(g)' /\ s \in Nat /\ s <= t /\ s = t
    <3>1. PICK u \in OfGrant(g)' : u.ts = s /\ \A w \in OfGrant(g)' : w.ts <= s
      BY DEF LastOf
    <3>2. s \in Nat /\ s <= t
      BY <1>3, <1>4, <2>1, <3>1
    <3>3. PICK v \in OfGrant(g) : v.ts = t
      BY <2>1
    <3>4. v \in OfGrant(g)'
      <4>1. v \in uses /\ v.grantId = g
        BY <3>3 DEF OfGrant, audit
      <4>2. u.ts + Slice >= today' /\ Slice \in Nat
        BY <3>1, SliceAssumption DEF OfGrant, audit, SliceAssumption
      <4>3. v.ts + Slice >= today'
        BY <1>1, <2>2, <3>1, <3>2, <3>3, <4>2
      <4>4. QED
        BY <1>1, <4>1, <4>3 DEF OfGrant, audit
    <3>5. s = t
      BY <2>2, <3>1, <3>2, <3>3, <3>4
    <3>6. QED
      BY <1>6, <3>2, <3>5
  <2>5. QED
    BY <2>2, <2>3, <2>4
<1>9. QED
  BY <1>7, <1>8

LEMMA ZombieNext == ZombieMembers'
BY ZombieIsMembers, PTL

LEMMA ZombieKeeps ==
    ASSUME WatchInv, NextDay, NEW f \in grantZombie
    PROVE  Keeps(f)
<1>1. today \in Nat /\ today' = today + 1 /\ UNCHANGED grants /\ Zombie \in Nat
  BY ThresholdsAssumption DEF ThresholdsAssumption, WatchInv, NextDay
<1>2. PICK g \in Present(grants) : \E t \in LastUse(g) : ZombieIf(g, t) /\ f = ZombieOf(g, t)
  BY ZombieIsMembers DEF ZombieMembers
<1>3. PICK t \in LastUse(g) : ZombieIf(g, t) /\ f = ZombieOf(g, t)
  BY <1>2
<1>4. PICK s \in LastUse(g)' : s \in Nat /\ s <= t /\ (s = t \/ s = grants[g].grantedAt)
  BY LastUseKeeps
<1>5. t \in Nat /\ t <= today /\ grants[g].grantedAt \in Nat
  BY LastUseKeeps DEF WatchInv, GrantsDated, Present
<1>6. Past(grants[g].grantedAt, Zombie)' /\ Past(s, Zombie)
  BY <1>1, <1>3, <1>4, <1>5, PastStays DEF ZombieIf
<1>7. Past(s, Zombie)'
  BY <1>1, <1>4, <1>6, PastStays
<1>8. g \in Present(grants)' /\ ZombieIf(g, s)'
  BY <1>1, <1>6, <1>7 DEF ZombieIf, Present, Past
<1>9. ZombieOf(g, s)' \in grantZombie'
  BY <1>4, <1>8, ZombieNext DEF ZombieMembers
<1>10. DaysSince(t) \in Nat /\ DaysSince(s)' \in Nat /\ DaysSince(t) <= DaysSince(s)'
  BY <1>1, <1>4, <1>5, DaysGrow
<1>11. /\ ZombieOf(g, s)'.id = f.id
       /\ ZombieOf(g, s)'.severity = ZombieSeverity(DaysSince(s)')
       /\ f.severity = ZombieSeverity(DaysSince(t))
  BY <1>3 DEF ZombieOf, Finding, ZombieSeverity
<1>12. severityRank(ZombieOf(g, s)'.severity) >= severityRank(f.severity)
  BY <1>1, <1>10, <1>11, Ranks DEF ZombieSeverity
<1>13. QED
  BY <1>9, <1>11, <1>12 DEF Keeps

LEMMA OthersKeep ==
    ASSUME NextDay, NEW f \in diskPlaintext \cup vaultDuplicate
    PROVE  Keeps(f)
<1>1. UNCHANGED <<entries, files>>
  BY DEF NextDay
<1>2. diskPlaintext' = diskPlaintext
  BY <1>1 DEF diskPlaintext, Present, extractCandidateValues, matchAgainstVault
<1>3. vaultDuplicate' = vaultDuplicate
  BY <1>1 DEF vaultDuplicate, Present
<1>4. severityRank(f.severity) \in {1, 2, 3}
  <2>1. f.severity \in Ranked
    BY DEF diskPlaintext, vaultDuplicate, Finding, Ranked
  <2>2. QED
    BY <2>1, Ranks
<1>5. severityRank(f.severity) >= severityRank(f.severity)
  BY <1>4
<1>6. QED
  BY <1>2, <1>3, <1>5 DEF Keeps

LEMMA DayKeeps ==
    ASSUME WatchInv, NextDay, NEW f \in runWatchtower
    PROVE  \E g \in runWatchtower' :
               g.id = f.id /\ severityRank(g.severity) >= severityRank(f.severity)
<1>1. f \in AllFindings /\ f.severity \in Ranked
  BY RunIsMostSevere, FindingsRanked DEF MostSevereOf, AllRanked
<1>2. Keeps(f)
  BY <1>1, RotationKeeps, UnusedKeeps, ZombieKeeps, OthersKeep DEF AllFindings
<1>3. dismissed' = dismissed /\ f.id \notin dismissed
  BY <1>1 DEF NextDay, AllFindings
<1>4. PICK g \in AllFindings' : g.id = f.id /\ severityRank(g.severity) >= severityRank(f.severity)
  BY <1>2, <1>3 DEF Keeps, AllFindings
<1>5. PICK b \in MostSevereOf(AllFindings') :
          b.id = g.id /\ severityRank(b.severity) >= severityRank(g.severity)
  BY RankedNext, MergeKeeps DEF AllRanked
<1>6. b \in runWatchtower' /\ b.id = f.id
  BY <1>4, <1>5, RunNext DEF RunIs, MostSevereOf
<1>7. b.severity \in Ranked /\ g.severity \in Ranked
  BY <1>5, RankedNext DEF AllRanked, MostSevereOf
<1>8. severityRank(b.severity) >= severityRank(f.severity)
  <2> DEFINE x == severityRank(b.severity)
             y == severityRank(g.severity)
             z == severityRank(f.severity)
  <2>1. x \in {1, 2, 3} /\ y \in {1, 2, 3} /\ z \in {1, 2, 3} /\ x >= y /\ y >= z
    BY <1>1, <1>4, <1>5, <1>7, Ranks
  <2> HIDE DEF x, y, z
  <2>2. x >= z
    BY <2>1
  <2>3. QED
    BY <2>2 DEF x, z
<1>9. QED
  BY <1>6, <1>8

\* Waiting clears no finding and softens none: neither the aging of a key, nor
\* an event that drops out of the audit slice (staleUnused, grantZombie).
THEOREM WatchTimeNeverClears == WatchSpec => TimeNeverClears
<1> DEFINE NothingFades ==
        today' > today =>
            \A f \in runWatchtower : \E g \in runWatchtower' :
                g.id = f.id /\ severityRank(g.severity) >= severityRank(f.severity)
<1>1. WatchInv /\ [WatchNext]_watchVars => NothingFades
  <2> SUFFICES ASSUME WatchInv, [WatchNext]_watchVars, today' > today PROVE NothingFades
    OBVIOUS
  <2>1. today' # today
    BY DEF WatchInv
  <2>2. NextDay
    BY <2>1 DEF WatchNext, watchVars, AddEntry, RemoveEntry, Allow, Use, DeleteFile, WriteFile, Dismiss
  <2>3. QED
    BY <2>2, DayKeeps
<1>2. QED
  BY <1>1, WatchInitInv, WatchStep, PTL DEF WatchSpec, TimeNeverClears
=============================================================================
