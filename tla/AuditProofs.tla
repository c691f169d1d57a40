------------------------------- MODULE AuditProofs -----------------------------
(***************************************************************************)
(* Theorems about Audit, for every tail, store, clock, page size and       *)
(* filter, and any number of failures and deaths: the import of the legacy *)
(* tail, and the walk through the pages of a query.                        *)
(***************************************************************************)
EXTENDS Audit, FiniteSetTheorems, NaturalsInduction, WellFoundedInduction, TLAPS

\* The entries of the tail that mapEntry accepts, and those that are settled.
Accepted == {i \in Entries : mapEntry(i) # {}}
Settled == imported \cup failed

\* The events that wait for the database: of the entry the replay is at, while it
\* waits for it, and of no entry else.
Waiting ==
    /\ DOMAIN waiting = 1..Len(waiting) /\ Len(waiting) \in Nat
    /\ phase = "appending" => Importing = {entry}
    /\ phase # "appending" => Importing = {}

\* How far the replay is, and what it has settled by then.
Replayed ==
    /\ entry \in Nat
    /\ phase \in {"append", "appending"} => \A i \in Accepted : i < entry => i \in Settled
    /\ phase = "flagged" => flag
    /\ NoLegacyLost

\* In the first life of the worker nothing is imported that the replay is not past.
FirstLife ==
    /\ deaths \in Nat
    /\ deaths = 0 =>
           /\ again = {}
           /\ phase \in {"off", "load"} => imported = {}
           /\ phase \in {"append", "appending"} => \A i \in imported : i < entry

Migration == Waiting /\ Replayed /\ FirstLife /\ imported \subseteq Nat

-----------------------------------------------------------------------------
LEMMA TailAssumption == Len(Legacy) \in Nat /\ Entries = 1..Len(Legacy)
BY LegacyAssumption DEF LegacyAssumption, Entries

LEMMA InitMigration == Init => Migration
BY DEF Init, Migration, Waiting, Importing, Replayed, FirstLife, NoLegacyLost

\* What a transaction of the store does to the entries imported.
LEMMA Appended ==
    ASSUME NEW events, AppendAll(events)
    PROVE  LET new == {events[i].from : i \in DOMAIN events} \ {0}
           IN  imported' = imported \cup new /\ again' = again \cup (imported \cap new)
BY DEF AppendAll

LEMMA OneAppended ==
    ASSUME NEW e, AppendAll(<<e>>)
    PROVE  /\ imported' = imported \cup ({e.from} \ {0})
           /\ again' = again \cup (imported \cap ({e.from} \ {0}))
<1>1. {<<e>>[i].from : i \in DOMAIN <<e>>} = {e.from}
  OBVIOUS
<1>2. QED
  BY <1>1, Appended

\* An event that joins those that wait.
LEMMA Joined ==
    ASSUME Waiting, NEW e, waiting' = Append(waiting, e)
    PROVE  /\ DOMAIN waiting' = 1..Len(waiting') /\ Len(waiting') \in Nat
           /\ Importing' = Importing \cup ({e.from} \ {0})
BY DEF Waiting, Importing

\* A step that appends nothing of the tail and leaves the replay where it is.
LEMMA ReplayRests ==
    ASSUME Migration, UNCHANGED <<migrationVars, imported, again, deaths>>, Waiting'
    PROVE  Migration'
BY DEF Migration, migrationVars, Replayed, FirstLife, NoLegacyLost, Accepted, Settled

LEMMA EmitStep ==
    ASSUME Migration, NEW kind, NEW id, Emit(kind, id)
    PROVE  Migration'
<1> DEFINE e == Event(kind, id, now, 0)
<1>0. e.from = 0
  BY DEF Event
<1> HIDE DEF e
<1>1. CASE Waits(e)
  <2>1. Waiting'
    BY <1>0, <1>1, Joined DEF Emit, Waits, Migration, Waiting, migrationVars
  <2>2. QED
    BY <1>1, <2>1, ReplayRests DEF Emit, Waits, logVars, bounds
<1>2. CASE Succeeds(e)
  <2>1. UNCHANGED <<imported, again>>
    BY <1>0, <1>2, OneAppended DEF Succeeds
  <2>2. UNCHANGED <<waiting, deaths>> /\ UNCHANGED migrationVars
    BY <1>2 DEF Emit, Succeeds, dbVars, bounds
  <2>3. Waiting'
    BY <2>2 DEF Migration, Waiting, Importing, migrationVars
  <2>4. QED
    BY <2>1, <2>2, <2>3, ReplayRests
<1>3. CASE Fails
  <2>1. UNCHANGED <<waiting, deaths, imported, again>> /\ UNCHANGED migrationVars
    BY <1>3 DEF Emit, Fails, Fault, dbVars, logVars
  <2>2. Waiting'
    BY <2>1 DEF Migration, Waiting, Importing, migrationVars
  <2>3. QED
    BY <2>1, <2>2, ReplayRests
<1>4. QED
  BY <1>1, <1>2, <1>3 DEF Emit, e

\* The replay goes on past the entry it waited for once the entry is settled.
LEMMA ResumeStep ==
    ASSUME Migration, Resume, waiting' = <<>>, UNCHANGED <<flag, tail>>, imported' \subseteq Nat,
           Settled' = Settled \cup Importing,
           deaths' \in Nat,
           deaths' = 0 => deaths = 0 /\ again' = again \cup (imported \cap Importing)
                          /\ imported' \subseteq imported \cup Importing
    PROVE  Migration'
<1>1. Importing' = {} /\ DOMAIN waiting' = 1..Len(waiting') /\ Len(waiting') \in Nat
  BY DEF Importing
<1>2. NoLegacyLost'
  BY DEF Migration, Replayed, NoLegacyLost, Settled
<1>3. CASE phase # "appending"
  <2>1. Importing = {} /\ UNCHANGED <<phase, entry>>
    BY <1>3 DEF Migration, Waiting, Resume
  <2>2. Waiting'
    BY <1>1, <1>3, <2>1 DEF Waiting
  <2>3. Replayed'
    BY <1>2, <2>1 DEF Migration, Replayed, Accepted
  <2>4. FirstLife'
    BY <2>1 DEF Migration, FirstLife
  <2>5. QED
    BY <2>2, <2>3, <2>4 DEF Migration
<1>4. CASE phase = "appending"
  <2>1. Importing = {entry} /\ phase' = "append" /\ entry' = entry + 1 /\ entry \in Nat
    BY <1>4 DEF Migration, Waiting, Replayed, Resume
  <2>2. Waiting'
    BY <1>1, <2>1 DEF Waiting
  <2>3. ASSUME NEW i \in Accepted, i < entry + 1 PROVE i \in Settled'
    <3>1. i \in Nat
      BY TailAssumption DEF Accepted
    <3>2. i < entry \/ i = entry
      BY <2>1, <2>3, <3>1
    <3>3. QED
      BY <1>4, <2>1, <3>2 DEF Migration, Replayed
  <2>4. Replayed'
    BY <1>2, <2>1, <2>3 DEF Replayed, Accepted
  <2>5. ASSUME deaths' = 0 PROVE again' = {} /\ \A i \in imported' : i < entry + 1
    <3>1. again = {} /\ \A i \in imported : i < entry
      BY <1>4, <2>5 DEF Migration, FirstLife
    <3>2. \A i \in imported \cup {entry} : i < entry + 1
      <4> SUFFICES ASSUME NEW i \in imported \cup {entry} PROVE i < entry + 1
        OBVIOUS
      <4>1. CASE i \in imported
        BY <2>1, <3>1, <4>1 DEF Migration
      <4>2. CASE i = entry
        BY <2>1, <4>2
      <4>3. QED
        BY <4>1, <4>2
    <3>3. entry \notin imported
      BY <2>1, <3>1
    <3>4. QED
      BY <2>1, <2>5, <3>1, <3>2, <3>3
  <2>6. FirstLife'
    BY <2>1, <2>5 DEF FirstLife
  <2>7. QED
    BY <2>2, <2>4, <2>6 DEF Migration
<1>5. QED
  BY <1>3, <1>4

LEMMA OpenedStep == ASSUME Migration, Opened PROVE Migration'
<1>1. AppendAll(waiting) /\ waiting' = <<>> /\ Resume /\ UNCHANGED <<flag, tail, failed, deaths>>
  BY DEF Opened, bounds
<1>2. imported' = imported \cup Importing /\ again' = again \cup (imported \cap Importing)
  BY <1>1, Appended DEF Importing
<1>3. Importing \subseteq Nat
  BY DEF Migration, Waiting, Replayed
<1>4. Settled' = Settled \cup Importing
  BY <1>1, <1>2 DEF Settled
<1>5. QED
  BY <1>1, <1>2, <1>3, <1>4, ResumeStep DEF Migration, FirstLife

LEMMA OpenFailsStep == ASSUME Migration, OpenFails PROVE Migration'
<1>1. waiting' = <<>> /\ Resume /\ UNCHANGED <<flag, tail, deaths, imported, again>>
      /\ failed' = failed \cup Importing
  BY DEF OpenFails, Fault, logVars
<1>2. Settled' = Settled \cup Importing
  BY <1>1 DEF Settled
<1>3. again' = again \cup (imported \cap Importing) \/ deaths # 0 \/ Importing = {entry}
  BY <1>1 DEF Migration, Waiting
<1>4. deaths = 0 => imported \cap Importing = {}
  BY DEF Migration, Waiting, Replayed, FirstLife
<1>5. QED
  BY <1>1, <1>2, <1>4, ResumeStep DEF Migration, FirstLife

\* The replay goes past an entry, settled now or in no need of it.
LEMMA PastEntry ==
    ASSUME Migration, phase = "append", entry \in Entries, UNCHANGED <<phase, flag, tail, waiting>>,
           entry' = entry + 1, entry \in Accepted => entry \in Settled',
           imported \subseteq imported', failed \subseteq failed',
           UNCHANGED deaths, deaths = 0 => again' = {},
           imported' \subseteq imported \cup {entry}
    PROVE  Migration'
<1>0. entry \in Nat /\ entry' \in Nat /\ imported' \subseteq Nat
  BY DEF Migration, Replayed
<1>1. Settled \subseteq Settled'
  BY DEF Settled
<1>2. Waiting'
  BY DEF Migration, Waiting, Importing
<1>3. ASSUME NEW i \in Accepted, i < entry + 1 PROVE i \in Settled'
  <2>1. i \in Nat
    BY TailAssumption DEF Accepted
  <2>2. i < entry \/ i = entry
    BY <1>0, <1>3, <2>1
  <2>3. QED
    BY <1>1, <2>2 DEF Migration, Replayed
<1>4. NoLegacyLost'
  BY <1>1 DEF Migration, Replayed, NoLegacyLost, Settled
<1>5. Replayed'
  BY <1>0, <1>3, <1>4 DEF Replayed, Accepted
<1>6. ASSUME NEW i \in imported', deaths = 0 PROVE i < entry + 1
  <2>1. CASE i \in imported
    <3>1. i \in Nat /\ i < entry
      BY <1>6, <2>1 DEF Migration, FirstLife
    <3>2. QED
      BY <1>0, <3>1
  <2>2. CASE i = entry
    BY <1>0, <2>2
  <2>3. QED
    BY <2>1, <2>2
<1>7. FirstLife'
  BY <1>6 DEF Migration, FirstLife
<1>8. QED
  BY <1>0, <1>2, <1>5, <1>7 DEF Migration

LEMMA ImportStep == ASSUME Migration, Import PROVE Migration'
<1>1. phase = "append" /\ entry \in Entries /\ entry # 0 /\ UNCHANGED <<flag, tail>>
  BY TailAssumption DEF Import
<1>2. PICK e \in mapEntry(entry) :
           \/ Waits(e) /\ phase' = "appending" /\ UNCHANGED <<entry, failed>>
           \/ Succeeds(e) /\ entry' = entry + 1 /\ UNCHANGED <<phase, failed>>
           \/ Fails /\ entry' = entry + 1 /\ failed' = failed \cup {entry} /\ UNCHANGED phase
  BY DEF Import
<1>3. e.from = entry
  BY DEF mapEntry, Event
<1>4. CASE Waits(e) /\ phase' = "appending" /\ UNCHANGED <<entry, failed>>
  <2>1. waiting' = Append(waiting, e) /\ UNCHANGED <<imported, again, deaths>>
    BY <1>4 DEF Waits, logVars, bounds
  <2>2. Importing' = {entry} /\ Waiting'
    BY <1>1, <1>3, <1>4, <2>1, Joined DEF Migration, Waiting
  <2>3. Replayed'
    BY <1>1, <1>4, <2>1 DEF Migration, Replayed, NoLegacyLost, Accepted, Settled
  <2>4. FirstLife'
    BY <1>1, <1>4, <2>1 DEF Migration, FirstLife
  <2>5. QED
    BY <2>1, <2>2, <2>3, <2>4 DEF Migration
<1>5. CASE Succeeds(e) /\ entry' = entry + 1 /\ UNCHANGED <<phase, failed>>
  <2>1. UNCHANGED <<waiting, deaths>>
    BY <1>5 DEF Succeeds, dbVars, bounds
  <2>2. imported' = imported \cup {entry} /\ again' = again \cup (imported \cap {entry})
    BY <1>1, <1>3, <1>5, OneAppended DEF Succeeds
  <2>3. deaths = 0 => again' = {}
    BY <1>1, <2>2 DEF Migration, FirstLife, Replayed
  <2>4. entry \in Settled'
    BY <2>2 DEF Settled
  <2>5. QED
    BY <1>1, <1>5, <2>1, <2>2, <2>3, <2>4, PastEntry
<1>6. CASE Fails /\ entry' = entry + 1 /\ failed' = failed \cup {entry} /\ UNCHANGED phase
  <2>1. UNCHANGED <<waiting, deaths, imported, again>>
    BY <1>6 DEF Fails, Fault, dbVars, logVars
  <2>2. entry \in Settled'
    BY <1>6 DEF Settled
  <2>3. deaths = 0 => again' = {}
    BY <2>1 DEF Migration, FirstLife
  <2>4. QED
    BY <1>1, <1>6, <2>1, <2>2, <2>3, PastEntry
<1>7. QED
  BY <1>2, <1>4, <1>5, <1>6

\* The steps of the replay between the entries.
LEMMA ReplayStep == ASSUME Migration, Boot \/ Replay PROVE Migration'
<1>d. UNCHANGED <<waiting, imported, again, deaths, failed>> \/ Import
  BY DEF Boot, Replay, LoadTail, Skip, SetFlag, RemoveTail, dbVars, logVars, bounds
<1>w. phase # "appending" /\ phase' # "appending" /\ UNCHANGED waiting => Waiting'
  BY DEF Migration, Waiting, Importing
<1>1. CASE Boot
  <2>1. UNCHANGED <<waiting, imported, again, deaths, failed, entry, flag, tail>>
        /\ phase = "off" /\ phase' \in {"done", "load"}
    BY <1>1 DEF Boot, dbVars, logVars, bounds
  <2>2. QED
    BY <1>w, <2>1 DEF Migration, Replayed, NoLegacyLost, FirstLife
<1>2. CASE LoadTail
  <2>1. /\ UNCHANGED <<waiting, imported, again, deaths, failed, flag, tail>>
        /\ phase = "load" /\ phase' = "append"
        /\ entry' = IF tail THEN 1 ELSE Len(Legacy) + 1
    BY <1>2 DEF LoadTail, dbVars, logVars, bounds
  <2>2. entry' \in Nat
    BY <2>1, TailAssumption
  <2>3. ASSUME NEW i \in Accepted, i < entry' PROVE i \in Settled
    <3>1. i \in 1..Len(Legacy)
      BY TailAssumption DEF Accepted
    <3>2. ~tail
      BY <2>1, <2>3, <3>1, TailAssumption
    <3>3. QED
      BY <3>2 DEF Migration, Replayed, NoLegacyLost, Accepted, Settled
  <2>4. Replayed'
    BY <2>1, <2>2, <2>3 DEF Migration, Replayed, NoLegacyLost, Settled, Accepted
  <2>5. FirstLife'
    BY <2>1 DEF Migration, FirstLife
  <2>6. QED
    BY <1>w, <2>1, <2>4, <2>5 DEF Migration
<1>3. CASE Skip
  <2>1. /\ UNCHANGED <<waiting, imported, again, deaths, failed, flag, tail, phase>>
        /\ phase = "append" /\ entry \in Entries /\ entry' = entry + 1 /\ entry \notin Accepted
    BY <1>3 DEF Skip, dbVars, logVars, bounds, Accepted
  <2>2. QED
    BY <2>1, PastEntry DEF Migration, FirstLife
<1>4. CASE Import
  BY <1>4, ImportStep
<1>5. CASE SetFlag
  <2>1. /\ UNCHANGED <<waiting, imported, again, deaths, failed, entry, tail>>
        /\ phase = "append" /\ entry > Len(Legacy) /\ phase' = "flagged" /\ flag'
    BY <1>5 DEF SetFlag, AllReplayed, dbVars, logVars, bounds
  <2>2. ASSUME NEW i \in Accepted PROVE i \in Settled
    <3>1. i \in 1..Len(Legacy) /\ entry \in Nat
      BY TailAssumption DEF Accepted, Migration, Replayed
    <3>2. i < entry
      BY <2>1, <3>1, TailAssumption
    <3>3. QED
      BY <2>1, <3>2 DEF Migration, Replayed
  <2>3. NoLegacyLost'
    BY <2>1, <2>2 DEF NoLegacyLost, Accepted, Settled
  <2>4. QED
    BY <1>w, <2>1, <2>3 DEF Migration, Replayed, FirstLife
<1>6. CASE RemoveTail
  <2>1. /\ UNCHANGED <<waiting, imported, again, deaths, failed, entry, flag>>
        /\ phase = "flagged" /\ phase' = "done"
    BY <1>6 DEF RemoveTail, dbVars, logVars, bounds
  <2>2. flag
    BY <2>1 DEF Migration, Replayed
  <2>3. NoLegacyLost'
    BY <2>1, <2>2 DEF Migration, Replayed, NoLegacyLost
  <2>4. QED
    BY <1>w, <2>1, <2>3 DEF Migration, Replayed, FirstLife
<1>7. QED
  BY <1>1, <1>2, <1>3, <1>4, <1>5, <1>6 DEF Replay

LEMMA DeathStep == ASSUME Migration, WorkerDies PROVE Migration'
<1>1. /\ waiting' = <<>> /\ phase' = "off" /\ entry' = 1 /\ deaths' = deaths + 1
      /\ UNCHANGED <<flag, tail, failed, imported, again>>
  BY DEF WorkerDies, logVars
<1>2. Waiting'
  BY <1>1 DEF Waiting, Importing
<1>3. Replayed'
  BY <1>1 DEF Migration, Replayed, NoLegacyLost
<1>4. FirstLife'
  BY <1>1 DEF Migration, FirstLife
<1>5. QED
  BY <1>1, <1>2, <1>3, <1>4 DEF Migration

LEMMA MigrationStep == Migration /\ [Next]_vars => Migration'
<1> SUFFICES ASSUME Migration, [Next]_vars PROVE Migration'
  OBVIOUS
<1>1. ASSUME NEW kind \in Emitted, NEW id \in Keys \cup {None}, Emit(kind, id) PROVE Migration'
  BY <1>1, EmitStep
<1>2. CASE \/ Open \/ Closed \/ sweep \/ ReadPage \/ Tick \/ SetBack
           \/ (\E r \in Reads : StartWalk(r)) \/ UNCHANGED vars
  <2>1. UNCHANGED <<waiting, imported, again, deaths>> /\ UNCHANGED migrationVars
    BY <1>2 DEF Open, Closed, sweep, ReadPage, Tick, SetBack, StartWalk, Fault,
                vars, dbVars, logVars, migrationVars, bounds
  <2>2. Waiting'
    BY <2>1 DEF Migration, Waiting, Importing, migrationVars
  <2>3. QED
    BY <2>1, <2>2, ReplayRests
<1>3. QED
  BY <1>1, <1>2, OpenedStep, OpenFailsStep, ReplayStep, DeathStep DEF Next

\* An entry of the tail that mapEntry accepts was appended, or had its append
\* rejected, before the migration is marked as done and its tail removed, however the
\* replay is interrupted; and it is appended once unless the worker died on the way
\* (background/audit-migrate.ts replayOnce).
THEOREM MigrationAlwaysSafe == Spec => []MigrationIsSafe
<1>1. Init => Migration
  BY InitMigration
<1>2. Migration /\ [Next]_vars => Migration'
  BY MigrationStep
<1>3. Migration => MigrationIsSafe
  BY DEF Migration, Replayed, FirstLife, MigrationIsSafe, ImportedTwiceOnlyAfterDeath
<1>4. QED
  BY <1>1, <1>2, <1>3, PTL DEF Spec

-----------------------------------------------------------------------------
(* The first elements of a finite set, in an order.                        *)

Below(S, K, r) == {q \in S : K[q] < K[r]}

LEMMA BelowIsFinite ==
    ASSUME NEW S, IsFiniteSet(S), NEW K \in [S -> Nat], NEW r \in S
    PROVE  /\ IsFiniteSet(Below(S, K, r)) /\ Cardinality(Below(S, K, r)) \in Nat
           /\ r \notin Below(S, K, r)
<1>1. Below(S, K, r) \subseteq S
  BY DEF Below
<1>2. ~ (K[r] < K[r])
  OBVIOUS
<1>3. QED
  BY <1>1, <1>2, FS_Subset, FS_CardinalityType DEF Below

LEMMA BelowGrows ==
    ASSUME NEW S, IsFiniteSet(S), NEW K \in [S -> Nat], NEW q \in S, NEW r \in S, K[q] < K[r]
    PROVE  Cardinality(Below(S, K, q)) < Cardinality(Below(S, K, r))
<1> DEFINE A == Below(S, K, q)
           B == Below(S, K, r)
<1>1. /\ IsFiniteSet(A) /\ Cardinality(A) \in Nat /\ q \notin A
      /\ IsFiniteSet(B) /\ Cardinality(B) \in Nat
  BY BelowIsFinite
<1>2. K[q] \in Nat /\ K[r] \in Nat /\ \A p \in S : K[p] \in Nat
  OBVIOUS
<1>3. A \cup {q} \subseteq B
  BY <1>2 DEF Below
<1> HIDE DEF A, B
<1>4. Cardinality(A \cup {q}) = Cardinality(A) + 1
  BY <1>1, FS_AddElement
<1>5. Cardinality(A \cup {q}) <= Cardinality(B)
  BY <1>1, <1>3, FS_Subset
<1>6. Cardinality(A) < Cardinality(B)
  BY <1>1, <1>4, <1>5
<1>7. QED
  BY <1>6 DEF A, B

\* The least and the greatest of a set of numbers.
LEMMA Least ==
    ASSUME NEW T, T \subseteq Nat, T # {}
    PROVE  \E x \in T : \A y \in T : x <= y
<1>1. PICK x \in T : \A y \in T : ~ (<<y, x>> \in OpToRel(<, Nat))
  BY NatLessThanWellFounded, WFMin
<1>2. ASSUME NEW y \in T PROVE x <= y
  <2>1. ~ (y < x) /\ x \in Nat /\ y \in Nat
    BY <1>1 DEF OpToRel
  <2>2. QED
    BY <2>1
<1>3. QED
  BY <1>2

LEMMA Greatest ==
    ASSUME NEW T, T \subseteq Nat, T # {}, NEW n \in Nat, \A x \in T : x <= n
    PROVE  \E x \in T : \A y \in T : y <= x
<1> DEFINE Rest == {n - x : x \in T}
<1>0. \A x \in T : n - x \in Nat
  OBVIOUS
<1>1. Rest \subseteq Nat /\ Rest # {}
  BY <1>0
<1>2. PICK z \in Rest : \A y \in Rest : z <= y
  BY <1>1, Least
<1>3. PICK x \in T : z = n - x
  OBVIOUS
<1>4. ASSUME NEW y \in T PROVE y <= x
  <2>1. n - x <= n - y /\ x \in Nat /\ y \in Nat
    BY <1>2, <1>3
  <2>2. QED
    BY <2>1
<1>5. QED
  BY <1>4

\* The first P elements: with each of them those before it, all of them when they
\* are not P, and a last one among them.
LEMMA Firsts ==
    ASSUME NEW S, IsFiniteSet(S), NEW K \in [S -> Nat], \A q, r \in S : K[q] = K[r] => q = r,
           NEW P \in Nat \ {0},
           NEW Lo, Lo \subseteq S, \A r \in S : r \in Lo <=> Cardinality(Below(S, K, r)) < P
    PROVE  /\ \A r \in Lo, q \in S : K[q] <= K[r] => q \in Lo
           /\ Lo # {} => \E m \in Lo : \A q \in Lo : K[q] <= K[m]
           /\ Cardinality(Lo) # P => Lo = S
<1> DEFINE C == [r \in S |-> Cardinality(Below(S, K, r))]
<1>1. \A r \in S : C[r] \in Nat /\ (r \in Lo <=> C[r] < P)
  BY BelowIsFinite
<1>2. \A q, r \in S : K[q] < K[r] => C[q] < C[r]
  BY BelowGrows
<1>3. \A r \in S : K[r] \in Nat
  OBVIOUS
<1>4. IsFiniteSet(Lo) /\ Cardinality(Lo) \in Nat
  BY FS_Subset, FS_CardinalityType
<1>5. \A r \in S : C[r] = Cardinality(Below(S, K, r))
  OBVIOUS
<1> HIDE DEF C
<1>6. ASSUME NEW r \in Lo, NEW q \in S, K[q] <= K[r] PROVE q \in Lo
  <2>1. CASE q = r
    BY <2>1
  <2>2. CASE q # r
    <3>1. K[q] < K[r]
      BY <1>3, <1>6, <2>2
    <3>2. QED
      BY <1>1, <1>2, <3>1
  <2>3. QED
    BY <2>1, <2>2
<1>7. ASSUME Lo # {} PROVE \E m \in Lo : \A q \in Lo : K[q] <= K[m]
  <2> DEFINE T == {C[r] : r \in Lo}
  <2>1. T \subseteq Nat /\ T # {} /\ \A x \in T : x <= P
    BY <1>1, <1>7
  <2>2. PICK x \in T : \A y \in T : y <= x
    BY <2>1, Greatest
  <2>3. PICK m \in Lo : x = C[m]
    OBVIOUS
  <2>4. ASSUME NEW q \in Lo PROVE K[q] <= K[m]
    <3>1. C[q] <= C[m]
      BY <2>2, <2>3
    <3>2. ~ (K[m] < K[q])
      BY <1>1, <1>2, <3>1
    <3>3. QED
      BY <1>3, <3>2
  <2>5. QED
    BY <2>4
<1>8. ASSUME Lo # S PROVE Cardinality(Lo) = P
  <2> DEFINE T == {K[r] : r \in S \ Lo}
  <2>1. T \subseteq Nat /\ T # {}
    BY <1>3, <1>8
  <2>2. PICK x \in T : \A y \in T : x <= y
    BY <2>1, Least
  <2>3. PICK r \in S \ Lo : x = K[r]
    OBVIOUS
  <2>4. ASSUME NEW q \in S, K[q] < K[r] PROVE q \in Lo
    <3>1. ASSUME q \notin Lo PROVE FALSE
      <4>1. K[r] <= K[q]
        BY <2>2, <2>3, <3>1
      <4>2. QED
        BY <1>3, <2>4, <4>1
    <3>2. QED
      BY <3>1
  <2>5. Below(S, K, r) \subseteq Lo
    BY <2>4 DEF Below
  <2>6. C[r] <= Cardinality(Lo)
    BY <1>4, <1>5, <2>5, FS_Subset
  <2>7. P <= C[r] /\ C[r] \in Nat
    BY <1>1
  <2>8. Lo # {}
    <3>1. Cardinality({}) = 0
      BY FS_EmptySet
    <3>2. Cardinality(Lo) # 0
      BY <1>4, <2>6, <2>7
    <3>3. QED
      BY <3>1, <3>2
  <2>9. PICK m \in Lo : \A q \in Lo : K[q] <= K[m]
    BY <1>7, <2>8
  <2>10. PICK B : B = Below(S, K, m)
    OBVIOUS
  <2>11. Lo \subseteq B \cup {m}
    <3> SUFFICES ASSUME NEW q \in Lo, q # m PROVE K[q] < K[m]
      BY <2>10 DEF Below
    <3>1. K[q] # K[m] /\ K[q] <= K[m] /\ K[q] \in Nat /\ K[m] \in Nat
      BY <1>3, <2>9
    <3>2. QED
      BY <3>1
  <2>12. IsFiniteSet(B) /\ Cardinality(B) = C[m] /\ m \notin B
    BY <1>5, <2>10, BelowIsFinite
  <2>13. C[m] \in Nat /\ C[m] < P
    BY <1>1
  <2>14. IsFiniteSet(B \cup {m}) /\ Cardinality(B \cup {m}) = C[m] + 1
    BY <2>12, FS_AddElement
  <2>15. Cardinality(Lo) <= Cardinality(B \cup {m})
    BY <2>11, <2>14, FS_Subset
  <2>16. QED
    BY <1>4, <2>6, <2>7, <2>13, <2>14, <2>15
<1>9. QED
  BY <1>6, <1>7, <1>8

-----------------------------------------------------------------------------
(* The records of the store.                                               *)

Store ==
    /\ seq \in Nat
    /\ \A r \in log : r.seq \in 1..seq /\ r.ts \in Nat
    /\ \A q, r \in log : q.seq = r.seq => q = r
    /\ ordered \in BOOLEAN
    /\ ordered => \A q, r \in log : q.seq < r.seq => q.ts <= r.ts

\* What is stamped, now or while it waits, has a time.
Stamped ==
    /\ now \in Nat
    /\ DOMAIN waiting = 1..Len(waiting) /\ Len(waiting) \in Nat
    /\ \A i \in DOMAIN waiting : waiting[i].ts \in Nat

\* A record that is not in the log has a later key than all that were.
Grows ==
    /\ seq' \in Nat /\ seq <= seq' /\ (ordered' => ordered)
    /\ \A r \in log' : r \in log \/ (r.seq \in Nat /\ r.seq > seq)

LEMMA StoreIsFinite == ASSUME Store PROVE IsFiniteSet(log)
<1> DEFINE f == [r \in log |-> r.seq]
<1>1. f \in [log -> 1..seq] /\ \A q, r \in log : f[q] = f[r] => q = r
  BY DEF Store
<1>2. f \in Injection(log, 1..seq)
  BY <1>1 DEF Injection, IsInjective
<1>3. IsFiniteSet(1..seq)
  BY FS_Interval DEF Store
<1>4. QED
  BY <1>2, <1>3, FS_Injection

LEMMA AppendStore ==
    ASSUME Store, NEW events, NEW n \in Nat, DOMAIN events = 1..n, Len(events) = n,
           \A i \in 1..n : events[i].ts \in Nat, AppendAll(events)
    PROVE  Store' /\ Grows
<1>1. /\ log' = log \cup Added(events) /\ seq' = seq + n
      /\ ordered' = (ordered /\ \A r \in Added(events), q \in log \cup Added(events) :
                                    q.seq < r.seq => q.ts <= r.ts)
  BY DEF AppendAll
<1>2. /\ \A r \in Added(events) : \E i \in 1..n : r.seq = seq + i /\ r.ts = events[i].ts
      /\ \A q, r \in Added(events) : q.seq = r.seq => q = r
  <2> DEFINE Rec(i) == [kind |-> events[i].kind, keyId |-> events[i].keyId, origin |-> events[i].origin,
                        keyFingerprint |-> events[i].keyFingerprint, ts |-> events[i].ts,
                        from |-> events[i].from, seq |-> seq + i]
  <2>1. \A i : Rec(i).seq = seq + i /\ Rec(i).ts = events[i].ts
    OBVIOUS
  <2>2. \A r : r \in Added(events) <=> \E i \in 1..n : r = Rec(i)
    BY DEF Added
  <2> HIDE DEF Rec
  <2>3. \A i, j \in 1..n : seq + i = seq + j => i = j
    BY DEF Store
  <2>4. QED
    BY <2>1, <2>2, <2>3
<1>3. \A r \in Added(events) : r.seq \in Nat /\ r.seq > seq /\ r.seq <= seq + n /\ r.ts \in Nat
  BY <1>2 DEF Store
<1>4. seq' \in Nat /\ seq <= seq'
  BY <1>1 DEF Store
<1>5. \A r \in log : r.seq \in Nat /\ r.seq >= 1 /\ r.seq <= seq /\ r.ts \in Nat
  BY DEF Store
<1>6. \A r \in log' : r.seq \in 1..seq' /\ r.ts \in Nat
  <2> SUFFICES ASSUME NEW r \in log' PROVE r.seq \in 1..seq' /\ r.ts \in Nat
    OBVIOUS
  <2>1. CASE r \in log
    BY <1>1, <1>5, <2>1 DEF Store
  <2>2. CASE r \in Added(events)
    BY <1>1, <1>3, <2>2 DEF Store
  <2>3. QED
    BY <1>1, <2>1, <2>2
<1>7. \A q \in log, r \in Added(events) : q.seq < r.seq /\ q.seq # r.seq /\ ~ (r.seq < q.seq)
  BY <1>3, <1>5 DEF Store
<1>8. \A q, r \in log' : q.seq = r.seq => q = r
  BY <1>1, <1>2, <1>7 DEF Store
<1>9. ASSUME ordered', NEW q \in log', NEW r \in log', q.seq < r.seq PROVE q.ts <= r.ts
  <2>1. CASE r \in log
    <3>1. q \in log
      BY <1>1, <1>7, <1>9, <2>1
    <3>2. QED
      BY <1>1, <1>9, <2>1, <3>1 DEF Store
  <2>2. CASE r \in Added(events)
    BY <1>1, <1>9, <2>2
  <2>3. QED
    BY <1>1, <2>1, <2>2
<1>10. ordered' \in BOOLEAN /\ (ordered' => ordered)
  BY <1>1 DEF Store
<1>11. Store'
  BY <1>4, <1>6, <1>8, <1>9, <1>10 DEF Store
<1>12. QED
  BY <1>1, <1>3, <1>4, <1>10, <1>11 DEF Grows

LEMMA AppendOne ==
    ASSUME Store, NEW e, e.ts \in Nat, AppendAll(<<e>>)
    PROVE  Store' /\ Grows
<1>1. DOMAIN <<e>> = 1..1 /\ Len(<<e>>) = 1 /\ <<e>>[1] = e
  OBVIOUS
<1>2. \A i \in 1..1 : <<e>>[i].ts \in Nat
  BY <1>1
<1>3. QED
  BY <1>1, <1>2, AppendStore

LEMMA StoreRests ==
    ASSUME Store, UNCHANGED <<log, seq, ordered>>
    PROVE  Store' /\ Grows
BY DEF Store, Grows

\* An append, in each of its outcomes.
LEMMA EventStore ==
    ASSUME Store, Stamped, NEW e, e.ts \in Nat, UNCHANGED now, Waits(e) \/ Succeeds(e) \/ Fails
    PROVE  Store' /\ Grows /\ Stamped'
<1>1. CASE Waits(e)
  <2>1. waiting' = Append(waiting, e) /\ UNCHANGED <<log, seq, ordered>>
    BY <1>1 DEF Waits, logVars
  <2>2. Stamped'
    BY <2>1 DEF Stamped
  <2>3. QED
    BY <2>1, <2>2, StoreRests
<1>2. CASE Succeeds(e)
  <2>1. AppendAll(<<e>>) /\ UNCHANGED waiting
    BY <1>2 DEF Succeeds, dbVars
  <2>2. QED
    BY <2>1, AppendOne DEF Stamped
<1>3. CASE Fails
  <2>1. UNCHANGED <<log, seq, ordered, waiting>>
    BY <1>3 DEF Fails, logVars, dbVars
  <2>2. QED
    BY <2>1, StoreRests DEF Stamped
<1>4. QED
  BY <1>1, <1>2, <1>3

LEMMA EntryTyped ==
    ASSUME NEW S, NEW s \in Seq(S), NEW i \in DOMAIN s
    PROVE  s[i] \in S
OBVIOUS

LEMMA StoreStep ==
    ASSUME Store, Stamped, [Next]_vars
    PROVE  Store' /\ Grows /\ Stamped'
<1>1. ASSUME NEW kind, NEW id, Emit(kind, id) PROVE Store' /\ Grows /\ Stamped'
  <2> DEFINE e == Event(kind, id, now, 0)
  <2>1. e.ts \in Nat
    BY DEF Event, Stamped
  <2>2. UNCHANGED now /\ (Waits(e) \/ Succeeds(e) \/ Fails)
    BY <1>1 DEF Emit
  <2> HIDE DEF e
  <2>3. QED
    BY <2>1, <2>2, EventStore
<1>2. CASE Import
  <2>1. PICK e \in mapEntry(entry) : Waits(e) \/ Succeeds(e) \/ Fails
    BY <1>2 DEF Import
  <2>2. e.ts = Legacy[entry].ts /\ entry \in Entries /\ UNCHANGED now
    BY <1>2 DEF Import, mapEntry, Event
  <2>3. PICK S : Legacy \in Seq([kind : S, keyId : Keys \cup {None}, ts : Nat])
    BY LegacyAssumption, Zenon DEF LegacyAssumption
  <2>4. Legacy[entry] \in [kind : S, keyId : Keys \cup {None}, ts : Nat]
    BY <2>2, <2>3, EntryTyped DEF Entries
  <2>5. e.ts \in Nat
    BY <2>2, <2>4
  <2>6. QED
    BY <2>1, <2>2, <2>5, EventStore
<1>3. CASE Opened
  <2>1. AppendAll(waiting) /\ waiting' = <<>> /\ UNCHANGED now
    BY <1>3 DEF Opened
  <2>2. PICK n \in Nat : DOMAIN waiting = 1..n /\ Len(waiting) = n /\ \A i \in 1..n : waiting[i].ts \in Nat
    BY DEF Stamped
  <2>3. Store' /\ Grows
    BY <2>1, <2>2, AppendStore
  <2>4. QED
    BY <2>1, <2>3 DEF Stamped
<1>4. CASE sweep
  <2>1. log' \subseteq log /\ UNCHANGED <<seq, ordered, now, waiting>>
    BY <1>4 DEF sweep, dbVars
  <2>2. QED
    BY <2>1 DEF Store, Grows, Stamped
<1>5. CASE OpenFails \/ WorkerDies
  <2>1. waiting' = <<>> /\ UNCHANGED <<log, seq, ordered, now>>
    BY <1>5 DEF OpenFails, WorkerDies, logVars
  <2>2. QED
    BY <2>1, StoreRests DEF Stamped
<1>6. CASE Tick \/ SetBack
  <2>1. UNCHANGED <<log, seq, ordered, waiting>> /\ now' \in Nat
    BY <1>6 DEF Tick, SetBack, logVars, dbVars, Stamped
  <2>2. QED
    BY <2>1, StoreRests DEF Stamped
<1>7. CASE \/ Open \/ Closed \/ Boot \/ LoadTail \/ Skip \/ SetFlag \/ RemoveTail \/ ReadPage
           \/ (\E r \in Reads : StartWalk(r)) \/ UNCHANGED vars
  <2>1. UNCHANGED <<log, seq, ordered, waiting, now>>
    BY <1>7 DEF Open, Closed, Boot, LoadTail, Skip, SetFlag, RemoveTail, ReadPage, StartWalk, vars,
                logVars, dbVars
  <2>2. QED
    BY <2>1, StoreRests DEF Stamped
<1>8. QED
  BY <1>1, <1>2, <1>3, <1>4, <1>5, <1>6, <1>7 DEF Next, Replay

-----------------------------------------------------------------------------
(* What one page is.                                                       *)

Fields == {"keyId", "keyFingerprint", "origin", "kind"}

LEMMA RankIs == DOMAIN Rank = 1..4 /\ {Rank[i] : i \in 1..4} = Fields /\ \A i \in 1..4 : Rank[i] \in Fields
BY DEF Rank, Fields

\* The index and the filter after it miss no record that is asked for ...
LEMMA WantedIsRead ==
    ASSUME NEW f, \A d \in Fields : IsFiniteSet(f[d]), NEW r \in Wanted(f)
    PROVE  r \in buildKeyRange(f) /\ matchesPostFilter(r, f)
<1>1. Cardinality({}) = 0
  BY FS_EmptySet
<1>2. \A d \in Fields : f[d] = {} \/ r[d] \in f[d]
  BY DEF Wanted, Fields
<1>3. ASSUME NEW i \in DOMAIN Rank, Cardinality(f[Rank[i]]) = 1 \/ Cardinality(f[Rank[i]]) > 1
      PROVE  r[Rank[i]] \in f[Rank[i]]
  <2>1. Rank[i] \in Fields
    BY RankIs
  <2>2. f[Rank[i]] # {}
    BY <1>1, <1>3
  <2>3. QED
    BY <1>2, <2>1, <2>2
<1>4. \A d \in pickIndex(f) : r[d] \in f[d]
  BY <1>3 DEF pickIndex, Single
<1>5. QED
  BY <1>3, <1>4 DEF Wanted, buildKeyRange, matchesPostFilter

\* ... and read no other, if one field at most has a single value.
LEMMA ReadIsWanted ==
    ASSUME NEW f, \A d \in Fields : IsFiniteSet(f[d]), Cardinality(Single(f)) <= 1,
           NEW r \in buildKeyRange(f), matchesPostFilter(r, f)
    PROVE  r \in Wanted(f)
<1>1. ASSUME NEW i \in 1..4 PROVE f[Rank[i]] = {} \/ r[Rank[i]] \in f[Rank[i]]
  <2>1. IsFiniteSet(f[Rank[i]]) /\ Cardinality(f[Rank[i]]) \in Nat
    BY RankIs, FS_CardinalityType
  <2>2. CASE Cardinality(f[Rank[i]]) = 0
    BY <2>1, <2>2, FS_EmptySet
  <2>3. CASE Cardinality(f[Rank[i]]) > 1
    BY <2>3, RankIs DEF matchesPostFilter
  <2>4. CASE Cardinality(f[Rank[i]]) = 1
    <3>1. i \in Single(f) /\ Single(f) \subseteq 1..4
      BY <2>4, RankIs DEF Single
    <3>2. Single(f) \in SUBSET Nat /\ \A k \in Single(f) : k <= 4
      BY <3>1
    <3>3. IsFiniteSet(Single(f)) /\ Cardinality(Single(f)) \in Nat
      BY <3>2, FS_BoundedSetOfNaturals, FS_CardinalityType
    <3>4. Cardinality(Single(f)) = 1
      BY <3>1, <3>3, FS_EmptySet
    <3>5. \A k \in Single(f) : k = i
      BY <3>1, <3>3, <3>4, FS_Singleton
    <3>6. i <= i
      OBVIOUS
    <3>7. Rank[i] \in pickIndex(f)
      BY <3>1, <3>5, <3>6 DEF pickIndex
    <3>8. QED
      BY <3>7 DEF buildKeyRange
  <2>5. QED
    BY <2>1, <2>2, <2>3, <2>4
<1>2. \A d \in Fields : f[d] = {} \/ r[d] \in f[d]
  BY <1>1, RankIs
<1>3. QED
  BY <1>2 DEF Wanted, buildKeyRange, Fields

\* While the clock is not set back, the order of a read is that of the keys.
LEMMA EarlierIs ==
    ASSUME Store, ordered, NEW f, NEW q \in log, NEW r \in log
    PROVE  Earlier(q, r, f) <=> q.seq < r.seq
<1>1. q.seq \in Nat /\ r.seq \in Nat /\ q.ts \in Nat /\ r.ts \in Nat
  BY DEF Store
<1>2. /\ q.seq < r.seq => q.ts <= r.ts
      /\ r.seq < q.seq => r.ts <= q.ts
      /\ q.seq = r.seq => q.ts = r.ts
  BY DEF Store
<1>3. QED
  BY <1>1, <1>2 DEF Earlier

Asc == walk.read.order = "asc"

\* In the order of a read, n comes before m.
Sooner(n, m) == IF Asc THEN n < m ELSE m < n

LEMMA PageIs ==
    ASSUME Store, ordered
    PROVE  /\ OnPage \subseteq Found /\ Found \subseteq log
           /\ Cardinality(OnPage) # Page => OnPage = Found
           /\ Cardinality(OnPage) = Page =>
                  \E m \in OnPage :
                      /\ {r \in OnPage : \A q \in OnPage : q = r \/ Before(q, r)} = {m}
                      /\ \A r \in OnPage : r = m \/ Sooner(r.seq, m.seq)
                      /\ \A r \in Found : r = m \/ Sooner(r.seq, m.seq) => r \in OnPage
<1>1. PICK S : S = Found
  OBVIOUS
<1>2. PICK Lo : Lo = OnPage
  OBVIOUS
<1>3. S \subseteq log /\ IsFiniteSet(S)
  <2>1. S \subseteq log
    BY <1>1 DEF Found, buildKeyRange
  <2>2. QED
    BY <2>1, StoreIsFinite, FS_Subset
<1>4. \A q, r \in S : Before(q, r) <=> Sooner(q.seq, r.seq)
  BY <1>3, EarlierIs DEF Before, Sooner, Asc
<1>5. PICK n : n = seq
  OBVIOUS
<1>6. n \in Nat /\ \A r \in S : r.seq \in Nat /\ r.seq <= n
  BY <1>3, <1>5 DEF Store
<1>7. \A q, r \in S : q.seq = r.seq => q = r
  BY <1>3 DEF Store
<1> DEFINE K == [r \in S |-> IF Asc THEN r.seq ELSE n - r.seq]
<1>8. K \in [S -> Nat]
  BY <1>6
<1>9. \A q, r \in S : K[q] < K[r] <=> Sooner(q.seq, r.seq)
  <2>1. CASE Asc
    BY <2>1 DEF Sooner
  <2>2. CASE ~ Asc
    BY <1>6, <2>2 DEF Sooner
  <2>3. QED
    BY <2>1, <2>2
<1>10. \A q, r \in S : K[q] = K[r] => q = r
  BY <1>6, <1>7
<1> HIDE DEF K
<1>11. \A r \in S : {q \in S : Before(q, r)} = Below(S, K, r)
  BY <1>4, <1>9 DEF Below
<1>12. Lo \subseteq S /\ \A r \in S : r \in Lo <=> Cardinality(Below(S, K, r)) < Page
  <2>1. \A r : r \in Lo <=> r \in S /\ Cardinality({q \in S : Before(q, r)}) < Page
    BY <1>1, <1>2 DEF OnPage
  <2>2. QED
    BY <1>11, <2>1
<1>13. /\ \A r \in Lo, q \in S : K[q] <= K[r] => q \in Lo
       /\ Lo # {} => \E m \in Lo : \A q \in Lo : K[q] <= K[m]
       /\ Cardinality(Lo) # Page => Lo = S
  <2>1. PICK P : P = Page
    OBVIOUS
  <2>2. P \in Nat \ {0}
    BY <2>1, PageAssumption DEF PageAssumption
  <2>3. \A r \in S : r \in Lo <=> Cardinality(Below(S, K, r)) < P
    BY <1>12, <2>1
  <2>4. Lo \subseteq S
    BY <1>12
  <2>5. IsFiniteSet(S)
    BY <1>3
  <2> HIDE <2>1
  <2>6. /\ \A r \in Lo, q \in S : K[q] <= K[r] => q \in Lo
        /\ Lo # {} => \E m \in Lo : \A q \in Lo : K[q] <= K[m]
        /\ Cardinality(Lo) # P => Lo = S
    BY ONLY <1>8, <1>10, <2>2, <2>3, <2>4, <2>5, Firsts
  <2>7. QED
    BY <2>1, <2>6
<1>14. \A q, r \in S : K[q] <= K[r] <=> q = r \/ Sooner(q.seq, r.seq)
  BY <1>8, <1>9, <1>10
<1>15. ASSUME Cardinality(Lo) = Page
       PROVE  \E m \in Lo : /\ {r \in Lo : \A q \in Lo : q = r \/ Before(q, r)} = {m}
                            /\ \A r \in Lo : r = m \/ Sooner(r.seq, m.seq)
                            /\ \A r \in S : r = m \/ Sooner(r.seq, m.seq) => r \in Lo
  <2>1. Lo # {}
    <3>1. Cardinality({}) = 0
      BY FS_EmptySet
    <3>2. Cardinality(Lo) # 0
      BY <1>15, PageAssumption DEF PageAssumption
    <3>3. QED
      BY <3>1, <3>2
  <2>2. PICK m \in Lo : \A q \in Lo : K[q] <= K[m]
    BY <1>13, <2>1
  <2>3. \A r \in Lo : r = m \/ Sooner(r.seq, m.seq)
    BY <1>12, <1>14, <2>2
  <2>4. \A r \in S : r = m \/ Sooner(r.seq, m.seq) => r \in Lo
    BY <1>12, <1>13, <1>14
  <2>5. \A r \in Lo : r # m => ~ Sooner(m.seq, r.seq)
    BY <1>6, <1>12, <2>3 DEF Sooner
  <2>6. {r \in Lo : \A q \in Lo : q = r \/ Before(q, r)} = {m}
    BY <1>4, <1>12, <2>3, <2>5
  <2>7. QED
    BY <2>3, <2>4, <2>6
<1>16. QED
  BY <1>1, <1>2, <1>3, <1>12, <1>13, <1>15

-----------------------------------------------------------------------------
(* The pages of a read.                                                    *)

Asked(r) == r \in Wanted(walk.read.filter)

WalkShape ==
    /\ DOMAIN walk = {"state", "read", "cursor", "got", "twice", "start"}
    /\ walk.state \in {"idle", "reading", "done"}
    /\ walk.state # "idle" => walk.read \in Reads
    /\ walk.got \subseteq 1..seq /\ walk.start \subseteq 1..seq

Matching ==
    /\ \A r \in log : r.seq \in walk.start => Asked(r)
    /\ Cardinality(Single(walk.read.filter)) <= 1 => \A r \in log : r.seq \in walk.got => Asked(r)

\* What was asked for is read up to the cursor, and nothing behind it.
ReadSoFar ==
    /\ ~ walk.twice /\ walk.cursor \in 0..seq
    /\ walk.state = "reading" =>
           /\ \A n \in walk.got : walk.cursor # 0 /\ (n = walk.cursor \/ Sooner(n, walk.cursor))
           /\ \A r \in log : r.seq \in walk.start => Past(r) \/ r.seq \in walk.got
    /\ walk.state = "done" => \A r \in log : r.seq \in walk.start => r.seq \in walk.got

Walking == WalkShape /\ Matching /\ (ordered => ReadSoFar)

LEMMA WalkRests ==
    ASSUME Store, Grows, Walking, UNCHANGED walk
    PROVE  Walking'
<1>1. \A n \in walk.got \cup walk.start : n \in 1..seq'
  BY DEF Store, Grows, Walking, WalkShape
<1>2. WalkShape'
  BY <1>1 DEF Walking, WalkShape
<1>3. \A r \in log' : r.seq \in walk.got \cup walk.start => r \in log
  BY DEF Store, Grows, Walking, WalkShape
<1>4. \A r \in log : r \in log' => (Asked(r)' <=> Asked(r))
  BY DEF Asked, Wanted
<1>5. Matching'
  BY <1>3, <1>4 DEF Walking, Matching
<1>6. ASSUME ordered' PROVE ReadSoFar'
  <2>1. ReadSoFar
    BY <1>6 DEF Walking, Grows
  <2>2. walk.cursor \in 0..seq'
    BY <2>1 DEF ReadSoFar, Store, Grows
  <2>3. \A r : Past(r)' <=> Past(r)
    BY DEF Past
  <2>4. \A n, m : Sooner(n, m)' <=> Sooner(n, m)
    BY DEF Sooner, Asc
  <2>5. QED
    BY <1>3, <2>1, <2>2, <2>3, <2>4 DEF ReadSoFar
<1>7. QED
  BY <1>2, <1>5, <1>6 DEF Walking

LEMMA NoWalkIs ==
    /\ DOMAIN NoWalk = {"state", "read", "cursor", "got", "twice", "start"}
    /\ NoWalk.state = "idle" /\ NoWalk.cursor = 0 /\ NoWalk.got = {} /\ NoWalk.start = {}
    /\ NoWalk.twice = FALSE
BY DEF NoWalk

LEMMA WalkBegins ==
    ASSUME Store, NEW r \in Reads, StartWalk(r)
    PROVE  Walking'
<1>1. /\ walk' = [NoWalk EXCEPT !.state = "reading", !.read = r, !.start = {q.seq : q \in Wanted(r.filter)}]
      /\ UNCHANGED <<log, seq, ordered>>
  BY DEF StartWalk, logVars
<1>2. /\ DOMAIN walk' = {"state", "read", "cursor", "got", "twice", "start"}
      /\ walk'.state = "reading" /\ walk'.read = r /\ walk'.cursor = 0 /\ walk'.got = {}
      /\ walk'.twice = FALSE /\ walk'.start = {q.seq : q \in Wanted(r.filter)}
  BY <1>1, NoWalkIs
<1>3. \A q \in log : q.seq \in walk'.start => q \in Wanted(r.filter)
  BY <1>2 DEF Wanted, Store
<1>4. walk'.start \subseteq 1..seq
  BY <1>2 DEF Wanted, Store
<1>5. WalkShape'
  BY <1>1, <1>2, <1>4 DEF WalkShape
<1>6. Matching'
  BY <1>1, <1>2, <1>3 DEF Matching, Asked, Wanted
<1>7. ReadSoFar'
  <2>1. \A q : Past(q)'
    BY <1>2 DEF Past
  <2>2. walk'.cursor \in 0..seq'
    BY <1>1, <1>2 DEF Store
  <2>3. QED
    BY <1>2, <2>1, <2>2 DEF ReadSoFar
<1>8. QED
  BY <1>5, <1>6, <1>7 DEF Walking

LEMMA WalkDies ==
    ASSUME Store, UNCHANGED <<log, seq>>, walk' = NoWalk
    PROVE  Walking'
<1>1. WalkShape'
  BY NoWalkIs DEF WalkShape
<1>2. Matching'
  BY NoWalkIs DEF Matching
<1>3. ReadSoFar'
  BY NoWalkIs DEF ReadSoFar, Store
<1>4. QED
  BY <1>1, <1>2, <1>3 DEF Walking

LEMMA PageRead ==
    ASSUME Store, Walking, ReadPage
    PROVE  Walking'
<1> DEFINE last == {r \in OnPage : \A q \in OnPage : q = r \/ Before(q, r)}
           keys == {r.seq : r \in OnPage}
           full == Cardinality(OnPage) = Page
           next == CHOOSE s \in keys : \E r \in last : r.seq = s
<1>1. PICK Lo : Lo = OnPage
  OBVIOUS
<1>2. PICK ks : ks = keys
  OBVIOUS
<1>3. PICK c : c = next
  OBVIOUS
<1>4. walk.state = "reading" /\ UNCHANGED <<log, seq, ordered>>
      /\ walk' = [walk EXCEPT !.got = @ \cup ks,
                              !.twice = @ \/ walk.got \cap ks # {},
                              !.state = IF full THEN "reading" ELSE "done",
                              !.cursor = IF full THEN c ELSE @]
  BY <1>2, <1>3 DEF ReadPage, logVars
<1>5. /\ DOMAIN walk' = {"state", "read", "cursor", "got", "twice", "start"}
      /\ walk'.state = (IF full THEN "reading" ELSE "done")
      /\ walk'.read = walk.read /\ walk'.start = walk.start
      /\ walk'.got = walk.got \cup ks
      /\ walk'.twice = (walk.twice \/ walk.got \cap ks # {})
      /\ walk'.cursor = IF full THEN c ELSE walk.cursor
  <2> HIDE DEF full
  <2>1. DOMAIN walk = {"state", "read", "cursor", "got", "twice", "start"}
    BY DEF Walking, WalkShape
  <2>2. QED
    BY <1>4, <2>1
<1>6. PICK S : S = Found
  OBVIOUS
<1>7. Lo \subseteq S /\ S \subseteq log
  BY <1>1, <1>6 DEF OnPage, Found, buildKeyRange
<1>8. \A n : n \in ks <=> \E r \in Lo : r.seq = n
  BY <1>1, <1>2
<1>9. \A r \in S : Past(r) /\ (Cardinality(Single(walk.read.filter)) <= 1 => Asked(r))
  <2>1. walk.read \in Reads
    BY <1>4 DEF Walking, WalkShape
  <2>2. \A d \in Fields : IsFiniteSet(walk.read.filter[d])
    BY <2>1, ReadsAssumption DEF ReadsAssumption, Fields
  <2>3. QED
    BY <1>6, <2>2, ReadIsWanted DEF Found, Asked
<1>10. \A r \in log : Asked(r) /\ Past(r) => r \in S
  <2>1. walk.read \in Reads
    BY <1>4 DEF Walking, WalkShape
  <2>2. \A d \in Fields : IsFiniteSet(walk.read.filter[d])
    BY <2>1, ReadsAssumption DEF ReadsAssumption, Fields
  <2>3. QED
    BY <1>6, <2>2, WantedIsRead DEF Found, Asked
<1>11. \A r \in log : r.seq \in ks => r \in Lo
  BY <1>7, <1>8 DEF Store
<1>12. /\ ordered => /\ Cardinality(Lo) # Page => Lo = S
                     /\ Cardinality(Lo) = Page =>
                            \E m \in Lo : /\ last = {m}
                                          /\ \A r \in Lo : r = m \/ Sooner(r.seq, m.seq)
                                          /\ \A r \in S : r = m \/ Sooner(r.seq, m.seq) => r \in Lo
  BY <1>1, <1>6, PageIs
<1>13. ASSUME NEW m \in Lo, last = {m} PROVE c = m.seq
  BY <1>3, <1>8, <1>2, <1>13
<1>14. full <=> Cardinality(Lo) = Page
  BY <1>1
<1> HIDE DEF last, keys, full, next
<1>15. WalkShape'
  <2>1. walk.state \in {"idle", "reading", "done"} /\ walk.read \in Reads
        /\ walk.got \subseteq 1..seq /\ walk.start \subseteq 1..seq
    BY <1>4 DEF Walking, WalkShape
  <2>2. ks \subseteq 1..seq
    BY <1>7, <1>8 DEF Store
  <2>3. QED
    BY <1>4, <1>5, <2>1, <2>2 DEF WalkShape
<1>16. \A r : Asked(r)' <=> Asked(r)
  BY <1>4, <1>5 DEF Asked, Wanted
<1>17. Matching'
  BY <1>4, <1>5, <1>7, <1>9, <1>11, <1>16 DEF Walking, Matching
<1>18. ASSUME ordered PROVE ReadSoFar'
  <2>1. ReadSoFar
    BY <1>18 DEF Walking
  <2>2. \A n, m : Sooner(n, m)' <=> Sooner(n, m)
    BY <1>5 DEF Sooner, Asc
  <2>3. \A r \in log : r.seq \in walk.start => r \in S \/ r.seq \in walk.got
    BY <1>4, <1>10, <2>1 DEF ReadSoFar, Walking, Matching
  <2>4. seq \in Nat /\ (\A r \in log : r.seq \in Nat /\ r.seq >= 1 /\ r.seq <= seq)
        /\ \A n \in walk.got : n \in Nat
    BY DEF Store, Walking, WalkShape
  <2>5. walk.got \cap ks = {}
    <3> SUFFICES ASSUME NEW r \in Lo, r.seq \in walk.got PROVE FALSE
      BY <1>8
    <3>1. walk.cursor # 0 /\ (r.seq = walk.cursor \/ Sooner(r.seq, walk.cursor)) /\ walk.cursor \in Nat
      BY <1>4, <2>1, <2>4 DEF ReadSoFar
    <3>2. Past(r) /\ r.seq \in Nat
      BY <1>7, <1>9, <2>4
    <3>3. QED
      BY <3>1, <3>2 DEF Past, Sooner, Asc
  <2>6. ~ walk'.twice
    BY <1>5, <2>1, <2>5 DEF ReadSoFar
  <2>7. CASE ~ full
    <3>1. Lo = S
      BY <1>12, <1>14, <1>18, <2>7
    <3>2. \A r \in log : r.seq \in walk.start => r.seq \in walk'.got
      BY <1>5, <1>8, <2>3, <3>1
    <3>3. walk'.state = "done" /\ walk'.cursor = walk.cursor
      BY <1>5, <2>7
    <3>4. QED
      BY <1>4, <1>5, <2>1, <2>6, <3>2, <3>3 DEF ReadSoFar
  <2>8. CASE full
    <3>1. PICK m \in Lo : /\ c = m.seq
                          /\ \A r \in Lo : r = m \/ Sooner(r.seq, m.seq)
                          /\ \A r \in S : r = m \/ Sooner(r.seq, m.seq) => r \in Lo
      BY <1>12, <1>13, <1>14, <1>18, <2>8
    <3>2. m \in log /\ m \in S /\ c \in Nat /\ c >= 1 /\ c <= seq /\ Past(m)
      BY <1>7, <1>9, <2>4, <3>1
    <3>3. walk'.state = "reading" /\ walk'.cursor = c
      BY <1>5, <2>8
    <3>4. ASSUME NEW n \in walk.got PROVE Sooner(n, c)
      <4>1. walk.cursor # 0 /\ (n = walk.cursor \/ Sooner(n, walk.cursor)) /\ walk.cursor \in Nat /\ n \in Nat
        BY <1>4, <2>1, <2>4 DEF ReadSoFar
      <4>2. Sooner(walk.cursor, c)
        BY <3>1, <3>2, <4>1 DEF Past, Sooner, Asc
      <4>3. QED
        BY <3>2, <4>1, <4>2 DEF Sooner
    <3>5. \A n \in walk'.got : c # 0 /\ (n = c \/ Sooner(n, c))
      BY <1>5, <1>8, <3>1, <3>2, <3>4
    <3>6. ASSUME NEW r \in log, r.seq \in walk.start PROVE Past(r)' \/ r.seq \in walk'.got
      <4>1. CASE r.seq \in walk.got
        BY <1>5, <4>1
      <4>2. CASE r \in Lo
        BY <1>5, <1>8, <4>2
      <4>3. CASE r \in S /\ r \notin Lo
        <5>1. r # m /\ ~ Sooner(r.seq, c) /\ r.seq # c
          BY <1>7, <3>1, <4>3 DEF Store
        <5>2. Sooner(c, r.seq)
          BY <2>4, <3>2, <5>1 DEF Sooner
        <5>3. QED
          BY <1>5, <3>3, <5>2 DEF Past, Sooner, Asc
      <4>4. QED
        BY <2>3, <3>6, <4>1, <4>2, <4>3
    <3>7. c \in 0..seq'
      BY <1>4, <3>2
    <3>8. QED
      BY <1>4, <1>5, <2>2, <2>6, <3>3, <3>5, <3>6, <3>7 DEF ReadSoFar
  <2>9. QED
    BY <2>7, <2>8
<1>19. QED
  BY <1>4, <1>15, <1>17, <1>18 DEF Walking

LEMMA WalkStep ==
    ASSUME Store, Stamped, Walking, [Next]_vars
    PROVE  Walking'
<1>1. CASE UNCHANGED walk
  BY <1>1, StoreStep, WalkRests
<1>2. CASE WorkerDies
  BY <1>2, WalkDies DEF WorkerDies, logVars
<1>3. CASE ReadPage \/ \E r \in Reads : StartWalk(r)
  BY <1>3, PageRead, WalkBegins
<1>4. UNCHANGED walk \/ WorkerDies \/ ReadPage \/ \E r \in Reads : StartWalk(r)
  BY DEF Next, Emit, Open, Opened, OpenFails, Closed, Boot, Replay, LoadTail, Skip, Import, SetFlag,
     RemoveTail, sweep, Tick, SetBack, vars
<1>5. QED
  BY <1>1, <1>2, <1>3, <1>4

\* A read through all its pages got what matched when it began and is still there,
\* each record once, if the log is in the order of its times, and nothing else
\* unless a second field names a single value (audit-db.ts queryEvents, iterate).
THEOREM WalksReadWhatMatches == Spec => []WalkReadsWhatMatches
<1> DEFINE Inv == Store /\ Stamped /\ Walking
<1>1. Init => Inv
  <2> SUFFICES ASSUME Init PROVE Inv
    OBVIOUS
  <2>1. Store /\ Stamped
    BY DEF Init, Store, Stamped
  <2>2. WalkShape /\ Matching /\ ReadSoFar
    BY NoWalkIs DEF Init, WalkShape, Matching, ReadSoFar
  <2>3. QED
    BY <2>1, <2>2 DEF Walking
<1>2. Inv /\ [Next]_vars => Inv'
  BY StoreStep, WalkStep
<1>3. Inv => WalkReadsWhatMatches
  BY DEF Store, Walking, Matching, Asked, ReadSoFar, WalkReadsWhatMatches
<1>4. QED
  BY <1>1, <1>2, <1>3, PTL DEF Spec
=============================================================================
