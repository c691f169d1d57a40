---------------------------- MODULE CommandLineProofs --------------------------
(***************************************************************************)
(* Theorems about the programs of the command line: the vault of the cli,  *)
(* for every number of processes, vault files, labels, vaults created and  *)
(* commands; the MCP server, for every number of lines; and the command    *)
(* runner, for every amount of output, every cap and every key length.     *)
(***************************************************************************)
EXTENDS CliVault, Mcp, Exec, FiniteSetTheorems, SequenceTheorems, WellFoundedInduction, TLAPS

\* The commands that are at a step.
CommandsAt(step) ==
    CASE step = "exists"  -> Commands \ {"lock"}
      [] step = "session" -> Opening \cup {"unlock", "status"}
      [] step = "clear"   -> Opening \cup {"unlock", "status", "lock"}
      [] step = "prompt"  -> Opening \cup {"unlock", "init"}
      [] step = "load"    -> Opening \cup {"status", "list"}
      [] step \in {"unlock", "truncate", "cache"} -> Opening \cup {"unlock"}
      [] step = "value"   -> {"add"}
      [] step = "pick"    -> {"remove"}
      [] step = "check"   -> {"init"}
      [] step = "rename"  -> {"init", "add", "remove"}

OneEach(v) == \A d, e \in v.entries : d.label = e.label => d = e

\* What a process knows at each step: its command, the vault it loaded, the key.
Opened == {"truncate", "cache", "value", "pick"}
Holding == Opened \cup {"rename"}
HasKey(r) == r.at \in Opened \/ (r.at = "load" /\ r.cmd \in Opening)

Knows(r) ==
    /\ r.at # "idle" => r.cmd \in CommandsAt(r.at) /\ r.file \in Files /\ r.label \in Labels
    /\ r.at \in Holding => r.vault \in Vault /\ OneEach(r.vault)
    /\ HasKey(r) => r.key \in Keys

Processes == proc \in [Procs -> Process] /\ \A p \in Procs : Knows(proc[p])

\* A file that was neither deleted nor renamed over by an overlapping init.
Steady == Files \ (deleted \cup overlapped)
AllSealed(v) == \A e \in v.entries : e.key = v.header

\* What a process has of a steady file belongs to the header the file has.
Fits(r) ==
    r.at # "idle" /\ r.file \in Steady =>
        /\ HasKey(r) => vault[r.file] \in Vault /\ r.key = vault[r.file].header
        /\ r.at \in Holding /\ r.cmd # "init" =>
               /\ vault[r.file] \in Vault /\ r.vault.header = vault[r.file].header
               /\ AllSealed(r.vault)
        /\ r.at = "rename" /\ r.cmd = "init" => r.vault.entries = {}

SessionFits ==
    session \notin {None, Torn} /\ session.file \in Steady =>
        vault[session.file] \in Vault /\ session.key = vault[session.file].header

Sealed == \A f \in Steady : EntriesOpenIn(f)
Distinct == \A f \in Files : vault[f] # None => OneEach(vault[f])

Sound == TypeOK /\ Processes /\ Distinct
OfOneHeader == SessionFits /\ Sealed /\ \A p \in Procs : Fits(proc[p])

-----------------------------------------------------------------------------
LEMMA IdleTyped == Idle \in Process /\ Knows(Idle)
BY DEF Idle, Process, Steps, Knows, HasKey, Opened, Holding

LEMMA ProcSet ==
    ASSUME Processes, NEW p \in Procs, NEW r \in Process, Knows(r), proc' = [proc EXCEPT ![p] = r]
    PROVE  Processes'
BY DEF Processes

LEMMA ProcExits ==
    ASSUME Processes, NEW p \in Procs, Exit(p)
    PROVE  Processes'
BY IdleTyped, ProcSet DEF Exit

\* A process goes to another step.
LEMMA ProcGoes ==
    ASSUME Processes, NEW p \in Procs, NEW step \in Steps, Goto(p, step),
           Knows([proc[p] EXCEPT !.at = step])
    PROVE  Processes'
<1>1. [proc[p] EXCEPT !.at = step] \in Process
  BY DEF Processes, Process
<1>2. proc' = [proc EXCEPT ![p] = [proc[p] EXCEPT !.at = step]]
  BY DEF Goto, Processes, Process
<1>3. QED
  BY <1>1, <1>2, ProcSet

LEMMA InitSound == Init => Sound /\ OfOneHeader
<1> SUFFICES ASSUME Init PROVE Sound /\ OfOneHeader
  OBVIOUS
<1>1. proc \in [Procs -> Process] /\ Processes
  BY IdleTyped DEF Init, Processes
<1>2. TypeOK
  BY <1>1, BoundAssumption DEF Init, TypeOK, BoundAssumption
<1>3. Distinct /\ Sealed /\ SessionFits
  BY DEF Init, Distinct, Sealed, SessionFits, EntriesOpenIn, Steady
<1>4. ASSUME NEW p \in Procs PROVE Fits(proc[p])
  BY DEF Init, Fits, Idle
<1>5. QED
  BY <1>1, <1>2, <1>3, <1>4 DEF Sound, OfOneHeader

\* The parts of the type invariant that a step of a process may not touch.
LEMMA ProcStep ==
    ASSUME Sound, Processes', session' \in Session \cup {None, Torn}, headers' \in 0..MaxVaults,
           commands' \in 0..MaxCommands, saved' \in [Procs -> BOOLEAN],
           UNCHANGED <<vault, acked, raced, deleted, overlapped>>
    PROVE  Sound'
<1>1. TypeOK'
  BY DEF Sound, TypeOK, Processes
<1>2. Distinct'
  BY DEF Sound, Distinct
<1>3. QED
  BY <1>1, <1>2 DEF Sound

\* A step in which the process goes on or exits and only the session changes.
LEMMA OnlySession ==
    ASSUME Sound, Processes', session' \in Session \cup {None, Torn},
           UNCHANGED <<vault, headers, history, commands>>
    PROVE  Sound'
BY ProcStep DEF history, Sound, TypeOK

LEMMA LoadedOneEach ==
    ASSUME Sound, NEW f \in Files, vaultExists(f)
    PROVE  vault[f] \in Vault /\ OneEach(vault[f])
BY DEF Sound, TypeOK, Distinct, vaultExists

\* The steps of a process up to its rename keep what is known of all of them.
LEMMA StepSound ==
    ASSUME Sound, NEW p \in Procs, Step(p), ~Rename(p)
    PROVE  Sound'
<1>p. Processes /\ Knows(proc[p]) /\ proc[p] \in Process
  BY DEF Sound, Processes
<1>t. session \in Session \cup {None, Torn} /\ headers \in 0..MaxVaults /\ saved \in [Procs -> BOOLEAN]
      /\ commands \in 0..MaxCommands
  BY DEF Sound, TypeOK
<1>1. CASE Exists(p)
  <2>1. CASE Exit(p)
    BY <1>1, <1>p, <1>t, <2>1, ProcExits, OnlySession DEF Exists
  <2>2. CASE ~Exit(p)
    <3>1. /\ At(p, "exists") /\ UNCHANGED <<vault, session, headers, history, commands>>
          /\ \/ Goto(p, "prompt") /\ proc[p].cmd = "init"
             \/ Goto(p, "load") /\ proc[p].cmd = "list"
             \/ Goto(p, "session") /\ proc[p].cmd \notin {"init", "list"}
      BY <1>1, <2>2 DEF Exists, Runs
    <3>2. Processes'
      BY <1>p, <3>1, ProcGoes DEF At, Knows, CommandsAt, HasKey, Opened, Holding, Steps, Process, Opening, Commands
    <3>3. QED
      BY <1>t, <3>1, <3>2, OnlySession
  <2>3. QED
    BY <2>1, <2>2
<1>2. CASE loadSession(p)
  <2>1. CASE Exit(p)
    BY <1>2, <1>p, <1>t, <2>1, ProcExits, OnlySession DEF loadSession
  <2>2. CASE ~OfThisVault(File(p))
    <3>1. Goto(p, NoSession(p))
      BY <1>2, <2>2 DEF loadSession
    <3>2. Processes'
      BY <1>2, <1>p, <3>1, ProcGoes DEF loadSession, NoSession, Runs, At, Knows, CommandsAt, HasKey, Opened, Holding, Steps, Process, Opening
    <3>3. QED
      BY <1>2, <1>t, <3>2, OnlySession DEF loadSession
  <2>3. CASE OfThisVault(File(p)) /\ ~session.live
    <3>1. Goto(p, "clear")
      BY <1>2, <2>3 DEF loadSession
    <3>2. Processes'
      BY <1>2, <1>p, <3>1, ProcGoes DEF loadSession, At, Knows, CommandsAt, HasKey, Opened, Holding, Steps, Process
    <3>3. QED
      BY <1>2, <1>t, <3>2, OnlySession DEF loadSession
  <2>4. CASE OfThisVault(File(p)) /\ session.live /\ ~Runs(p, {"unlock"})
    <3> DEFINE r == [proc[p] EXCEPT !.at = "load", !.key = session.key]
    <3>1. session \in Session
      BY <1>t, <2>4 DEF OfThisVault
    <3>2. r \in Process /\ Knows(r)
      BY <1>2, <1>p, <2>4, <3>1 DEF loadSession, Runs, At, Process, Session, Steps, Knows, CommandsAt, HasKey, Opened, Holding
    <3>3. proc' = [proc EXCEPT ![p] = r]
      BY <1>2, <1>p, <2>4 DEF loadSession, Processes, Process
    <3>4. QED
      BY <1>2, <1>p, <1>t, <3>2, <3>3, ProcSet, OnlySession DEF loadSession
  <2>5. QED
    BY <1>2, <2>1, <2>2, <2>3, <2>4 DEF loadSession
<1>3. CASE clearSession(p)
  <2>1. CASE Exit(p)
    BY <1>3, <1>p, <2>1, ProcExits, OnlySession DEF clearSession
  <2>2. CASE Goto(p, NoSession(p)) /\ ~Runs(p, {"lock"})
    <3>1. Processes'
      BY <1>3, <1>p, <2>2, ProcGoes DEF clearSession, NoSession, Runs, At, Knows, CommandsAt, HasKey, Opened, Holding, Steps, Process, Opening
    <3>2. QED
      BY <1>3, <3>1, OnlySession DEF clearSession
  <2>3. QED
    BY <1>3, <2>1, <2>2 DEF clearSession
<1>4. CASE promptPassword(p)
  <2>1. Processes'
    BY <1>4, <1>p, ProcGoes DEF promptPassword, Runs, At, Knows, CommandsAt, HasKey, Opened, Holding, Steps, Process, Opening
  <2>2. QED
    BY <1>4, <1>t, <2>1, OnlySession DEF promptPassword
<1>5. CASE loadVaultFile(p)
  <2>1. CASE Exit(p)
    BY <1>5, <1>p, <1>t, <2>1, ProcExits, ProcStep DEF loadVaultFile, Loads
  <2>2. CASE vaultExists(File(p)) /\ ~Runs(p, {"list", "status", "exec"})
    <3> DEFINE r == [proc[p] EXCEPT !.at = Unlocked(p), !.vault = vault[File(p)]]
    <3>1. File(p) \in Files /\ proc[p].cmd \in {"add", "remove"}
      BY <1>5, <1>p, <2>2 DEF loadVaultFile, At, Runs, File, Knows, CommandsAt, Opening
    <3>2. vault[File(p)] \in Vault /\ OneEach(vault[File(p)])
      BY <2>2, <3>1, LoadedOneEach
    <3>3. r \in Process /\ Knows(r)
      BY <1>5, <1>p, <3>1, <3>2 DEF loadVaultFile, Unlocked, Runs, File, At, Process, Steps, Knows, CommandsAt, HasKey, Opened, Holding, Opening
    <3>4. proc' = [proc EXCEPT ![p] = r]
      BY <1>5, <1>p, <2>2 DEF loadVaultFile, Processes, Process
    <3>5. Processes'
      BY <1>p, <3>3, <3>4, ProcSet
    <3>6. QED
      BY <1>5, <1>t, <3>5, ProcStep DEF loadVaultFile, Loads
  <2>3. QED
    BY <1>5, <2>1, <2>2 DEF loadVaultFile
<1>6. CASE unlockVault(p)
  <2>1. CASE Exit(p)
    BY <1>6, <1>p, <1>t, <2>1, ProcExits, ProcStep DEF unlockVault, Loads
  <2>2. CASE vaultExists(File(p)) /\ ~Exit(p)
    <3> DEFINE r == [proc[p] EXCEPT !.at = "truncate", !.vault = vault[File(p)], !.key = vault[File(p)].header]
    <3>1. File(p) \in Files
      BY <1>6, <1>p DEF unlockVault, At, File, Knows
    <3>2. vault[File(p)] \in Vault /\ OneEach(vault[File(p)])
      BY <2>2, <3>1, LoadedOneEach
    <3>3. r \in Process /\ Knows(r)
      BY <1>6, <1>p, <3>1, <3>2 DEF unlockVault, File, At, Vault, Process, Steps, Knows, CommandsAt, HasKey, Opened, Holding
    <3>4. proc' = [proc EXCEPT ![p] = r]
      BY <1>6, <1>p, <2>2 DEF unlockVault, Processes, Process
    <3>5. Processes'
      BY <1>p, <3>3, <3>4, ProcSet
    <3>6. QED
      BY <1>6, <1>t, <3>5, ProcStep DEF unlockVault, Loads
  <2>3. QED
    BY <1>6, <2>1, <2>2 DEF unlockVault
<1>7. CASE Truncate(p)
  <2>1. Processes'
    BY <1>7, <1>p, ProcGoes DEF Truncate, At, Knows, CommandsAt, HasKey, Opened, Holding, Steps, Process
  <2>2. QED
    BY <1>7, <2>1, OnlySession DEF Truncate
<1>8. CASE saveSession(p)
  <2>1. session' \in Session
    BY <1>8, <1>p DEF saveSession, At, File, Knows, HasKey, Opened, Session
  <2>2. CASE Exit(p)
    BY <1>8, <1>p, <2>1, <2>2, ProcExits, OnlySession DEF saveSession
  <2>3. CASE Goto(p, Unlocked(p)) /\ ~Runs(p, {"unlock", "exec"})
    <3>1. Processes'
      BY <1>8, <1>p, <2>3, ProcGoes DEF saveSession, Unlocked, Runs, At, Knows, CommandsAt, HasKey, Opened, Holding, Steps, Process, Opening
    <3>2. QED
      BY <1>8, <2>1, <3>1, OnlySession DEF saveSession
  <2>4. QED
    BY <1>8, <2>2, <2>3 DEF saveSession
<1>9. CASE addEntry(p)
  <2> DEFINE v == proc[p].vault
             e == [label |-> proc[p].label, key |-> proc[p].key]
             w == [v EXCEPT !.entries = @ \cup {e}]
  <2>1. CASE Exit(p)
    BY <1>9, <1>p, <1>t, <2>1, ProcExits, OnlySession DEF addEntry
  <2>2. CASE IsNew(v, proc[p].label) /\ Write(p, w)
    <3> DEFINE r == [proc[p] EXCEPT !.at = "rename", !.vault = w]
    <3>1. v \in Vault /\ OneEach(v) /\ proc[p].label \in Labels /\ proc[p].key \in Keys /\ proc[p].cmd = "add"
          /\ proc[p].file \in Files
      BY <1>9, <1>p DEF addEntry, At, Knows, CommandsAt, HasKey, Opened, Holding
    <3>2. w \in Vault /\ OneEach(w)
      BY <2>2, <3>1 DEF Vault, OneEach, IsNew
    <3>3. r \in Process
      BY <1>p, <3>2 DEF Process, Steps
    <3>4. Knows(r)
      BY <1>p, <3>1, <3>2 DEF Knows, CommandsAt, HasKey, Opened, Holding, Process
    <3>5. proc' = [proc EXCEPT ![p] = r]
      BY <1>p, <2>2 DEF Write, Processes, Process
    <3>6. QED
      BY <1>9, <1>p, <1>t, <3>3, <3>4, <3>5, ProcSet, OnlySession DEF addEntry
  <2>3. QED
    BY <1>9, <2>1, <2>2 DEF addEntry
<1>10. CASE removeEntry(p)
  <2> DEFINE v == proc[p].vault
             match == {e \in v.entries : e.label = proc[p].label}
             w == [v EXCEPT !.entries = @ \ match]
  <2>1. CASE Exit(p)
    BY <1>10, <1>p, <1>t, <2>1, ProcExits, OnlySession DEF removeEntry
  <2>2. CASE Write(p, w)
    <3> DEFINE r == [proc[p] EXCEPT !.at = "rename", !.vault = w]
    <3>1. v \in Vault /\ OneEach(v) /\ proc[p].cmd = "remove" /\ proc[p].label \in Labels /\ proc[p].file \in Files
      BY <1>10, <1>p DEF removeEntry, At, Knows, CommandsAt, Opened, Holding
    <3>2. w \in Vault /\ OneEach(w)
      BY <3>1 DEF Vault, OneEach
    <3>3. r \in Process
      BY <1>p, <3>2 DEF Process, Steps
    <3>4. Knows(r)
      BY <1>p, <3>1, <3>2 DEF Knows, CommandsAt, HasKey, Opened, Holding, Process
    <3>5. proc' = [proc EXCEPT ![p] = r]
      BY <1>p, <2>2 DEF Write, Processes, Process
    <3>6. QED
      BY <1>10, <1>p, <1>t, <3>3, <3>4, <3>5, ProcSet, OnlySession DEF removeEntry
  <2>3. QED
    BY <1>10, <2>1, <2>2 DEF removeEntry
<1>11. CASE initVault(p)
  <2>1. CASE Exit(p) /\ UNCHANGED headers
    BY <1>11, <1>p, <1>t, <2>1, ProcExits, OnlySession DEF initVault
  <2>2. CASE headers < MaxVaults /\ headers' = headers + 1 /\ Write(p, [header |-> headers + 1, entries |-> {}])
    <3> DEFINE w == [header |-> headers + 1, entries |-> {}]
               r == [proc[p] EXCEPT !.at = "rename", !.vault = w]
    <3>1. headers' \in 0..MaxVaults /\ headers + 1 \in Keys
      BY <1>t, <2>2, BoundAssumption DEF Keys, BoundAssumption
    <3>2. w \in Vault /\ OneEach(w)
      BY <3>1 DEF Vault, OneEach
    <3>3. r \in Process
      BY <1>p, <3>2 DEF Process, Steps
    <3>4. Knows(r)
      BY <1>11, <1>p, <3>2 DEF initVault, At, Knows, CommandsAt, HasKey, Opened, Holding, Process
    <3>5. proc' = [proc EXCEPT ![p] = r]
      BY <1>p, <2>2 DEF Write, Processes, Process
    <3>6. Processes'
      BY <1>p, <3>3, <3>4, <3>5, ProcSet
    <3>7. QED
      BY <1>11, <1>t, <3>1, <3>6, ProcStep DEF initVault, history
  <2>3. QED
    BY <1>11, <2>1, <2>2 DEF initVault
<1>12. CASE Crash(p)
  BY <1>12, <1>p, <1>t, ProcExits, OnlySession DEF Crash
<1>13. QED
  BY <1>1, <1>2, <1>3, <1>4, <1>5, <1>6, <1>7, <1>8, <1>9, <1>10, <1>11, <1>12 DEF Step

\* A rename puts the vault of a process that holds one in the place of the file's.
LEMMA RenameSound ==
    ASSUME Sound, NEW p \in Procs, Rename(p)
    PROVE  Sound'
<1> DEFINE f == proc[p].file
           v == proc[p].vault
<1>1. /\ f \in Files /\ proc[p].label \in Labels /\ proc[p].cmd \in {"init", "add", "remove"}
      /\ v \in Vault /\ OneEach(v)
  BY DEF Rename, At, Sound, Processes, Knows, CommandsAt, Holding
<1>2. vault' = [vault EXCEPT ![f] = v] /\ vault' \in [Files -> Vault \cup {None}]
  BY <1>1 DEF Rename, File, Sound, TypeOK
<1>3. Acknowledged(p) \in SUBSET Labels
  BY <1>1 DEF Acknowledged, Runs, File, Sound, TypeOK
<1>4. acked' \in [Files -> SUBSET Labels]
  BY <1>3 DEF Rename, Sound, TypeOK
<1>5. saved' \in [Procs -> BOOLEAN]
  BY DEF Rename, Sound, TypeOK
<1>6. overlapped' \subseteq Files /\ raced' \subseteq Files
  BY <1>1 DEF Rename, File, Sound, TypeOK
<1>7. Processes'
  BY ProcExits DEF Rename, Sound
<1>8. TypeOK'
  BY <1>2, <1>4, <1>5, <1>6, <1>7 DEF Rename, Sound, TypeOK, Processes
<1>9. Distinct'
  BY <1>1, <1>2 DEF Sound, TypeOK, Distinct
<1>10. QED
  BY <1>7, <1>8, <1>9 DEF Sound

LEMMA StartSound ==
    ASSUME Sound, NEW p \in Procs, NEW cmd \in Commands, NEW f \in Files, NEW l \in Labels,
           Start(p, cmd, f, l)
    PROVE  Sound'
<1> DEFINE step == IF cmd = "lock" THEN "clear" ELSE "exists"
           r == [Idle EXCEPT !.at = step, !.cmd = cmd, !.file = f, !.label = l]
<1>1. r \in Process
  BY DEF Idle, Process, Steps
<1>2. Knows(r)
  BY DEF Idle, Knows, CommandsAt, HasKey, Opened, Holding
<1>3. Processes'
  BY <1>1, <1>2, ProcSet DEF Start, Sound
<1>4. commands' \in 0..MaxCommands
  BY BoundAssumption DEF Start, Sound, TypeOK, BoundAssumption
<1>5. QED
  BY <1>3, <1>4, ProcStep DEF Start, history, Sound, TypeOK

LEMMA SoundStep == Sound /\ [Next]_vars => Sound'
<1> SUFFICES ASSUME Sound, [Next]_vars PROVE Sound'
  OBVIOUS
<1>1. ASSUME NEW p \in Procs, Step(p) PROVE Sound'
  BY <1>1, StepSound, RenameSound
<1>2. ASSUME NEW p \in Procs, NEW cmd \in Commands, NEW f \in Files, NEW l \in Labels,
             Start(p, cmd, f, l)
      PROVE  Sound'
  BY <1>2, StartSound
<1>3. ASSUME NEW f \in Files, Delete(f) PROVE Sound'
  <2>1. TypeOK' /\ Distinct'
    BY <1>3 DEF Delete, Sound, TypeOK, Distinct
  <2>2. Processes'
    BY <1>3 DEF Delete, Sound, Processes
  <2>3. QED
    BY <2>1, <2>2 DEF Sound
<1>4. CASE Expire
  <2>1. session' \in Session
    BY <1>4 DEF Expire, Sound, TypeOK, Session
  <2>2. Processes'
    BY <1>4 DEF Expire, Sound, Processes
  <2>3. QED
    BY <1>4, <2>1, <2>2, OnlySession DEF Expire
<1>5. CASE UNCHANGED vars
  BY <1>5 DEF vars, history, Sound, TypeOK, Processes, Distinct
<1>6. QED
  BY <1>1, <1>2, <1>3, <1>4, <1>5 DEF Next

\* The files, the session and the processes keep their types, and at every step a
\* process has the vault and the key that its command (main, lib/backend.cjs) uses next.
THEOREM TypeCorrect == Spec => []TypeOK
<1>1. Spec => []Sound
  BY InitSound, SoundStep, PTL DEF Spec
<1>2. Sound => TypeOK
  BY DEF Sound
<1>3. QED
  BY <1>1, <1>2, PTL

-----------------------------------------------------------------------------
\* A step that leaves the files alone, after which the process it is of still fits.
LEMMA OthersFit ==
    ASSUME Sound, OfOneHeader, NEW p \in Procs, proc' = [proc EXCEPT ![p] = proc'[p]],
           Fits(proc'[p]), SessionFits', UNCHANGED <<vault, deleted, overlapped>>
    PROVE  OfOneHeader'
<1>1. ASSUME NEW q \in Procs PROVE Fits(proc[q])'
  BY DEF OfOneHeader, Fits, Steady, Sound, Processes
<1>2. Sealed'
  BY DEF OfOneHeader, Sealed, EntriesOpenIn, Steady
<1>3. QED
  BY <1>1, <1>2 DEF OfOneHeader

LEMMA IdleFits == Fits(Idle)
BY DEF Idle, Fits

LEMMA ExitFits ==
    ASSUME Sound, OfOneHeader, NEW p \in Procs, Exit(p), SessionFits',
           UNCHANGED <<vault, deleted, overlapped>>
    PROVE  OfOneHeader'
<1>1. proc' = [proc EXCEPT ![p] = proc'[p]] /\ proc'[p] = Idle
  BY DEF Exit, Sound, Processes
<1>2. QED
  BY <1>1, IdleFits, OthersFit

LEMMA SessionKept ==
    ASSUME OfOneHeader, UNCHANGED <<vault, session, deleted, overlapped>>
    PROVE  SessionFits'
BY DEF OfOneHeader, SessionFits, Steady

\* A process that only goes to another step fits if its new step claims no more.
LEMMA GoesFits ==
    ASSUME Sound, OfOneHeader, NEW p \in Procs, NEW step \in Steps, Goto(p, step),
           Fits([proc[p] EXCEPT !.at = step]), SessionFits',
           UNCHANGED <<vault, deleted, overlapped>>
    PROVE  OfOneHeader'
<1>1. proc'[p] = [proc[p] EXCEPT !.at = step] /\ proc' = [proc EXCEPT ![p] = proc'[p]]
  BY DEF Goto, Sound, Processes, Process
<1>2. QED
  BY <1>1, OthersFit

LEMMA StepOfOneHeader ==
    ASSUME Sound, OfOneHeader, NEW p \in Procs, Step(p), ~Rename(p)
    PROVE  OfOneHeader'
<1>p. Knows(proc[p]) /\ proc[p] \in Process /\ proc \in [Procs -> Process] /\ Fits(proc[p])
  BY DEF Sound, Processes, OfOneHeader
<1>t. session \in Session \cup {None, Torn}
  BY DEF Sound, TypeOK
<1>f. UNCHANGED <<vault, deleted, overlapped>>
  BY DEF Step, Exists, loadSession, clearSession, promptPassword, loadVaultFile, unlockVault,
         Truncate, saveSession, addEntry, removeEntry, initVault, Crash, history
<1>s. CASE UNCHANGED session /\ Exit(p)
  BY <1>f, <1>s, SessionKept, ExitFits
<1>1. CASE Exists(p) /\ ~Exit(p)
  <2>1. /\ At(p, "exists") /\ UNCHANGED session
        /\ \/ Goto(p, "prompt")
           \/ Goto(p, "load") /\ proc[p].cmd = "list"
           \/ Goto(p, "session")
    BY <1>1 DEF Exists, Runs
  <2>2. ASSUME NEW step \in {"prompt", "load", "session"}, step = "load" => proc[p].cmd = "list"
        PROVE  Fits([proc[p] EXCEPT !.at = step])
    BY <1>p, <2>2 DEF Fits, HasKey, Opened, Holding, Opening, Process
  <2>3. QED
    BY <1>f, <2>1, <2>2, SessionKept, GoesFits DEF Steps
<1>2. CASE loadSession(p) /\ ~Exit(p)
  <2>0. At(p, "session") /\ UNCHANGED session /\ proc[p].cmd \in Opening \cup {"unlock", "status"}
    BY <1>2, <1>p DEF loadSession, At, Knows, CommandsAt
  <2>1. CASE Goto(p, NoSession(p))
    <3>1. Fits([proc[p] EXCEPT !.at = NoSession(p)]) /\ NoSession(p) \in Steps
      BY <1>p, <2>0 DEF NoSession, Runs, Fits, HasKey, Opened, Holding, Opening, Process, Steps
    <3>2. QED
      BY <1>f, <2>0, <2>1, <3>1, SessionKept, GoesFits
  <2>2. CASE Goto(p, "clear")
    <3>1. Fits([proc[p] EXCEPT !.at = "clear"]) /\ "clear" \in Steps
      BY <1>p DEF Fits, HasKey, Opened, Holding, Process, Steps
    <3>2. QED
      BY <1>f, <2>0, <2>2, <3>1, SessionKept, GoesFits
  <2>3. CASE OfThisVault(File(p)) /\ session.live /\ ~Runs(p, {"unlock"})
    <3> DEFINE r == [proc[p] EXCEPT !.at = "load", !.key = session.key]
    <3>1. Fits(r)
      BY <1>p, <2>3 DEF OfOneHeader, SessionFits, OfThisVault, File, Fits, HasKey, Opened, Holding, Process
    <3>2. proc' = [proc EXCEPT ![p] = proc'[p]] /\ proc'[p] = r
      BY <1>2, <1>p, <2>3 DEF loadSession, Process
    <3>3. QED
      BY <1>f, <2>0, <3>1, <3>2, SessionKept, OthersFit
  <2>4. QED
    BY <1>2, <2>1, <2>2, <2>3 DEF loadSession
<1>3. CASE clearSession(p)
  <2>1. SessionFits'
    BY <1>3 DEF clearSession, SessionFits
  <2>2. CASE Exit(p)
    BY <1>f, <2>1, <2>2, ExitFits
  <2>3. CASE Goto(p, NoSession(p))
    <3>1. Fits([proc[p] EXCEPT !.at = NoSession(p)]) /\ NoSession(p) \in Steps
      BY <1>3, <1>p DEF clearSession, At, NoSession, Runs, Fits, HasKey, Opened, Holding, Opening, Process, Steps
    <3>2. QED
      BY <1>f, <2>1, <2>3, <3>1, GoesFits
  <2>4. QED
    BY <1>3, <2>2, <2>3 DEF clearSession
<1>4. CASE promptPassword(p)
  <2>1. ASSUME NEW step \in {"check", "unlock"} PROVE Fits([proc[p] EXCEPT !.at = step])
    BY <1>p, <2>1 DEF Fits, HasKey, Opened, Holding, Process
  <2>2. QED
    BY <1>4, <1>f, <2>1, SessionKept, GoesFits DEF promptPassword, Steps
<1>5. CASE loadVaultFile(p) /\ ~Exit(p)
  <2> DEFINE r == [proc[p] EXCEPT !.at = Unlocked(p), !.vault = vault[File(p)]]
  <2>1. At(p, "load") /\ proc[p].cmd \in {"add", "remove"} /\ File(p) \in Files /\ vaultExists(File(p))
    BY <1>5, <1>p DEF loadVaultFile, At, Runs, File, Knows, CommandsAt, Opening
  <2>2. proc' = [proc EXCEPT ![p] = proc'[p]] /\ proc'[p] = r /\ UNCHANGED session
    BY <1>5, <1>p DEF loadVaultFile, Process
  <2>3. File(p) \in Steady => AllSealed(vault[File(p)])
    BY <2>1 DEF OfOneHeader, Sealed, EntriesOpenIn, AllSealed, vaultExists
  <2>4. Fits(r)
    BY <1>p, <2>1, <2>3 DEF At, File, Unlocked, Runs, Fits, HasKey, Opened, Holding, Opening, Process
  <2>5. QED
    BY <1>f, <2>2, <2>4, SessionKept, OthersFit
<1>6. CASE unlockVault(p) /\ ~Exit(p)
  <2> DEFINE r == [proc[p] EXCEPT !.at = "truncate", !.vault = vault[File(p)], !.key = vault[File(p)].header]
  <2>1. At(p, "unlock") /\ File(p) \in Files /\ vaultExists(File(p))
    BY <1>6, <1>p DEF unlockVault, At, File, Knows
  <2>2. proc' = [proc EXCEPT ![p] = proc'[p]] /\ proc'[p] = r /\ UNCHANGED session
    BY <1>6, <1>p DEF unlockVault, Process
  <2>3. File(p) \in Steady => AllSealed(vault[File(p)])
    BY <2>1 DEF OfOneHeader, Sealed, EntriesOpenIn, AllSealed, vaultExists
  <2>4. vault[File(p)] \in Vault
    BY <2>1, LoadedOneEach
  <2>5. Fits(r)
    BY <1>p, <2>1, <2>3, <2>4 DEF At, File, Fits, HasKey, Opened, Holding, Process
  <2>6. QED
    BY <1>f, <2>2, <2>5, SessionKept, OthersFit
<1>7. CASE Truncate(p)
  <2>1. SessionFits'
    BY <1>7 DEF Truncate, SessionFits
  <2>2. Fits([proc[p] EXCEPT !.at = "cache"])
    BY <1>7, <1>p DEF Truncate, At, Fits, HasKey, Opened, Holding, Process
  <2>3. QED
    BY <1>7, <1>f, <2>1, <2>2, GoesFits DEF Truncate, Steps
<1>8. CASE saveSession(p)
  <2>1. At(p, "cache") /\ File(p) \in Files
    BY <1>8, <1>p DEF saveSession, At, File, Knows
  <2>2. SessionFits'
    BY <1>8, <1>p, <1>f, <2>1 DEF saveSession, SessionFits, Fits, HasKey, Opened, At, File, Steady
  <2>3. CASE Exit(p)
    BY <1>f, <2>2, <2>3, ExitFits
  <2>4. CASE Goto(p, Unlocked(p))
    <3>1. Fits([proc[p] EXCEPT !.at = Unlocked(p)]) /\ Unlocked(p) \in Steps
      BY <1>p, <2>1 DEF At, Unlocked, Runs, Fits, HasKey, Opened, Holding, Process, Steps
    <3>2. QED
      BY <1>f, <2>2, <2>4, <3>1, GoesFits
  <2>5. QED
    BY <1>8, <2>3, <2>4 DEF saveSession
<1>9. CASE addEntry(p) /\ ~Exit(p)
  <2> DEFINE v == proc[p].vault
             e == [label |-> proc[p].label, key |-> proc[p].key]
             w == [v EXCEPT !.entries = @ \cup {e}]
             r == [proc[p] EXCEPT !.at = "rename", !.vault = w]
  <2>1. At(p, "value") /\ v \in Vault /\ proc[p].cmd = "add" /\ UNCHANGED session
    BY <1>9, <1>p DEF addEntry, At, Knows, CommandsAt, Holding, Opened
  <2>2. proc' = [proc EXCEPT ![p] = proc'[p]] /\ proc'[p] = r
    BY <1>9, <1>p DEF addEntry, Write, Process
  <2>3. w.header = v.header /\ (AllSealed(v) /\ proc[p].key = v.header => AllSealed(w))
    BY <2>1 DEF Vault, AllSealed
  <2>4. Fits(r)
    BY <1>p, <2>1, <2>3 DEF At, Fits, HasKey, Opened, Holding, Process
  <2>5. QED
    BY <1>f, <2>1, <2>2, <2>4, SessionKept, OthersFit
<1>10. CASE removeEntry(p) /\ ~Exit(p)
  <2> DEFINE v == proc[p].vault
             match == {e \in v.entries : e.label = proc[p].label}
             w == [v EXCEPT !.entries = @ \ match]
             r == [proc[p] EXCEPT !.at = "rename", !.vault = w]
  <2>1. At(p, "pick") /\ v \in Vault /\ proc[p].cmd = "remove" /\ UNCHANGED session
    BY <1>10, <1>p DEF removeEntry, At, Knows, CommandsAt, Holding, Opened
  <2>2. proc' = [proc EXCEPT ![p] = proc'[p]] /\ proc'[p] = r
    BY <1>10, <1>p DEF removeEntry, Write, Process
  <2>3. w.header = v.header /\ (AllSealed(v) => AllSealed(w))
    BY <2>1 DEF Vault, AllSealed
  <2>4. Fits(r)
    BY <1>p, <2>1, <2>3 DEF At, Fits, HasKey, Opened, Holding, Process
  <2>5. QED
    BY <1>f, <2>1, <2>2, <2>4, SessionKept, OthersFit
<1>11. CASE initVault(p) /\ ~Exit(p)
  <2> DEFINE r == [proc[p] EXCEPT !.at = "rename", !.vault = [header |-> headers + 1, entries |-> {}]]
  <2>1. proc[p].cmd = "init" /\ UNCHANGED session
    BY <1>11, <1>p DEF initVault, At, Knows, CommandsAt
  <2>2. proc' = [proc EXCEPT ![p] = proc'[p]] /\ proc'[p] = r
    BY <1>11, <1>p DEF initVault, Write, Process
  <2>3. Fits(r)
    BY <1>p, <2>1 DEF Fits, HasKey, Opened, Process
  <2>4. QED
    BY <1>f, <2>1, <2>2, <2>3, SessionKept, OthersFit
<1>12. QED
  BY <1>s, <1>1, <1>2, <1>3, <1>4, <1>5, <1>6, <1>7, <1>8, <1>9, <1>10, <1>11
     DEF Step, Exists, loadSession, loadVaultFile, unlockVault, addEntry, removeEntry, initVault, Crash

\* What a rename puts into a steady file: a first vault, or the same header again.
LEMMA RenameOfOneHeader ==
    ASSUME Sound, OfOneHeader, NEW p \in Procs, Rename(p)
    PROVE  OfOneHeader'
<1> DEFINE f == proc[p].file
           v == proc[p].vault
<1>1. f \in Files /\ v \in Vault /\ proc[p].cmd \in {"init", "add", "remove"} /\ proc[p].at = "rename"
  BY DEF Rename, At, Sound, Processes, Knows, CommandsAt, Holding
<1>2. vault' = [vault EXCEPT ![f] = v] /\ vault'[f] = v /\ UNCHANGED <<session, deleted>>
  BY <1>1 DEF Rename, File, Sound, TypeOK
<1>3. Steady' \subseteq Steady
  BY DEF Rename, Steady
<1>4. ASSUME f \in Steady'
      PROVE  AllSealed(v) /\ (vault[f] \in Vault => v.header = vault[f].header)
  <2>1. f \in Steady /\ Fits(proc[p])
    BY <1>3, <1>4 DEF OfOneHeader
  <2>2. CASE proc[p].cmd = "init"
    <3>1. vault[f] = None
      BY <1>4, <2>2 DEF Rename, Runs, File, vaultExists, Steady
    <3>2. v.entries = {}
      BY <1>1, <2>1, <2>2 DEF Fits
    <3>3. QED
      BY <3>1, <3>2, NoneAssumption DEF AllSealed, NoneAssumption
  <2>3. CASE proc[p].cmd \in {"add", "remove"}
    BY <1>1, <2>1, <2>3 DEF Fits, Holding
  <2>4. QED
    BY <1>1, <2>2, <2>3
<1>5. ASSUME NEW g \in Steady', vault[g] \in Vault
      PROVE  vault'[g] \in Vault /\ vault'[g].header = vault[g].header
  BY <1>1, <1>2, <1>4, <1>5 DEF Sound, TypeOK, Steady
<1>6. SessionFits'
  BY <1>2, <1>3, <1>5 DEF OfOneHeader, SessionFits
<1>7. Sealed'
  <2> SUFFICES ASSUME NEW g \in Steady' PROVE EntriesOpenIn(g)'
    BY DEF Sealed
  <2>1. CASE g = f
    BY <1>2, <1>4, <2>1 DEF EntriesOpenIn, AllSealed
  <2>2. CASE g # f
    BY <1>1, <1>2, <1>3, <2>2 DEF OfOneHeader, Sealed, EntriesOpenIn, Sound, TypeOK, Steady
  <2>3. QED
    BY <2>1, <2>2
<1>8. ASSUME NEW q \in Procs PROVE Fits(proc[q])'
  <2>1. CASE q = p
    BY <2>1 DEF Rename, Exit, Sound, Processes, Fits, Idle
  <2>2. CASE q # p
    <3>1. proc'[q] = proc[q] /\ Fits(proc[q])
      BY <2>2 DEF Rename, Exit, Sound, Processes, OfOneHeader
    <3>2. QED
      BY <1>3, <1>5, <3>1 DEF Fits
  <2>3. QED
    BY <2>1, <2>2
<1>9. QED
  BY <1>6, <1>7, <1>8 DEF OfOneHeader

LEMMA HeaderStep == Sound /\ OfOneHeader /\ [Next]_vars => OfOneHeader'
<1> SUFFICES ASSUME Sound, OfOneHeader, [Next]_vars PROVE OfOneHeader'
  OBVIOUS
<1>1. ASSUME NEW p \in Procs, Step(p) PROVE OfOneHeader'
  BY <1>1, StepOfOneHeader, RenameOfOneHeader
<1>2. ASSUME NEW p \in Procs, NEW cmd \in Commands, NEW f \in Files, NEW l \in Labels,
             Start(p, cmd, f, l)
      PROVE  OfOneHeader'
  <2> DEFINE step == IF cmd = "lock" THEN "clear" ELSE "exists"
             r == [Idle EXCEPT !.at = step, !.cmd = cmd, !.file = f, !.label = l]
  <2>1. Fits(r)
    BY DEF Fits, Idle, HasKey, Opened, Holding
  <2>2. proc' = [proc EXCEPT ![p] = proc'[p]] /\ proc'[p] = r
    BY <1>2 DEF Start, Sound, Processes
  <2>3. UNCHANGED <<vault, session, deleted, overlapped>>
    BY <1>2 DEF Start, history
  <2>4. QED
    BY <2>1, <2>2, <2>3, SessionKept, OthersFit
<1>3. ASSUME NEW f \in Files, Delete(f) PROVE OfOneHeader'
  <2>1. /\ Steady' = Steady \ {f} /\ UNCHANGED <<session, proc>>
        /\ \A g \in Files \ {f} : vault'[g] = vault[g]
    BY <1>3 DEF Delete, Steady, Sound, TypeOK
  <2>2. SessionFits'
    BY <2>1 DEF OfOneHeader, SessionFits, Steady
  <2>3. Sealed'
    BY <2>1 DEF OfOneHeader, Sealed, EntriesOpenIn, Steady
  <2>4. ASSUME NEW q \in Procs PROVE Fits(proc[q])'
    BY <2>1 DEF OfOneHeader, Fits, Steady
  <2>5. QED
    BY <2>2, <2>3, <2>4 DEF OfOneHeader
<1>4. CASE Expire
  <2>1. UNCHANGED <<vault, proc, deleted, overlapped>>
    BY <1>4 DEF Expire, history
  <2>2. session \in Session /\ session'.file = session.file /\ session'.key = session.key
    BY <1>4 DEF Expire, Sound, TypeOK, Session
  <2>3. SessionFits'
    BY <1>4, <2>1, <2>2 DEF Expire, OfOneHeader, SessionFits, Steady
  <2>4. QED
    BY <2>1, <2>3 DEF OfOneHeader, Sealed, EntriesOpenIn, Fits, Steady
<1>5. CASE UNCHANGED vars
  BY <1>5 DEF vars, history, OfOneHeader, SessionFits, Sealed, EntriesOpenIn, Fits, Steady
<1>6. QED
  BY <1>1, <1>2, <1>3, <1>4, <1>5 DEF Next

\* A file that was not deleted and that no overlapping init renamed over has entries
\* that all open with the key of its header, and no label twice, whichever processes
\* add and remove at once, under a key typed in or cached in the session file
\* (lib/backend.cjs loadSession, addEntry, saveVaultFile).
THEOREM EntriesAlwaysOpen == Spec => []EntriesOpen
<1>1. Init => Sound /\ OfOneHeader
  BY InitSound
<1>2. Sound /\ OfOneHeader /\ [Next]_vars => Sound' /\ OfOneHeader'
  BY SoundStep, HeaderStep
<1>3. Sound /\ OfOneHeader => EntriesOpen
  BY DEF Sound, Distinct, OneEach, OfOneHeader, Sealed, Steady, EntriesOpen
<1>4. QED
  BY <1>1, <1>2, <1>3, PTL DEF Spec

-----------------------------------------------------------------------------
\* A file that only one command at a time was changing.
Calm == Steady \ raced
LabelsOf(v) == {e.label : e \in v.entries}

\* A process that saw every save of a calm file holds its content, and at the rename
\* its content with the one change it was asked for.
Current(r, behind) ==
    r.at # "idle" /\ r.file \in Calm /\ ~behind =>
        /\ r.at \in Opened => r.vault = vault[r.file]
        /\ r.at = "rename" /\ r.cmd = "add" => LabelsOf(r.vault) = LabelsOf(vault[r.file]) \cup {r.label}
        /\ r.at = "rename" /\ r.cmd = "remove" => LabelsOf(r.vault) = LabelsOf(vault[r.file]) \ {r.label}

AckedIn(f) == acked[f] = IF vault[f] = None THEN {} ELSE LabelsOf(vault[f])
Told == (\A f \in Calm : AckedIn(f)) /\ \A p \in Procs : Current(proc[p], saved[p])

LEMMA LabelsOfMore ==
    ASSUME NEW v, NEW w, NEW e, w.entries = v.entries \cup {e}
    PROVE  LabelsOf(w) = LabelsOf(v) \cup {e.label}
BY DEF LabelsOf

LEMMA OthersCurrent ==
    ASSUME Sound, Told, NEW p \in Procs,
           \A q \in Procs \ {p} : proc'[q] = proc[q] /\ saved'[q] = saved[q],
           Current(proc'[p], saved'[p]), UNCHANGED <<vault, acked, raced, deleted, overlapped>>
    PROVE  Told'
<1>1. ASSUME NEW q \in Procs PROVE Current(proc[q], saved[q])'
  <2>1. Current(proc'[q], saved'[q])
    BY DEF Told
  <2>2. QED
    BY <2>1 DEF Current, Calm, Steady
<1>2. QED
  BY <1>1 DEF Told, AckedIn, Calm, Steady

LEMMA StepTold ==
    ASSUME Sound, Told, NEW p \in Procs, Step(p), ~Rename(p)
    PROVE  Told'
<1>p. Knows(proc[p]) /\ proc[p] \in Process /\ proc \in [Procs -> Process] /\ Current(proc[p], saved[p])
  BY DEF Sound, Processes, Told
<1>t. saved \in [Procs -> BOOLEAN]
  BY DEF Sound, TypeOK
<1>f. UNCHANGED <<vault, acked, raced, deleted, overlapped>>
  BY DEF Step, Exists, loadSession, clearSession, promptPassword, loadVaultFile, unlockVault,
         Truncate, saveSession, addEntry, removeEntry, initVault, Crash, history
<1>o. \A q \in Procs \ {p} : proc'[q] = proc[q] /\ saved'[q] = saved[q]
  BY <1>p, <1>t DEF Step, Exists, loadSession, clearSession, promptPassword, loadVaultFile, unlockVault,
         Truncate, saveSession, addEntry, removeEntry, initVault, Crash, history, Exit, Goto, Write, Loads
<1> SUFFICES Current(proc'[p], saved'[p])
  BY <1>f, <1>o, OthersCurrent
<1>s. CASE Exit(p)
  BY <1>p, <1>s DEF Exit, Idle, Current
\* The steps that leave a process without a vault in its hands.
<1>1. CASE proc'[p].at \notin Holding
  BY <1>1 DEF Current, Holding
<1>2. CASE loadVaultFile(p) /\ ~Exit(p)
  BY <1>p, <1>t, <1>2 DEF loadVaultFile, Unlocked, Process, File, Current
<1>3. CASE unlockVault(p) /\ ~Exit(p)
  BY <1>p, <1>t, <1>3 DEF unlockVault, Process, File, Current
\* The steps that keep the vault a process has.
<1>4. CASE Truncate(p) \/ (saveSession(p) /\ ~Exit(p))
  <2>1. /\ proc[p].at \in Opened /\ saved'[p] = saved[p]
        /\ proc'[p].vault = proc[p].vault /\ proc'[p].file = proc[p].file /\ proc'[p].at # "rename"
    BY <1>p, <1>4 DEF Truncate, saveSession, Goto, Unlocked, At, Opened, Process, history
  <2>2. QED
    BY <1>p, <2>1 DEF Current, Opened
<1>5. CASE addEntry(p) /\ ~Exit(p)
  <2> DEFINE v == proc[p].vault
             e == [label |-> proc[p].label, key |-> proc[p].key]
             w == [v EXCEPT !.entries = @ \cup {e}]
  <2>1. proc[p].at \in Opened /\ v \in Vault /\ proc[p].cmd = "add" /\ saved'[p] = saved[p]
    BY <1>p, <1>5 DEF addEntry, At, Knows, CommandsAt, Holding, Opened, history
  <2>2. proc'[p] = [proc[p] EXCEPT !.at = "rename", !.vault = w]
    BY <1>p, <1>5 DEF addEntry, Write, Process
  <2>3. w.entries = v.entries \cup {e}
    BY <2>1 DEF Vault
  <2>4. LabelsOf(w) = LabelsOf(v) \cup {proc[p].label}
    <3>1. e.label = proc[p].label
      OBVIOUS
    <3> HIDE DEF v, w, e
    <3>2. QED
      BY <2>3, <3>1, LabelsOfMore
  <2>5. QED
    BY <1>p, <2>1, <2>2, <2>4 DEF Current, Process, Opened
<1>6. CASE removeEntry(p) /\ ~Exit(p)
  <2> DEFINE v == proc[p].vault
             match == {e \in v.entries : e.label = proc[p].label}
             w == [v EXCEPT !.entries = @ \ match]
  <2>1. proc[p].at \in Opened /\ v \in Vault /\ proc[p].cmd = "remove" /\ saved'[p] = saved[p]
    BY <1>p, <1>6 DEF removeEntry, At, Knows, CommandsAt, Holding, Opened, history
  <2>2. proc'[p] = [proc[p] EXCEPT !.at = "rename", !.vault = w]
    BY <1>p, <1>6 DEF removeEntry, Write, Process
  <2>3. w.entries = v.entries \ match
    BY <2>1 DEF Vault
  <2>4. LabelsOf(w) = LabelsOf(v) \ {proc[p].label}
    BY <2>3 DEF LabelsOf
  <2>5. QED
    BY <1>p, <2>1, <2>2, <2>4 DEF Current, Process, Opened
<1>7. CASE initVault(p) /\ ~Exit(p)
  <2>1. proc[p].cmd = "init" /\ proc'[p].at = "rename" /\ proc'[p].cmd = proc[p].cmd
    BY <1>p, <1>7 DEF initVault, At, Knows, CommandsAt, Write, Process
  <2>2. QED
    BY <2>1 DEF Current, Opened
<1>8. CASE Exists(p) \/ loadSession(p) \/ clearSession(p) \/ promptPassword(p)
  <2>1. proc'[p].at \in {"idle", "prompt", "load", "session", "clear", "unlock", "check"}
    BY <1>p, <1>8 DEF Exists, loadSession, clearSession, promptPassword, NoSession, Exit, Goto, Idle, Process
  <2>2. QED
    BY <1>1, <2>1 DEF Holding, Opened
<1>9. QED
  BY <1>s, <1>2, <1>3, <1>4, <1>5, <1>6, <1>7, <1>8 DEF Step, Crash

LEMMA RenameTold ==
    ASSUME Sound, OfOneHeader, Told, NEW p \in Procs, Rename(p)
    PROVE  Told'
<1> DEFINE f == proc[p].file
           v == proc[p].vault
           l == proc[p].label
<1>1. f \in Files /\ v \in Vault /\ proc[p].cmd \in {"init", "add", "remove"} /\ proc[p].at = "rename"
  BY DEF Rename, At, Sound, Processes, Knows, CommandsAt, Holding
<1>2. vault'[f] = v /\ \A g \in Files \ {f} : vault'[g] = vault[g]
  BY <1>1 DEF Rename, File, Sound, TypeOK
<1>3. Steady' \subseteq Steady /\ Calm' \subseteq Calm /\ Calm' \subseteq Steady'
  BY DEF Rename, Calm, Steady
<1>4. acked'[f] = Acknowledged(p) /\ \A g \in Files \ {f} : acked'[g] = acked[g]
  BY <1>1 DEF Rename, File, Sound, TypeOK
<1>5. ASSUME f \in Calm' PROVE Acknowledged(p) = LabelsOf(v)
  <2>1. f \in Steady /\ f \in Calm /\ Fits(proc[p]) /\ Current(proc[p], saved[p]) /\ AckedIn(f)
    BY <1>3, <1>5 DEF OfOneHeader, Told
  <2>2. CASE proc[p].cmd = "init"
    BY <1>1, <2>1, <2>2 DEF Fits, LabelsOf, Acknowledged, Runs
  <2>3. CASE proc[p].cmd \in {"add", "remove"}
    <3>1. ~saved[p]
      BY <1>5, <2>3 DEF Rename, Runs, File, Calm
    <3>2. vault[f] \in Vault
      BY <1>1, <2>1, <2>3 DEF Fits, Holding
    <3>3. acked[f] = LabelsOf(vault[f])
      BY <2>1, <3>2, NoneAssumption DEF AckedIn, NoneAssumption
    <3>4. CASE proc[p].cmd = "add"
      <4>1. LabelsOf(v) = LabelsOf(vault[f]) \cup {l}
        BY <1>1, <2>1, <3>1, <3>4 DEF Current
      <4>2. Acknowledged(p) = acked[f] \cup {l}
        BY <3>4 DEF Acknowledged, Runs, File
      <4>3. QED
        BY <3>3, <4>1, <4>2
    <3>5. CASE proc[p].cmd = "remove"
      <4>1. LabelsOf(v) = LabelsOf(vault[f]) \ {l}
        BY <1>1, <2>1, <3>1, <3>5 DEF Current
      <4>2. Acknowledged(p) = acked[f] \ {l}
        BY <3>5 DEF Acknowledged, Runs, File
      <4>3. QED
        BY <3>3, <4>1, <4>2
    <3>6. QED
      BY <2>3, <3>4, <3>5
  <2>4. QED
    BY <1>1, <2>2, <2>3
<1>6. ASSUME NEW g \in Calm' PROVE AckedIn(g)'
  <2>1. CASE g = f
    <3>1. vault'[f] = v /\ v # None
      BY <1>1, <1>2, NoneAssumption DEF NoneAssumption
    <3>2. acked'[f] = LabelsOf(v)
      BY <1>4, <1>5, <1>6, <2>1
    <3>3. QED
      BY <2>1, <3>1, <3>2 DEF AckedIn
  <2>2. CASE g # f
    <3>1. g \in Files \ {f} /\ AckedIn(g)
      BY <1>3, <2>2 DEF Told, Calm, Steady
    <3>2. QED
      BY <1>2, <1>4, <3>1 DEF AckedIn
  <2>3. QED
    BY <2>1, <2>2
<1>7. ASSUME NEW q \in Procs PROVE Current(proc[q], saved[q])'
  <2>1. CASE q = p
    BY <2>1 DEF Rename, Exit, Sound, Processes, Current, Idle
  <2>2. CASE q # p /\ proc[q].file = f
    <3>1. saved'[q]
      BY <2>2 DEF Rename, File
    <3>2. QED
      BY <3>1 DEF Current
  <2>3. CASE q # p /\ proc[q].file # f
    <3>1. proc'[q] = proc[q] /\ saved'[q] = saved[q] /\ Current(proc[q], saved[q])
      BY <2>3 DEF Rename, Exit, File, Sound, Processes, Told, TypeOK
    <3>2. proc[q].file \in Calm' => proc[q].file \in Calm /\ vault'[proc[q].file] = vault[proc[q].file]
      BY <1>2, <1>3, <2>3 DEF Calm, Steady
    <3>3. QED
      BY <3>1, <3>2 DEF Current
  <2>4. QED
    BY <2>1, <2>2, <2>3
<1>8. QED
  BY <1>6, <1>7 DEF Told

LEMMA ToldStep == Sound /\ OfOneHeader /\ Told /\ [Next]_vars => Told'
<1> SUFFICES ASSUME Sound, OfOneHeader, Told, [Next]_vars PROVE Told'
  OBVIOUS
<1>1. ASSUME NEW p \in Procs, Step(p) PROVE Told'
  BY <1>1, StepTold, RenameTold
<1>2. ASSUME NEW p \in Procs, NEW cmd \in Commands, NEW f \in Files, NEW l \in Labels,
             Start(p, cmd, f, l)
      PROVE  Told'
  <2>1. proc'[p].at \in {"exists", "clear"} /\ \A q \in Procs \ {p} : proc'[q] = proc[q]
    BY <1>2 DEF Start, Sound, Processes, Idle
  <2>2. UNCHANGED <<vault, acked, saved, raced, deleted, overlapped>>
    BY <1>2 DEF Start, history
  <2>3. Current(proc'[p], saved'[p])
    BY <2>1 DEF Current, Opened
  <2>4. QED
    BY <2>1, <2>2, <2>3, OthersCurrent
<1>3. ASSUME NEW f \in Files, Delete(f) PROVE Told'
  <2>1. /\ Calm' = Calm \ {f} /\ UNCHANGED <<proc, acked, saved>>
        /\ \A g \in Files \ {f} : vault'[g] = vault[g]
    BY <1>3 DEF Delete, Calm, Steady, Sound, TypeOK
  <2>2. ASSUME NEW g \in Calm' PROVE AckedIn(g)'
    BY <2>1, <2>2 DEF Told, AckedIn, Calm, Steady
  <2>3. ASSUME NEW q \in Procs PROVE Current(proc[q], saved[q])'
    BY <2>1 DEF Told, Current, Calm, Steady
  <2>4. QED
    BY <2>2, <2>3 DEF Told
<1>4. CASE Expire \/ UNCHANGED vars
  <2>1. UNCHANGED <<vault, proc, acked, saved, raced, deleted, overlapped>>
    BY <1>4 DEF Expire, history, vars
  <2>2. QED
    BY <2>1 DEF Told, AckedIn, Current, Calm, Steady
<1>5. QED
  BY <1>1, <1>2, <1>3, <1>4 DEF Next

\* The user of a calm file was told what is in it: an add or remove acknowledged by
\* any process is in the file, and nothing else is, wherever processes were killed
\* between the load and the rename (lib/backend.cjs saveVaultFile).
THEOREM AcknowledgedStays == Spec => []AcknowledgedIsSaved
<1>1. Init => Told
  BY DEF Init, Told, AckedIn, Current, Idle, Calm, Steady
<1>2. Init => Sound /\ OfOneHeader
  BY InitSound
<1>3. Sound /\ OfOneHeader /\ Told /\ [Next]_vars => Sound' /\ OfOneHeader' /\ Told'
  BY SoundStep, HeaderStep, ToldStep
<1>4. Told => AcknowledgedIsSaved
  BY DEF Told, AckedIn, LabelsOf, Calm, Steady, AcknowledgedIsSaved
<1>5. QED
  BY <1>1, <1>2, <1>3, <1>4, PTL DEF Spec

-----------------------------------------------------------------------------
(* Mcp.                                                                    *)

Answer == [line : Nat, id : Nat \cup {NoId}, keyed : BOOLEAN,
           kind : {"result", "parse", "invalidRequest", "invalidParams", "methodNotFound",
                   "isError", "content"}]

\* What an answer says of its line.
Matching(x, s) ==
    /\ x.id = IF s[x.line].id THEN x.line ELSE NoId
    /\ x.keyed => s[x.line].call.tool # "exec" \/ x.kind = "isError"

\* The first n lines are settled, and nothing is answered beyond them.
Settled(a, s, n) ==
    /\ a \in Seq(Answer)
    /\ \A k \in DOMAIN a : a[k].line \in 1..n /\ Matching(a[k], s)
    /\ \A j, k \in DOMAIN a : j < k => a[j].line < a[k].line
    /\ \A i \in 1..n : IsRequest(s[i]) => \E k \in DOMAIN a : a[k].line = i

StdinInv ==
    /\ sent \in Seq(Lines) /\ Len(sent) <= MaxLines
    /\ pieces \in Nat /\ pieces <= 2 * Len(sent)
    /\ arrived \in Nat /\ arrived <= pieces
    /\ taken \in Nat /\ taken <= Len(sent)

\* All lines taken are settled but the one whose tool call is waited for.
McpInv ==
    /\ StdinInv /\ asked \in BOOLEAN
    /\ IF asked THEN taken >= 1 /\ Settled(answers, sent, taken - 1)
       ELSE Settled(answers, sent, taken)

LEMMA AnswerSettles ==
    ASSUME NEW a, NEW s, NEW n \in Nat, Settled(a, s, n), NEW x \in Answer, x.line = n + 1, Matching(x, s)
    PROVE  Settled(Append(a, x), s, n + 1)
<1> DEFINE b == Append(a, x)
<1>1. a \in Seq(Answer) /\ Len(a) \in Nat
  BY DEF Settled
<1>2. /\ b \in Seq(Answer) /\ Len(b) = Len(a) + 1 /\ b[Len(a) + 1] = x
      /\ \A k \in 1..Len(a) : b[k] = a[k]
      /\ DOMAIN a = 1..Len(a) /\ DOMAIN b = 1..(Len(a) + 1)
  BY <1>1
<1> HIDE DEF b
<1>3. ASSUME NEW k \in DOMAIN b PROVE (k \in DOMAIN a /\ b[k] = a[k]) \/ (k = Len(a) + 1 /\ b[k] = x)
  BY <1>1, <1>2
<1>4. \A k \in DOMAIN a : a[k].line \in 1..n /\ Matching(a[k], s)
  BY DEF Settled
<1>5. \A k \in DOMAIN b : b[k].line \in 1..(n + 1) /\ Matching(b[k], s)
  BY <1>3, <1>4
<1>6. \A j, k \in DOMAIN b : j < k => b[j].line < b[k].line
  <2> SUFFICES ASSUME NEW j \in DOMAIN b, NEW k \in DOMAIN b, j < k PROVE b[j].line < b[k].line
    OBVIOUS
  <2>1. j \in DOMAIN a /\ b[j] = a[j]
    BY <1>1, <1>2
  <2>2. CASE k \in DOMAIN a /\ b[k] = a[k]
    BY <2>1, <2>2 DEF Settled
  <2>3. CASE k = Len(a) + 1 /\ b[k] = x
    BY <1>4, <2>1, <2>3
  <2>4. QED
    BY <1>3, <2>2, <2>3
<1>7. ASSUME NEW i \in 1..(n + 1), IsRequest(s[i]) PROVE \E k \in DOMAIN b : b[k].line = i
  <2>1. CASE i = n + 1
    BY <1>1, <1>2, <2>1
  <2>2. CASE i \in 1..n
    <3>1. PICK k \in DOMAIN a : a[k].line = i
      BY <1>7, <2>2 DEF Settled
    <3>2. k \in DOMAIN b /\ b[k] = a[k]
      BY <1>1, <1>2, <3>1
    <3>3. QED
      BY <3>1, <3>2
  <2>3. QED
    BY <2>1, <2>2
<1>8. QED
  BY <1>2, <1>5, <1>6, <1>7 DEF Settled, b

LEMMA NothingToAnswer ==
    ASSUME NEW a, NEW s, NEW n \in Nat, Settled(a, s, n), ~ IsRequest(s[n + 1])
    PROVE  Settled(a, s, n + 1)
<1>1. \A k \in DOMAIN a : a[k].line \in 1..(n + 1) /\ Matching(a[k], s)
  BY DEF Settled
<1>2. \A i \in 1..(n + 1) : IsRequest(s[i]) => \E k \in DOMAIN a : a[k].line = i
  BY DEF Settled
<1>3. QED
  BY <1>1, <1>2 DEF Settled

LEMMA LineSent ==
    ASSUME NEW a, NEW s \in Seq(Lines), NEW n \in Nat, n <= Len(s), Settled(a, s, n), NEW l \in Lines
    PROVE  Settled(a, Append(s, l), n)
<1> DEFINE t == Append(s, l)
<1>1. \A i \in 1..n : t[i] = s[i]
  OBVIOUS
<1> HIDE DEF t
<1>2. \A k \in DOMAIN a : a[k].line \in 1..n /\ Matching(a[k], t)
  BY <1>1 DEF Settled, Matching
<1>3. \A i \in 1..n : IsRequest(t[i]) => \E k \in DOMAIN a : a[k].line = i
  BY <1>1 DEF Settled
<1>4. QED
  BY <1>2, <1>3 DEF Settled, t

\* What handleRpc writes: nothing, or one answer to the line, and a request always
\* gets one.
LEMMA OneAnswerAtMost ==
    ASSUME NEW i \in Nat
    PROVE  \/ handleRpc(i) = <<>> /\ ~ IsRequest(sent[i])
           \/ \E x \in Answer : handleRpc(i) = <<x>> /\ x.line = i /\ Matching(x, sent)
<1> DEFINE l == sent[i]
           Says(kind) == [line |-> i, id |-> IdOf(i), kind |-> kind, keyed |-> FALSE]
           Kinds == {"result", "parse", "invalidRequest", "invalidParams", "methodNotFound",
                     "isError", "content"}
<1>1. \A kind \in Kinds : Says(kind) \in Answer /\ Says(kind).line = i /\ Matching(Says(kind), sent)
  BY DEF Answer, Matching, IdOf
<1>2. Refused(i) \in {<<Says("isError")>>, <<Says("content")>>}
  BY DEF Refused, ToolAnswer
<1>3. ok(i) = <<Says("result")>> /\ \A kind : err(i, kind) = <<Says(kind)>>
  BY DEF ok, err
<1> HIDE DEF Says
<1>4. (handleRpc(i) = <<>> /\ ~ IsRequest(l)) \/ \E kind \in Kinds : handleRpc(i) = <<Says(kind)>>
  <2>1. CASE l.form = "garbage"
    BY <1>3, <2>1 DEF handleRpc, parseRpcLine, IsCall
  <2>2. CASE l.form = "alien"
    BY <1>3, <2>2 DEF handleRpc, parseRpcLine, IsRequest, IsCall
  <2>3. CASE l.form = "rpc" /\ l.method \in Acks
    BY <2>3 DEF handleRpc, parseRpcLine, IsRequest, IsCall, Acks, Served
  <2>4. CASE l.form = "rpc" /\ l.method \in Served
    BY <1>3, <2>4 DEF handleRpc, parseRpcLine, IsCall, Acks, Served
  <2>5. CASE l.form = "rpc" /\ l.method = "tools/call"
    BY <1>2, <1>3, <2>5 DEF handleRpc, parseRpcLine, IsCall, Acks, Served
  <2>6. CASE l.form \notin {"garbage", "alien", "rpc"}
    BY <1>3, <2>6 DEF handleRpc, parseRpcLine, IsRequest, IsCall
  <2>7. CASE l.form = "rpc" /\ l.method \notin Acks \cup Served \cup {"tools/call"}
    BY <1>3, <2>7 DEF handleRpc, parseRpcLine, IsRequest, IsCall
  <2>8. QED
    BY <2>1, <2>2, <2>3, <2>4, <2>5, <2>6, <2>7
<1>5. QED
  BY <1>1, <1>4

LEMMA McpInitInv == McpInit => McpInv
<1> SUFFICES ASSUME McpInit PROVE McpInv
  OBVIOUS
<1>1. StdinInv
  BY LinesAssumption DEF LinesAssumption, McpInit, StdinInv
<1>2. Settled(<<>>, sent, 0)
  BY DEF Settled
<1>3. QED
  BY <1>1, <1>2 DEF McpInit, McpInv

LEMMA LinesSent == StdinInv => lines \in Nat /\ lines <= Len(sent)
BY DEF StdinInv, lines

LEMMA RunStdioStep == McpInv /\ runStdio => McpInv'
<1> SUFFICES ASSUME McpInv, runStdio PROVE McpInv'
  OBVIOUS
<1> DEFINE n == taken
<1>1. ~ asked /\ StdinInv /\ Settled(answers, sent, n) /\ n \in Nat
  BY DEF McpInv, runStdio, Awaited, StdinInv
<1>2. taken' = n + 1 /\ n < lines /\ UNCHANGED <<sent, pieces, arrived, ended>>
  BY DEF runStdio, stdin
<1>3. StdinInv'
  BY <1>1, <1>2, LinesSent DEF StdinInv
<1>4. CASE Waits(sent[n + 1])
  <2>1. asked' = TRUE /\ UNCHANGED answers
    BY <1>4 DEF runStdio
  <2>2. taken' >= 1 /\ taken' - 1 = n
    BY <1>1, <1>2
  <2>3. QED
    BY <1>1, <1>2, <1>3, <2>1, <2>2 DEF McpInv
<1>5. CASE ~ Waits(sent[n + 1])
  <2>1. answers' = answers \o handleRpc(n + 1) /\ asked' = FALSE
    BY <1>1, <1>5 DEF runStdio, McpInv
  <2>2. answers \in Seq(Answer)
    BY <1>1 DEF Settled
  <2>3. CASE handleRpc(n + 1) = <<>> /\ ~ IsRequest(sent[n + 1])
    <3>1. answers' = answers
      BY <2>1, <2>2, <2>3
    <3>2. Settled(answers, sent, n + 1)
      BY <1>1, <2>3, NothingToAnswer
    <3>3. QED
      BY <1>2, <1>3, <2>1, <3>1, <3>2 DEF McpInv
  <2>4. ASSUME NEW x \in Answer, handleRpc(n + 1) = <<x>>, x.line = n + 1, Matching(x, sent)
        PROVE  McpInv'
    <3>0. answers \o <<x>> = Append(answers, x)
      BY <2>2
    <3>1. answers' = Append(answers, x)
      BY <2>1, <2>4, <3>0
    <3>2. Settled(Append(answers, x), sent, n + 1)
      BY <1>1, <2>4, AnswerSettles
    <3>3. QED
      BY <1>2, <1>3, <2>1, <3>1, <3>2 DEF McpInv
  <2>5. n + 1 \in Nat
    BY <1>1
  <2>6. QED
    BY <2>3, <2>4, <2>5, OneAnswerAtMost
<1>6. QED
  BY <1>4, <1>5

LEMMA HandleToolCallStep ==
    ASSUME McpInv, NEW rejected \in BOOLEAN, NEW keyed \in BOOLEAN, handleToolCall(rejected, keyed)
    PROVE  McpInv'
<1> DEFINE n == taken - 1
           leaks == keyed /\ (rejected \/ sent[taken].call.tool # "exec")
           x == [line |-> taken, id |-> IdOf(taken),
                 kind |-> IF rejected THEN "isError" ELSE "content", keyed |-> leaks]
<1>1. asked /\ StdinInv /\ n \in Nat /\ taken = n + 1 /\ taken \in Nat /\ Settled(answers, sent, n)
  BY DEF McpInv, handleToolCall, StdinInv
<1>2. asked' = FALSE /\ answers' = answers \o <<x>> /\ UNCHANGED <<sent, pieces, arrived, ended, taken>>
  BY DEF handleToolCall, ToolAnswer, stdin
<1>3. leaks \in BOOLEAN
  BY Zenon
<1>4. leaks => rejected \/ sent[taken].call.tool # "exec"
  BY Zenon
<1> HIDE DEF leaks
<1>5. x \in Answer /\ x.line = n + 1
  BY <1>1, <1>3 DEF Answer, IdOf
<1>6. Matching(x, sent)
  BY <1>4 DEF Matching, IdOf
<1> HIDE DEF x, n
<1>7. answers' = Append(answers, x)
  BY <1>1, <1>2, <1>5 DEF Settled
<1>8. Settled(Append(answers, x), sent, n + 1)
  BY <1>1, <1>5, <1>6, AnswerSettles
<1>9. StdinInv'
  BY <1>1, <1>2 DEF StdinInv
<1>10. QED
  BY <1>1, <1>2, <1>7, <1>8, <1>9 DEF McpInv

LEMMA StdinStep ==
    ASSUME McpInv, (\E l \in Lines : WriteLine(l)) \/ WriteNewline \/ EndStdin
                   \/ \E n \in 1..(pieces - arrived) : Chunk(n)
    PROVE  McpInv'
<1>1. ASSUME NEW l \in Lines, WriteLine(l) PROVE McpInv'
  <2>1. sent' = Append(sent, l) /\ pieces' = pieces + 1 /\ UNCHANGED <<arrived, taken, asked, answers>>
        /\ Len(sent) < MaxLines /\ pieces = 2 * Len(sent)
    BY <1>1 DEF WriteLine
  <2>2. StdinInv'
    BY <2>1, LinesAssumption DEF McpInv, StdinInv, LinesAssumption
  <2>3. \A n \in Nat : n <= Len(sent) /\ Settled(answers, sent, n) => Settled(answers, sent', n)
    BY <1>1, <2>1, LineSent DEF McpInv, StdinInv
  <2>4. taken - 1 <= Len(sent) /\ taken <= Len(sent) /\ taken \in Nat
    BY DEF McpInv, StdinInv
  <2>5. asked => taken - 1 \in Nat
    BY <2>4 DEF McpInv
  <2>6. QED
    BY <2>1, <2>2, <2>3, <2>4, <2>5 DEF McpInv
<1>2. CASE WriteNewline
  BY <1>2 DEF WriteNewline, McpInv, StdinInv
<1>3. CASE EndStdin
  BY <1>3 DEF EndStdin, McpInv, StdinInv
<1>4. ASSUME NEW n \in 1..(pieces - arrived), Chunk(n) PROVE McpInv'
  BY <1>4 DEF Chunk, McpInv, StdinInv
<1>5. QED
  BY <1>1, <1>2, <1>3, <1>4

LEMMA McpStep == McpInv /\ [McpNext]_mcpVars => McpInv'
<1> SUFFICES ASSUME McpInv, [McpNext]_mcpVars PROVE McpInv'
  OBVIOUS
<1>1. CASE UNCHANGED mcpVars
  BY <1>1 DEF mcpVars, stdin, McpInv, StdinInv
<1>2. CASE Server
  BY <1>2, RunStdioStep, HandleToolCallStep DEF Server
<1>3. QED
  BY <1>1, <1>2, StdinStep DEF McpNext

\* However the lines and the newlines of an agent arrive, the answers come in the
\* order of the lines, one for a line at most, with its id, no request the loop
\* went past is left without one, and the output of a command carries no key
\* (runStdio, handleRpc, handleToolCall).
THEOREM McpAnswersMatch == McpSpec => []AnswersMatch
<1>1. McpInv => AnswersMatch
  <2> SUFFICES ASSUME McpInv PROVE AnswersMatch
    OBVIOUS
  <2> DEFINE n == IF asked THEN taken - 1 ELSE taken
  <2>1. taken \in Nat /\ n \in Nat /\ Settled(answers, sent, n)
        /\ (n = taken \/ (asked /\ n = taken - 1))
    BY DEF McpInv, StdinInv
  <2> HIDE DEF n
  <2>2. \A k \in DOMAIN answers : Matching(answers[k], sent)
    BY <2>1 DEF Settled
  <2>3. \A j, k \in DOMAIN answers : j < k => answers[j].line < answers[k].line
    BY <2>1 DEF Settled
  <2>4. ASSUME NEW i \in 1..taken, IsRequest(sent[i]) PROVE Answered(i) \/ (asked /\ i = taken)
    <3>1. i \in 1..n \/ (asked /\ i = taken)
      BY <2>1
    <3>2. QED
      BY <2>1, <2>4, <3>1 DEF Settled, Answered
  <2>5. QED
    BY <2>2, <2>3, <2>4 DEF AnswersMatch, Matching
<1>2. QED
  BY <1>1, McpInitInv, McpStep, PTL DEF McpSpec
-----------------------------------------------------------------------------
(* Exec.  What is shown is the redaction of a text that ends in a blank,    *)
(* because keys reach over no blank, and the buffer is what was decoded     *)
(* since.  That the redaction of a text is the redactions of its pieces is  *)
(* a fact about the positions that are kept of it.                          *)

LEMMA Least ==
    ASSUME NEW T, T \subseteq Nat, T # {}
    PROVE  \E x \in T : \A y \in T : x <= y
<1>1. PICK x \in T : \A y \in T : ~ (<<y, x>> \in OpToRel(<, Nat))
  BY NatLessThanWellFounded, WFMin
<1>2. ASSUME NEW y \in T PROVE x <= y
  <2>1. ~ (y < x) /\ x \in Nat /\ y \in Nat
    BY <1>1 DEF OpToRel
  <2>2. QED
    BY <2>1
<1>3. QED
  BY <1>2

\* How many positions of S there are up to i grows by one at each of them.
LEMMA RankSteps ==
    ASSUME NEW n \in Nat, NEW S, S \subseteq 1..n
    PROVE  /\ IsFiniteSet(S) /\ Cardinality(S) \in Nat
           /\ \A i \in 0..n : Rank(S, i) \in 0..Cardinality(S)
           /\ Rank(S, 0) = 0 /\ Rank(S, n) = Cardinality(S)
           /\ \A i \in 1..n : Rank(S, i) = Rank(S, i - 1) + IF i \in S THEN 1 ELSE 0
           /\ \A i, j \in 0..n : i <= j => Rank(S, i) <= Rank(S, j)
<1>1. IsFiniteSet(S) /\ Cardinality(S) \in Nat
  <2>1. IsFiniteSet(1..n)
    BY FS_Interval
  <2>2. QED
    BY <2>1, FS_Subset, FS_CardinalityType
<1>0. \A j \in S : j \in 1..n /\ j \in Nat
  OBVIOUS
<1>2. \A i \in 0..n : IsFiniteSet({j \in S : j <= i}) /\ Cardinality({j \in S : j <= i}) \in 0..Cardinality(S)
  <2> TAKE i \in 0..n
  <2> DEFINE Low == {j \in S : j <= i}
  <2>1. Low \in SUBSET S
    OBVIOUS
  <2> HIDE DEF Low
  <2>2. IsFiniteSet(Low) /\ Cardinality(Low) <= Cardinality(S)
    BY <2>1, <1>1, FS_Subset
  <2>3. Cardinality(Low) \in Nat
    BY <2>2, FS_CardinalityType
  <2>4. IsFiniteSet(Low) /\ Cardinality(Low) \in 0..Cardinality(S)
    BY <2>2, <2>3, <1>1
  <2>5. QED
    BY <2>4 DEF Low
<1>3. Rank(S, 0) = 0 /\ Rank(S, n) = Cardinality(S)
  <2>0. \A j \in S : ~(j <= 0) /\ j <= n
    BY <1>0
  <2>1. {j \in S : j <= 0} = {}
    BY <2>0, Zenon
  <2>2. {j \in S : j <= n} = S
    BY <2>0, Zenon
  <2>3. QED
    BY <2>1, <2>2, FS_EmptySet DEF Rank
<1>4. ASSUME NEW i \in 1..n PROVE Rank(S, i) = Rank(S, i - 1) + IF i \in S THEN 1 ELSE 0
  <2> DEFINE Low == {j \in S : j <= i - 1}
  <2>0. i - 1 \in 0..n
    OBVIOUS
  <2>1. IsFiniteSet(Low)
    BY <2>0, <1>2
  <2>a. i \notin Low
    BY <1>0
  <2>b. \A j \in S : j <= i <=> j <= i - 1 \/ j = i
    BY <1>0
  <2>2. /\ i \in S => {j \in S : j <= i} = Low \cup {i}
        /\ i \notin S => {j \in S : j <= i} = Low
    BY <2>b, Zenon
  <2>3. Cardinality(Low) \in Nat /\ Cardinality(Low) = Rank(S, i - 1)
    BY <2>1, FS_CardinalityType DEF Rank
  <2> HIDE DEF Low
  <2>4. Cardinality(Low \cup {i}) = Cardinality(Low) + 1
    BY <2>1, <2>a, FS_AddElement
  <2>5. QED
    BY <2>2, <2>3, <2>4 DEF Rank
<1>5. ASSUME NEW i \in 0..n, NEW j \in 0..n, i <= j PROVE Rank(S, i) <= Rank(S, j)
  <2> DEFINE A == {k \in S : k <= i}
  <2> DEFINE B == {k \in S : k <= j}
  <2>0. \A k \in S : k <= i => k <= j
    BY <1>0, <1>5
  <2>1. A \in SUBSET B /\ IsFiniteSet(B)
    BY <2>0, <1>2, Zenon
  <2>2. Rank(S, i) = Cardinality(A) /\ Rank(S, j) = Cardinality(B)
    BY DEF Rank
  <2> HIDE DEF A, B
  <2>3. QED
    BY <2>1, <2>2, FS_Subset
<1>6. \A i \in 0..n : Rank(S, i) \in 0..Cardinality(S)
  BY <1>2 DEF Rank
<1>7. QED
  BY <1>1, <1>3, <1>4, <1>5, <1>6

\* The k-th position of S.
Kth(S, k) == CHOOSE i \in S : Rank(S, i) = k

LEMMA Positions ==
    ASSUME NEW n \in Nat, NEW S, S \subseteq 1..n
    PROVE  /\ Cardinality(S) \in Nat
           /\ \A k \in 1..Cardinality(S) : Kth(S, k) \in S /\ Rank(S, Kth(S, k)) = k
           /\ \A i \in S : Rank(S, i) \in 1..Cardinality(S) /\ Kth(S, Rank(S, i)) = i
           /\ \A i, j \in S : i < j => Rank(S, i) < Rank(S, j)
           /\ \A k, l \in 1..Cardinality(S) : k < l => Kth(S, k) < Kth(S, l)
<1> DEFINE R == [i \in 0..n |-> Rank(S, i)]
<1> DEFINE C == Cardinality(S)
<1>1. /\ C \in Nat /\ \A i \in 0..n : R[i] \in 0..C /\ R[i] = Rank(S, i)
      /\ R[0] = 0 /\ R[n] = C
      /\ \A i \in 1..n : R[i] = R[i - 1] + IF i \in S THEN 1 ELSE 0
      /\ \A i, j \in 0..n : i <= j => R[i] <= R[j]
  <2>1. \A i \in 1..n : i \in 0..n /\ i - 1 \in 0..n
    OBVIOUS
  <2>2. 0 \in 0..n /\ n \in 0..n
    OBVIOUS
  <2>3. \A i \in 0..n : R[i] = Rank(S, i)
    OBVIOUS
  <2> HIDE DEF R
  <2>4. C \in Nat /\ Rank(S, 0) = 0 /\ Rank(S, n) = C /\ \A i \in 0..n : Rank(S, i) \in 0..C
    BY RankSteps
  <2>5. \A i \in 1..n : Rank(S, i) = Rank(S, i - 1) + IF i \in S THEN 1 ELSE 0
    BY RankSteps
  <2>6. \A i, j \in 0..n : i <= j => Rank(S, i) <= Rank(S, j)
    BY RankSteps
  <2> HIDE DEF C
  <2>7. \A i \in 1..n : R[i] = R[i - 1] + IF i \in S THEN 1 ELSE 0
    BY <2>1, <2>3, <2>5
  <2>8. QED
    BY <2>2, <2>3, <2>4, <2>6, <2>7
<1> HIDE DEF R, C
<1>2. ASSUME NEW k \in 1..C PROVE \E i \in S : R[i] = k
  <2> DEFINE T == {i \in 0..n : R[i] >= k}
  <2>1. T \subseteq Nat /\ n \in T
    BY <1>1
  <2>2. PICK i \in T : \A y \in T : i <= y
    BY <2>1, Least
  <2>3. i # 0 /\ i \in 1..n
    BY <1>1, <2>2
  <2>4. i - 1 \in 0..n /\ i - 1 \notin T
    BY <2>2, <2>3
  <2>5. R[i - 1] < k /\ R[i] >= k
    BY <2>4, <2>2, <1>1
  <2>6. QED
    BY <2>3, <2>4, <2>5, <1>1
<1>3. \A i \in S : i \in 1..n /\ i \in 0..n /\ i - 1 \in 0..n
  OBVIOUS
<1>4. ASSUME NEW i \in S, NEW j \in S, i < j PROVE R[i] < R[j]
  <2>1. i <= j - 1 /\ j - 1 \in 0..n /\ i \in 0..n /\ j \in 1..n
    BY <1>3, <1>4
  <2>2. R[i] <= R[j - 1] /\ R[j] = R[j - 1] + 1
    BY <2>1, <1>1
  <2>3. QED
    BY <2>1, <2>2, <1>1
<1>5. ASSUME NEW i \in S, NEW j \in S, R[i] = R[j] PROVE i = j
  BY <1>3, <1>4, <1>5, <1>1
<1>6. ASSUME NEW i \in S PROVE R[i] \in 1..C
  <2>1. R[i] = R[i - 1] + 1
    BY <1>3, <1>1
  <2>2. QED
    BY <2>1, <1>3, <1>1
<1>7. \A k \in 1..C : Kth(S, k) \in S /\ R[Kth(S, k)] = k
  <2> TAKE k \in 1..C
  <2>1. \E i \in S : Rank(S, i) = k
    BY <1>1, <1>2, <1>3
  <2>2. Kth(S, k) \in S /\ Rank(S, Kth(S, k)) = k
    BY <2>1 DEF Kth
  <2>3. QED
    BY <2>2, <1>1, <1>3
<1>8. \A i \in S : Kth(S, R[i]) = i
  BY <1>5, <1>6, <1>7
<1>9. ASSUME NEW k \in 1..C, NEW l \in 1..C, k < l PROVE Kth(S, k) < Kth(S, l)
  <2> DEFINE p == Kth(S, k)
  <2> DEFINE q == Kth(S, l)
  <2>1. p \in S /\ q \in S /\ R[p] = k /\ R[q] = l
    BY <1>7
  <2> HIDE DEF p, q
  <2>2. p < q
    BY <2>1, <1>3, <1>4, <1>9
  <2>3. QED
    BY <2>2 DEF p, q
<1>10. \A i \in S : Rank(S, i) = R[i]
  BY <1>1, <1>3
<1>11. QED
  BY <1>1, <1>4, <1>6, <1>7, <1>8, <1>9, <1>10 DEF C

Kept(t) == {i \in DOMAIN t : t[i] # Gone}

\* What is present of a text, position by position.
LEMMA PresentIs ==
    ASSUME NEW T, NEW t \in Seq(T)
    PROVE  /\ Present(t) \in Seq(T)
           /\ Kept(t) \subseteq 1..Len(t) /\ Len(t) \in Nat
           /\ Len(Present(t)) = Cardinality(Kept(t))
           /\ \A k \in 1..Cardinality(Kept(t)) : Present(t)[k] = t[Kth(Kept(t), k)]
<1>1. Len(t) \in Nat /\ DOMAIN t = 1..Len(t) /\ \A i \in 1..Len(t) : t[i] \in T
  BY LenProperties
<1>2. Kept(t) \subseteq 1..Len(t)
  BY <1>1 DEF Kept
<1> DEFINE C == Cardinality(Kept(t))
<1>3. C \in Nat /\ \A k \in 1..C : Kth(Kept(t), k) \in Kept(t)
  BY <1>1, <1>2, Positions
<1>4. Present(t) = [k \in 1..C |-> t[Kth(Kept(t), k)]]
  BY DEF Present, Kept, Kth
<1> HIDE DEF C
<1>5. \A k \in 1..C : t[Kth(Kept(t), k)] \in T
  BY <1>1, <1>2, <1>3
<1>6. Present(t) \in Seq(T) /\ Len(Present(t)) = C
  BY <1>3, <1>4, <1>5
<1>7. QED
  BY <1>1, <1>2, <1>4, <1>6 DEF C

\* The positions of two sets, the second after the first.
Joined(S, m, R) == S \cup {m + r : r \in R}

Enumerated(U, S, m, R) ==
    \E P, Q \in Nat :
        /\ P = Cardinality(S) /\ Q = Cardinality(R) /\ Cardinality(U) = P + Q
        /\ \A k \in 1..P : Kth(U, k) = Kth(S, k)
        /\ \A k \in 1..Q : Kth(U, P + k) = m + Kth(R, k)

LEMMA Shifted ==
    ASSUME NEW m \in Nat, NEW n \in Nat, NEW S, S \subseteq 1..m, NEW R, R \subseteq 1..n,
           NEW U, U = Joined(S, m, R)
    PROVE  Enumerated(U, S, m, R)
<1>0. /\ \A j \in S : j \in 1..m /\ j \in Nat
      /\ \A r \in R : r \in 1..n /\ r \in Nat
  OBVIOUS
<1>a. \A j : j \in U <=> j \in S \/ \E r \in R : j = m + r
  BY DEF Joined
<1>1. U \subseteq 1..(m + n)
  <2>1. \A j \in S : j \in 1..(m + n)
    BY <1>0
  <2>2. \A r \in R : m + r \in 1..(m + n)
    BY <1>0
  <2>3. QED
    BY <1>a, <2>1, <2>2, Zenon
<1>3. \A i \in 1..m : Rank(U, i) = Rank(S, i)
  <2> TAKE i \in 1..m
  <2>1. \A j : j \in U /\ j <= i <=> j \in S /\ j <= i
    BY <1>0, <1>a
  <2>2. {j \in U : j <= i} = {j \in S : j <= i}
    BY <2>1, Zenon
  <2>3. QED
    BY <2>2 DEF Rank
<1>4. IsFiniteSet(S) /\ IsFiniteSet(R) /\ IsFiniteSet(U)
  <2>1. m + n \in Nat
    OBVIOUS
  <2>2. QED
    BY <1>1, <2>1, RankSteps
<1>5. ASSUME NEW i \in 0..n PROVE Rank(U, m + i) = Cardinality(S) + Rank(R, i)
  <2> DEFINE A == {r \in R : r <= i}
  <2> DEFINE B == {m + r : r \in A}
  <2>1. IsFiniteSet(A)
    BY <1>4, FS_Subset
  <2>2. ExistsBijection(A, B)
    <3> DEFINE f == [r \in A |-> m + r]
    <3>0. f \in [A -> B] /\ \A r \in A : f[r] = m + r
      OBVIOUS
    <3>a. \A r \in A : r \in Nat
      BY <1>0
    <3>1. \A r, q \in A : f[r] = f[q] => r = q
      <4> HIDE DEF A, B, f
      <4>1. QED
        BY <3>0, <3>a
    <3>2. \A b \in B : \E r \in A : f[r] = b
      OBVIOUS
    <3>3. f \in Bijection(A, B)
      <4> HIDE DEF A, B, f
      <4>1. QED
        BY <3>0, <3>1, <3>2 DEF Bijection, Injection, Surjection, IsInjective
    <3>4. QED
      BY <3>3 DEF ExistsBijection
  <2>a. \A j \in S : j <= m + i
    BY <1>0
  <2>b. \A r \in R : m + r <= m + i <=> r <= i
    BY <1>0
  <2>3. \A j : j \in U /\ j <= m + i <=> j \in S \/ j \in B
    BY <1>a, <2>a, <2>b, Zenon
  <2>4. {j \in U : j <= m + i} = S \cup B
    BY <2>3, Zenon
  <2>5. S \cap B = {}
    BY <1>0
  <2>6. Rank(U, m + i) = Cardinality(S \cup B) /\ Rank(R, i) = Cardinality(A)
    BY <2>4 DEF Rank
  <2> HIDE DEF A, B
  <2>7. IsFiniteSet(B) /\ Cardinality(B) = Cardinality(A)
    BY <2>1, <2>2, FS_Bijection
  <2>8. Cardinality(S \cup B) = Cardinality(S) + Cardinality(B) - Cardinality({})
    BY <1>4, <2>5, <2>7, FS_Union
  <2>9. Cardinality({}) = 0 /\ Cardinality(S) \in Nat /\ Cardinality(B) \in Nat
    BY <1>4, <2>7, FS_EmptySet, FS_CardinalityType
  <2>10. QED
    BY <2>6, <2>7, <2>8, <2>9
<1>6. Cardinality(U) = Cardinality(S) + Cardinality(R)
  <2>1. Rank(U, m + n) = Cardinality(U) /\ Rank(R, n) = Cardinality(R)
    <3>1. m + n \in Nat
      OBVIOUS
    <3>2. QED
      BY <1>1, <3>1, RankSteps
  <2>2. QED
    BY <1>5, <2>1
<1>7. /\ \A k \in 1..Cardinality(S) : Kth(S, k) \in S /\ Rank(S, Kth(S, k)) = k
      /\ \A k \in 1..Cardinality(R) : Kth(R, k) \in R /\ Rank(R, Kth(R, k)) = k
      /\ Cardinality(S) \in Nat /\ Cardinality(R) \in Nat
  BY Positions
<1>8. \A i \in U : Kth(U, Rank(U, i)) = i
  <2>1. m + n \in Nat
    OBVIOUS
  <2>2. QED
    BY <1>1, <2>1, Positions
<1>9. ASSUME NEW k \in 1..Cardinality(S) PROVE Kth(U, k) = Kth(S, k)
  <2>1. Kth(S, k) \in S /\ Kth(S, k) \in 1..m /\ Kth(S, k) \in U /\ Rank(S, Kth(S, k)) = k
    BY <1>7, <1>0, <1>a
  <2>2. Rank(U, Kth(S, k)) = k
    BY <2>1, <1>3
  <2>3. QED
    BY <2>1, <2>2, <1>8
<1>10. ASSUME NEW k \in 1..Cardinality(R) PROVE Kth(U, Cardinality(S) + k) = m + Kth(R, k)
  <2>0. Kth(R, k) \in R /\ Rank(R, Kth(R, k)) = k
    BY <1>7
  <2>a. Kth(R, k) \in 1..n
    BY <2>0, <1>0
  <2>1. Kth(R, k) \in 0..n
    BY <2>a
  <2>2. m + Kth(R, k) \in U /\ Rank(U, m + Kth(R, k)) = Cardinality(S) + k
    BY <2>0, <2>1, <1>5, <1>a
  <2>3. QED
    BY <2>2, <1>8
<1>11. QED
  <2> DEFINE P == Cardinality(S)
  <2> DEFINE Q == Cardinality(R)
  <2>1. /\ P = Cardinality(S) /\ Q = Cardinality(R) /\ Cardinality(U) = P + Q
        /\ \A k \in 1..P : Kth(U, k) = Kth(S, k)
        /\ \A k \in 1..Q : Kth(U, P + k) = m + Kth(R, k)
    BY <1>6, <1>9, <1>10
  <2>2. P \in Nat /\ Q \in Nat
    BY <1>7
  <2> HIDE DEF P, Q
  <2>3. QED
    BY <2>1, <2>2 DEF Enumerated

LEMMA PresentConcat ==
    ASSUME NEW T, NEW a \in Seq(T), NEW b \in Seq(T)
    PROVE  Present(a \o b) = Present(a) \o Present(b)
<1> DEFINE m == Len(a)
<1> DEFINE n == Len(b)
<1> DEFINE S == Kept(a)
<1> DEFINE R == Kept(b)
<1> DEFINE U == Kept(a \o b)
<1>1. /\ a \o b \in Seq(T) /\ m \in Nat /\ n \in Nat
      /\ DOMAIN a = 1..m /\ DOMAIN b = 1..n /\ DOMAIN (a \o b) = 1..(m + n)
      /\ \A i \in 1..m : (a \o b)[i] = a[i]
      /\ \A i \in 1..n : (a \o b)[m + i] = b[i]
  OBVIOUS
<1>2. S \subseteq 1..m /\ R \subseteq 1..n
  BY <1>1 DEF Kept
<1>3. U = Joined(S, m, R)
  <2>1. ASSUME NEW j, j \in U PROVE j \in S \/ \E r \in R : j = m + r
    <3>1. j \in 1..(m + n) /\ (a \o b)[j] # Gone
      BY <2>1, <1>1 DEF Kept
    <3>2. CASE j <= m
      BY <3>1, <3>2, <1>1 DEF Kept
    <3>3. CASE ~(j <= m)
      <4>1. j - m \in 1..n /\ j = m + (j - m)
        BY <3>1, <3>3, <1>1
      <4>2. j - m \in R
        BY <4>1, <3>1, <1>1 DEF Kept
      <4>3. QED
        BY <4>1, <4>2
    <3>4. QED
      BY <3>2, <3>3
  <2>2. ASSUME NEW j \in S PROVE j \in U
    BY <1>1 DEF Kept
  <2>3. ASSUME NEW r \in R PROVE m + r \in U
    <3>1. r \in 1..n /\ b[r] # Gone /\ m + r \in 1..(m + n)
      BY <1>1 DEF Kept
    <3>2. QED
      BY <3>1, <1>1 DEF Kept
  <2>4. QED
    BY <2>1, <2>2, <2>3 DEF Joined
<1>4. PICK P, Q \in Nat :
        /\ P = Cardinality(S) /\ Q = Cardinality(R) /\ Cardinality(U) = P + Q
        /\ \A k \in 1..P : Kth(U, k) = Kth(S, k)
        /\ \A k \in 1..Q : Kth(U, P + k) = m + Kth(R, k)
  <2> HIDE DEF m, n, S, R, U
  <2>1. m \in Nat /\ n \in Nat
    BY <1>1
  <2>2. Enumerated(U, S, m, R)
    BY <2>1, <1>2, <1>3, Shifted
  <2>3. QED
    BY <2>2 DEF Enumerated
<1>5. /\ \A k \in 1..P : Kth(S, k) \in S
      /\ \A k \in 1..Q : Kth(R, k) \in R
  <2> HIDE DEF m, n, S, R
  <2>1. QED
    BY <1>1, <1>2, <1>4, Positions
<1>6. /\ Present(a) \in Seq(T) /\ Len(Present(a)) = P
      /\ \A k \in 1..P : Present(a)[k] = a[Kth(S, k)]
  BY <1>4, PresentIs
<1>7. /\ Present(b) \in Seq(T) /\ Len(Present(b)) = Q
      /\ \A k \in 1..Q : Present(b)[k] = b[Kth(R, k)]
  BY <1>4, PresentIs
<1>8. /\ Present(a \o b) \in Seq(T) /\ Len(Present(a \o b)) = P + Q
      /\ \A k \in 1..(P + Q) : Present(a \o b)[k] = (a \o b)[Kth(U, k)]
  <2>1. a \o b \in Seq(T)
    BY <1>1
  <2>2. \A k \in 1..Cardinality(U) : Present(a \o b)[k] = (a \o b)[Kth(U, k)]
    BY <2>1, PresentIs
  <2>3. Present(a \o b) \in Seq(T) /\ Len(Present(a \o b)) = Cardinality(U)
    BY <2>1, PresentIs
  <2> HIDE DEF U
  <2>4. QED
    BY <2>2, <2>3, <1>4
<1> DEFINE x == Present(a \o b)
<1> DEFINE y == Present(a) \o Present(b)
<1>9. ASSUME NEW k \in 1..P PROVE x[k] = Present(a)[k]
  <2> HIDE DEF m, n, S, R, U
  <2>0. Kth(S, k) \in 1..m
    BY <1>2, <1>5
  <2>1. k \in 1..(P + Q)
    BY <1>4
  <2>2. QED
    BY <2>0, <2>1, <1>1, <1>4, <1>6, <1>8
<1>10. ASSUME NEW k \in 1..Q PROVE x[P + k] = Present(b)[k]
  <2> HIDE DEF m, n, S, R, U
  <2>0. Kth(R, k) \in 1..n
    BY <1>2, <1>5
  <2>1. P + k \in 1..(P + Q)
    BY <1>4
  <2>2. QED
    BY <2>0, <2>1, <1>1, <1>4, <1>7, <1>8
<1>11. /\ y \in Seq(T) /\ Len(y) = P + Q
       /\ \A k \in 1..(P + Q) : y[k] = IF k <= P THEN Present(a)[k] ELSE Present(b)[k - P]
  <2> HIDE DEF S, R, U
  <2>1. QED
    BY <1>4, <1>6, <1>7, ConcatProperties
<1>12. \A k \in 1..(P + Q) : x[k] = y[k]
  <2> TAKE k \in 1..(P + Q)
  <2> HIDE DEF S, R, U, x, y
  <2>1. CASE k <= P
    BY <2>1, <1>4, <1>9, <1>11
  <2>2. CASE ~(k <= P)
    <3>1. k - P \in 1..Q /\ P + (k - P) = k
      BY <2>2, <1>4
    <3>2. x[k] = Present(b)[k - P]
      BY <3>1, <1>10
    <3>3. QED
      BY <2>2, <3>2, <1>11
  <2>3. QED
    BY <2>1, <2>2
<1>13. x \in Seq(T) /\ Len(x) = P + Q
  BY <1>8
<1>14. x = y
  <2> HIDE DEF S, R, U, x, y
  <2>1. QED
    BY <1>11, <1>12, <1>13, SeqEqual
<1>15. QED
  BY <1>14

\* Nothing that is present is gone.
LEMMA PresentStays ==
    ASSUME NEW T, NEW t \in Seq(T)
    PROVE  Present(t) \in Seq(T \ {Gone})
<1> DEFINE p == Present(t)
<1>1. p \in Seq(T) /\ \A k \in 1..Len(p) : p[k] # Gone
  <2>1. \A k \in 1..Cardinality(Kept(t)) : Kth(Kept(t), k) \in Kept(t)
    BY PresentIs, Positions
  <2>2. QED
    BY <2>1, PresentIs DEF Kept
<1> HIDE DEF p
<1>2. p \in Seq(T \ {Gone})
  BY <1>1
<1>3. QED
  BY <1>2 DEF p

-----------------------------------------------------------------------------
\* What a text is made of.
Char == {"sk-", "x", " ", "\n", "w1", "w2", "w", "?", Marker}
Texts == Seq(Char)
EndsBlank(t) == t = <<>> \/ t[Len(t)] \in Blank

LEMMA Symbols ==
    /\ Gone \notin Char /\ Marker \notin Alphabet /\ Marker \in Char
    /\ Alphabet \subseteq Char /\ Blank \subseteq Char
    /\ \A c \in Alphabet : c \notin Blank
    /\ "sk-" \in Alphabet
  BY DEF Char, Marker, Gone, Alphabet, Blank

\* A key that covers position j from position i on.
Key(t, i, j) == IsKeyRun(t, i, j) /\ i + KeyLength <= Len(t) /\ IsKeyRun(t, i, i + KeyLength)

\* No key reaches over a blank.
LEMMA ShapesConcat ==
    ASSUME NEW a \in Texts, NEW b \in Texts, EndsBlank(a)
    PROVE  /\ \A j \in 1..Len(a) : j \in KEY_SHAPES(a \o b) <=> j \in KEY_SHAPES(a)
           /\ \A j \in 1..Len(b) : Len(a) + j \in KEY_SHAPES(a \o b) <=> j \in KEY_SHAPES(b)
           /\ Len(a) \notin KEY_SHAPES(a \o b)
<1> DEFINE m == Len(a)
<1> DEFINE n == Len(b)
<1> DEFINE c == a \o b
<1>1. /\ m \in Nat /\ n \in Nat /\ Len(c) = m + n /\ KeyLength \in Nat
      /\ DOMAIN a = 1..m /\ DOMAIN b = 1..n /\ DOMAIN c = 1..(m + n)
      /\ \A i \in 1..m : c[i] = a[i]
      /\ \A i \in 1..n : c[m + i] = b[i]
  BY CapAssumption DEF Texts, CapAssumption
<1>2. m = 0 \/ (m \in 1..m /\ c[m] \notin Alphabet)
  <2>1. CASE a = <<>>
    BY <2>1
  <2>2. CASE a[m] \in Blank /\ a # <<>>
    <3>1. m # 0
      BY <2>2, EmptySeq DEF Texts
    <3>2. m \in 1..m
      BY <3>1, <1>1
    <3>3. QED
      BY <2>2, <3>2, <1>1, Symbols
  <2>3. QED
    BY <2>1, <2>2 DEF EndsBlank
<1> HIDE DEF c, m, n
<1>3. ASSUME NEW j \in 1..m, NEW i \in 1..j PROVE Key(c, i, j) <=> Key(a, i, j)
  <2>1. \A k \in i..j : k \in 1..m /\ c[k] = a[k]
    BY <1>1
  <2>2. IsKeyRun(c, i, j) <=> IsKeyRun(a, i, j)
    BY <2>1, <1>1 DEF IsKeyRun
  <2>3. ASSUME IsKeyRun(c, i, i + KeyLength) PROVE i + KeyLength <= m
    <3>1. SUFFICES ASSUME i + KeyLength > m PROVE FALSE
      BY <1>1
    <3>2. m \in i..(i + KeyLength) /\ m # 0
      BY <3>1, <1>1
    <3>3. QED
      BY <3>2, <2>3, <1>2 DEF IsKeyRun
  <2>4. ASSUME i + KeyLength <= m PROVE IsKeyRun(c, i, i + KeyLength) <=> IsKeyRun(a, i, i + KeyLength)
    <3>1. \A k \in i..(i + KeyLength) : c[k] = a[k]
      BY <2>4, <1>1
    <3>2. c[i] = a[i]
      BY <1>1
    <3>3. QED
      BY <3>1, <3>2 DEF IsKeyRun
  <2>5. i + KeyLength <= m => i + KeyLength <= m + n
    BY <1>1
  <2>6. QED
    BY <2>2, <2>3, <2>4, <2>5, <1>1, m = Len(a) DEF Key
<1>4. ASSUME NEW j \in 1..n, NEW i \in 1..(m + j), Key(c, i, m + j) PROVE i - m \in 1..j
  <2>1. SUFFICES ASSUME ~(i > m) PROVE FALSE
    BY <1>1
  <2>2. m \in i..(m + j) /\ m # 0
    BY <2>1, <1>1
  <2>3. QED
    BY <2>2, <1>2, <1>4 DEF Key, IsKeyRun
<1>5. ASSUME NEW j \in 1..n, NEW i \in 1..j PROVE Key(c, m + i, m + j) <=> Key(b, i, j)
  <2>1. ASSUME NEW q \in 1..n PROVE IsKeyRun(c, m + i, m + q) <=> IsKeyRun(b, i, q)
    <3>1. \A k \in i..q : m + k \in (m + i)..(m + q) /\ c[m + k] = b[k]
      BY <1>1
    <3>2. \A k \in (m + i)..(m + q) : k - m \in i..q /\ c[k] = b[k - m]
      <4> TAKE k \in (m + i)..(m + q)
      <4>1. k - m \in i..q /\ k - m \in 1..n /\ m + (k - m) = k
        BY <1>1
      <4>2. QED
        BY <4>1, <1>1
    <3>3. c[m + i] = b[i]
      BY <1>1
    <3>4. QED
      BY <3>1, <3>2, <3>3 DEF IsKeyRun
  <2>2. (m + i) + KeyLength <= m + n <=> i + KeyLength <= n
    BY <1>1
  <2>3. i + KeyLength <= n => i + KeyLength \in 1..n
    BY <1>1
  <2>4. (m + i) + KeyLength = m + (i + KeyLength)
    BY <1>1
  <2>5. QED
    BY <2>1, <2>2, <2>3, <2>4, <1>1, n = Len(b) DEF Key
<1>6. /\ \A j : j \in KEY_SHAPES(a) <=> j \in 1..m /\ \E i \in 1..j : Key(a, i, j)
      /\ \A j : j \in KEY_SHAPES(b) <=> j \in 1..n /\ \E i \in 1..j : Key(b, i, j)
      /\ \A j : j \in KEY_SHAPES(c) <=> j \in 1..(m + n) /\ \E i \in 1..j : Key(c, i, j)
  BY <1>1 DEF KEY_SHAPES, Key
<1>7. ASSUME NEW j \in 1..m PROVE j \in KEY_SHAPES(c) <=> j \in KEY_SHAPES(a)
  <2>1. j \in 1..(m + n)
    BY <1>1
  <2>2. QED
    BY <2>1, <1>3, <1>6
<1>8. ASSUME NEW j \in 1..n PROVE m + j \in KEY_SHAPES(c) <=> j \in KEY_SHAPES(b)
  <2>1. m + j \in 1..(m + n)
    BY <1>1
  <2>2. ASSUME NEW i \in 1..(m + j), Key(c, i, m + j) PROVE i - m \in 1..j /\ Key(b, i - m, j)
    <3>1. i - m \in 1..j
      BY <2>2, <1>4
    <3>2. m + (i - m) = i
      BY <1>1
    <3>3. QED
      BY <3>1, <3>2, <2>2, <1>5
  <2>3. ASSUME NEW i \in 1..j, Key(b, i, j) PROVE m + i \in 1..(m + j) /\ Key(c, m + i, m + j)
    BY <2>3, <1>1, <1>5
  <2>4. QED
    BY <2>1, <2>2, <2>3, <1>6
<1>9. m \notin KEY_SHAPES(c)
  <2>1. ASSUME NEW i \in 1..m, m \in 1..m, Key(c, i, m) PROVE FALSE
    BY <2>1, <1>1, <1>2 DEF Key, IsKeyRun
  <2>2. m = 0 => m \notin 1..(m + n)
    BY <1>1
  <2>3. QED
    BY <2>1, <2>2, <1>2, <1>6
<1>10. QED
  BY <1>7, <1>8, <1>9 DEF c, m, n

Masked(t) ==
    [i \in DOMAIN t |-> IF i \notin KEY_SHAPES(t) THEN t[i]
                        ELSE IF i - 1 \notin KEY_SHAPES(t) THEN Marker ELSE Gone]

LEMMA MaskedIs ==
    ASSUME NEW t \in Texts
    PROVE  /\ Masked(t) \in Seq(Char \cup {Gone}) /\ Len(Masked(t)) = Len(t) /\ Len(t) \in Nat
           /\ redact(t) = Present(Masked(t)) /\ redact(t) \in Texts
<1>1. Len(t) \in Nat /\ DOMAIN t = 1..Len(t) /\ \A i \in 1..Len(t) : t[i] \in Char
  BY DEF Texts
<1>2. Marker \in Char
  BY Symbols
<1>3. Masked(t) \in [1..Len(t) -> Char \cup {Gone}]
  BY <1>1, <1>2 DEF Masked
<1>4. Masked(t) \in Seq(Char \cup {Gone}) /\ Len(Masked(t)) = Len(t)
  BY <1>1, <1>3
<1>5. redact(t) = Present(Masked(t))
  BY DEF redact, Masked
<1>6. Present(Masked(t)) \in Seq((Char \cup {Gone}) \ {Gone})
  BY <1>4, PresentStays
<1>7. (Char \cup {Gone}) \ {Gone} = Char
  BY Symbols
<1>8. QED
  BY <1>1, <1>4, <1>5, <1>6, <1>7 DEF Texts

LEMMA RedactConcat ==
    ASSUME NEW a \in Texts, NEW b \in Texts, EndsBlank(a)
    PROVE  redact(a \o b) = redact(a) \o redact(b)
<1> DEFINE m == Len(a)
<1> DEFINE n == Len(b)
<1> DEFINE c == a \o b
<1> DEFINE T == Char \cup {Gone}
<1>1. /\ c \in Texts /\ m \in Nat /\ n \in Nat /\ Len(c) = m + n
      /\ DOMAIN a = 1..m /\ DOMAIN b = 1..n /\ DOMAIN c = 1..(m + n)
      /\ \A i \in 1..m : c[i] = a[i]
      /\ \A i \in 1..n : c[m + i] = b[i]
  BY DEF Texts
<1>2. /\ \A j \in 1..m : j \in KEY_SHAPES(c) <=> j \in KEY_SHAPES(a)
      /\ \A j \in 1..n : m + j \in KEY_SHAPES(c) <=> j \in KEY_SHAPES(b)
      /\ m \notin KEY_SHAPES(c)
  BY ShapesConcat
<1>3. 0 \notin KEY_SHAPES(a) /\ 0 \notin KEY_SHAPES(b) /\ 0 \notin KEY_SHAPES(c)
  BY <1>1 DEF KEY_SHAPES
<1>4. Masked(a) \in Seq(T) /\ Masked(b) \in Seq(T) /\ Len(Masked(a)) = m /\ Len(Masked(b)) = n
  BY MaskedIs
<1>5. Masked(c) \in Seq(T) /\ Len(Masked(c)) = m + n
  BY <1>1, MaskedIs
<1> DEFINE y == Masked(a) \o Masked(b)
<1>6. /\ y \in Seq(T) /\ Len(y) = m + n
      /\ \A i \in 1..(m + n) : y[i] = IF i <= m THEN Masked(a)[i] ELSE Masked(b)[i - m]
  <2> HIDE DEF T, m, n
  <2>1. QED
    BY <1>4, ConcatProperties
<1> HIDE DEF c, m, n, T, y
<1>7. ASSUME NEW i \in 1..m PROVE Masked(c)[i] = Masked(a)[i]
  <2>1. i \in 1..(m + n) /\ (i - 1 = 0 \/ i - 1 \in 1..m)
    BY <1>1
  <2>2. (i - 1) \in KEY_SHAPES(c) <=> (i - 1) \in KEY_SHAPES(a)
    BY <2>1, <1>2, <1>3
  <2>3. QED
    BY <2>1, <2>2, <1>1, <1>2 DEF Masked
<1>8. ASSUME NEW i \in 1..n PROVE Masked(c)[m + i] = Masked(b)[i]
  <2>1. m + i \in 1..(m + n) /\ (m + i) - 1 = m + (i - 1) /\ (i - 1 = 0 \/ i - 1 \in 1..n) /\ m + 0 = m
    BY <1>1
  <2>2. (m + i) - 1 \in KEY_SHAPES(c) <=> (i - 1) \in KEY_SHAPES(b)
    BY <2>1, <1>2, <1>3
  <2>3. QED
    BY <2>1, <2>2, <1>1, <1>2 DEF Masked
<1>9. \A i \in 1..(m + n) : Masked(c)[i] = y[i]
  <2> TAKE i \in 1..(m + n)
  <2>1. CASE i <= m
    BY <2>1, <1>1, <1>6, <1>7
  <2>2. CASE ~(i <= m)
    <3>1. i - m \in 1..n /\ m + (i - m) = i
      BY <2>2, <1>1
    <3>2. Masked(c)[i] = Masked(b)[i - m]
      BY <3>1, <1>8
    <3>3. QED
      BY <2>2, <3>2, <1>6
  <2>3. QED
    BY <2>1, <2>2
<1>10. Masked(c) = y
  BY <1>5, <1>6, <1>9, SeqEqual
<1>11. Present(y) = Present(Masked(a)) \o Present(Masked(b))
  BY <1>4, PresentConcat DEF y
<1>12. redact(a) = Present(Masked(a)) /\ redact(b) = Present(Masked(b)) /\ redact(c) = Present(Masked(c))
  BY <1>1, MaskedIs
<1>13. QED
  BY <1>10, <1>11, <1>12 DEF c

\* What was redacted holds no key: two neighbours of a run of letters were
\* neighbours before, since what is gone follows a marker or what is gone.
LEMMA RedactHides ==
    ASSUME NEW t \in Texts
    PROVE  KEY_SHAPES(redact(t)) = {}
<1> DEFINE n == Len(t)
<1> DEFINE r == redact(t)
<1> DEFINE x == Masked(t)
<1> DEFINE S == Kept(x)
<1> DEFINE hidden == KEY_SHAPES(t)
<1>1. n \in Nat /\ DOMAIN t = 1..n /\ KeyLength \in Nat
  BY CapAssumption DEF Texts, CapAssumption
<1>2. /\ DOMAIN x = 1..n
      /\ \A i \in 1..n : x[i] = IF i \notin hidden THEN t[i] ELSE IF i - 1 \notin hidden THEN Marker ELSE Gone
      /\ \A i \in 1..n : t[i] # Gone
  BY <1>1, Symbols DEF Masked, Texts
<1>3. S \subseteq 1..n /\ \A i \in 1..n : i \in S <=> x[i] # Gone
  BY <1>2 DEF Kept
<1>4. PICK P \in Nat : P = Cardinality(S)
  <2> HIDE DEF S, n
  <2>1. QED
    BY <1>1, <1>3, Positions
<1>5. /\ \A k \in 1..P : Kth(S, k) \in S /\ Rank(S, Kth(S, k)) = k
      /\ \A i \in S : Rank(S, i) \in 1..P /\ Kth(S, Rank(S, i)) = i
      /\ \A i, j \in S : i < j => Rank(S, i) < Rank(S, j)
      /\ \A k, l \in 1..P : k < l => Kth(S, k) < Kth(S, l)
  <2> HIDE DEF S, n
  <2>1. QED
    BY <1>1, <1>3, <1>4, Positions
<1>6. DOMAIN r = 1..P /\ Len(r) = P /\ \A k \in 1..P : r[k] = x[Kth(S, k)]
  <2>1. x \in Seq(Char \cup {Gone}) /\ r = Present(x)
    BY MaskedIs
  <2>2. Len(Present(x)) = Cardinality(S) /\ Present(x) \in Seq(Char \cup {Gone})
    BY <2>1, PresentIs
  <2>3. \A k \in 1..Cardinality(S) : Present(x)[k] = x[Kth(S, k)]
    BY <2>1, PresentIs
  <2> HIDE DEF S, r, x
  <2>4. QED
    BY <2>1, <2>2, <2>3, <1>4
<1>7. \A i : i \in hidden <=> i \in 1..n /\ \E h \in 1..i : Key(t, h, i)
  BY <1>1 DEF KEY_SHAPES, Key
<1> HIDE DEF n, r, x, S, hidden
<1>8. SUFFICES ASSUME NEW j \in 1..P, NEW i \in 1..j,
                      i + KeyLength <= P, IsKeyRun(r, i, i + KeyLength)
               PROVE FALSE
  BY <1>6 DEF KEY_SHAPES, r
<1> DEFINE p(k) == Kth(S, k)
<1> DEFINE K == KeyLength
<1>9. \A k \in i..(i + K) : k \in 1..P /\ p(k) \in S /\ p(k) \in 1..n
  <2> TAKE k \in i..(i + K)
  <2>1. k \in 1..P
    BY <1>1, <1>8
  <2>2. p(k) \in S
    BY <2>1, <1>5
  <2>3. QED
    BY <2>1, <2>2, <1>3
<1>10. ASSUME NEW k \in i..(i + K) PROVE p(k) \notin hidden /\ t[p(k)] = r[k] /\ r[k] \in Alphabet
  <2>1. r[k] \in Alphabet /\ r[k] = x[p(k)] /\ x[p(k)] # Gone
    BY <1>3, <1>6, <1>8, <1>9 DEF IsKeyRun
  <2>2. x[p(k)] # Marker
    BY <2>1, Symbols
  <2>3. QED
    BY <2>1, <2>2, <1>2, <1>9
<1>11. ASSUME NEW k \in i..(i + K), k + 1 \in i..(i + K) PROVE p(k + 1) = p(k) + 1
  <2> DEFINE q == p(k) + 1
  <2>1. k \in 1..P /\ k + 1 \in 1..P /\ k < k + 1 /\ p(k) \in 1..n /\ p(k + 1) \in 1..n
    BY <1>9, <1>11
  <2>2. p(k) < p(k + 1)
    BY <2>1, <1>5
  <2>3. q \in 1..n /\ q - 1 = p(k) /\ q <= p(k + 1) /\ p(k) < q
    BY <2>1, <2>2, <1>1
  <2>4. q - 1 \notin hidden
    BY <2>3, <1>10
  <2>5. x[q] # Gone
    BY <2>3, <2>4, <1>2, Symbols
  <2>6. q \in S
    BY <2>3, <2>5, <1>3
  <2>7. p(k) \in S /\ p(k + 1) \in S /\ Rank(S, p(k)) = k /\ Rank(S, p(k + 1)) = k + 1
    BY <2>1, <1>5
  <2>8. ASSUME q < p(k + 1) PROVE FALSE
    <3>1. k < Rank(S, q) /\ Rank(S, q) < k + 1 /\ Rank(S, q) \in 1..P
      BY <2>3, <2>6, <2>7, <2>8, <1>5
    <3>2. QED
      BY <3>1, <2>1
  <2>9. QED
    BY <2>1, <2>3, <2>8
<1>12. ASSUME NEW d \in 0..K PROVE p(i + d) = p(i) + d
  <2> DEFINE Bad == {e \in 0..K : p(i + e) # p(i) + e}
  <2>1. SUFFICES ASSUME Bad # {} PROVE FALSE
    OBVIOUS
  <2>2. Bad \subseteq Nat
    OBVIOUS
  <2>3. PICK e \in Bad : \A y \in Bad : e <= y
    BY <2>1, <2>2, Least
  <2>4. e \in 0..K /\ p(i + e) # p(i) + e /\ i \in Nat
    BY <2>3
  <2>5. p(i) \in 1..n
    <3>1. i \in i..(i + K)
      BY <1>1
    <3>2. QED
      BY <3>1, <1>9
  <2>6. e # 0
    <3>1. i + 0 = i /\ p(i) + 0 = p(i)
      BY <2>5, <1>1
    <3>2. QED
      BY <3>1, <2>4
  <2>7. e - 1 \in 0..K /\ e - 1 \notin Bad
    BY <2>3, <2>4, <2>6, <1>1
  <2>8. p(i + (e - 1)) = p(i) + (e - 1)
    BY <2>7
  <2>9. i + (e - 1) \in i..(i + K) /\ (i + (e - 1)) + 1 = i + e /\ i + e \in i..(i + K)
    BY <2>4, <2>7, <1>1
  <2>10. p(i + e) = p(i + (e - 1)) + 1
    BY <2>9, <1>11
  <2>11. QED
    BY <2>4, <2>5, <2>8, <2>10
<1>13. i \in i..(i + K) /\ i + K \in i..(i + K) /\ K \in 0..K /\ K \in Nat
  BY <1>1
<1>14. p(i) \in 1..n /\ p(i) + K \in 1..n
  BY <1>9, <1>12, <1>13
<1>15. \A l \in p(i)..(p(i) + K) : t[l] \in Alphabet
  <2> TAKE l \in p(i)..(p(i) + K)
  <2>1. l - p(i) \in 0..K /\ p(i) + (l - p(i)) = l
    BY <1>13, <1>14
  <2>2. p(i + (l - p(i))) = l
    BY <2>1, <1>12
  <2>3. i + (l - p(i)) \in i..(i + K)
    BY <2>1, <1>13
  <2>4. QED
    BY <2>2, <2>3, <1>10
<1>16. t[p(i)] = "sk-"
  BY <1>8, <1>10, <1>13 DEF IsKeyRun
<1>17. Key(t, p(i), p(i))
  <2>1. p(i) \in p(i)..(p(i) + K)
    BY <1>13, <1>14
  <2>2. \A l \in p(i)..p(i) : t[l] \in Alphabet
    BY <2>1, <1>14, <1>15
  <2>3. p(i) + K <= Len(t)
    BY <1>14 DEF n
  <2>4. QED
    BY <2>2, <2>3, <1>15, <1>16 DEF Key, IsKeyRun
<1>18. p(i) \in hidden
  <2>1. p(i) \in 1..p(i)
    BY <1>14
  <2>2. QED
    BY <2>1, <1>7, <1>14, <1>17
<1>19. QED
  BY <1>10, <1>13, <1>18

-----------------------------------------------------------------------------
Spelled(t) ==
    [i \in DOMAIN t |->
        CASE t[i] = "w1" -> IF i < Len(t) /\ t[i + 1] = "w2" THEN "w" ELSE "?"
          [] t[i] = "w2" -> IF i > 1 /\ t[i - 1] = "w1" THEN Gone ELSE "?"
          [] OTHER -> t[i]]

LEMMA SpelledIs ==
    ASSUME NEW t \in Texts
    PROVE  /\ Spelled(t) \in Seq(Char \cup {Gone}) /\ Len(Spelled(t)) = Len(t) /\ Len(t) \in Nat
           /\ Decode(t) = Present(Spelled(t)) /\ Decode(t) \in Texts
<1>1. Len(t) \in Nat /\ DOMAIN t = 1..Len(t) /\ \A i \in 1..Len(t) : t[i] \in Char
  BY DEF Texts
<1>2. "w" \in Char /\ "?" \in Char
  BY DEF Char
<1>3. Spelled(t) \in [1..Len(t) -> Char \cup {Gone}]
  BY <1>1, <1>2 DEF Spelled
<1>4. Spelled(t) \in Seq(Char \cup {Gone}) /\ Len(Spelled(t)) = Len(t)
  BY <1>1, <1>3
<1>5. Decode(t) = Present(Spelled(t))
  BY DEF Decode, Spelled
<1>6. Present(Spelled(t)) \in Seq((Char \cup {Gone}) \ {Gone})
  BY <1>4, PresentStays
<1>7. (Char \cup {Gone}) \ {Gone} = Char
  BY Symbols
<1>8. QED
  BY <1>1, <1>4, <1>5, <1>6, <1>7 DEF Texts

\* Chunks can be decoded one by one when none of them ends inside a character.
LEMMA DecodeConcat ==
    ASSUME NEW a \in Texts, NEW b \in Texts, a = <<>> \/ a[Len(a)] # "w1"
    PROVE  Decode(a \o b) = Decode(a) \o Decode(b)
<1> DEFINE m == Len(a)
<1> DEFINE n == Len(b)
<1> DEFINE c == a \o b
<1> DEFINE T == Char \cup {Gone}
<1>1. /\ c \in Texts /\ m \in Nat /\ n \in Nat /\ Len(c) = m + n
      /\ DOMAIN a = 1..m /\ DOMAIN b = 1..n /\ DOMAIN c = 1..(m + n)
      /\ \A i \in 1..m : c[i] = a[i]
      /\ \A i \in 1..n : c[m + i] = b[i]
  BY DEF Texts
<1>2. m = 0 \/ a[m] # "w1"
  BY EmptySeq DEF Texts
<1>4. Spelled(a) \in Seq(T) /\ Spelled(b) \in Seq(T) /\ Len(Spelled(a)) = m /\ Len(Spelled(b)) = n
  BY SpelledIs
<1>5. Spelled(c) \in Seq(T) /\ Len(Spelled(c)) = m + n
  BY <1>1, SpelledIs
<1> DEFINE y == Spelled(a) \o Spelled(b)
<1>6. /\ y \in Seq(T) /\ Len(y) = m + n
      /\ \A i \in 1..(m + n) : y[i] = IF i <= m THEN Spelled(a)[i] ELSE Spelled(b)[i - m]
  <2> HIDE DEF T, m, n
  <2>1. QED
    BY <1>4, ConcatProperties
<1>a. Len(a) = m /\ Len(b) = n /\ Len(c) = m + n
  BY <1>1
<1> HIDE DEF c, m, n, T, y
<1>7. ASSUME NEW i \in 1..m PROVE Spelled(c)[i] = Spelled(a)[i]
  <2>1. i \in 1..(m + n)
    BY <1>1
  <2>2. c[i] = a[i] /\ (i > 1 => c[i - 1] = a[i - 1]) /\ (i < m => c[i + 1] = a[i + 1])
    BY <1>1
  <2>3. i < m \/ (i = m /\ a[i] # "w1")
    BY <1>1, <1>2
  <2>4. i < m => i < m + n
    BY <1>1
  <2>5. QED
    BY <2>1, <2>2, <2>3, <2>4, <1>1, <1>a DEF Spelled
<1>8. ASSUME NEW i \in 1..n PROVE Spelled(c)[m + i] = Spelled(b)[i]
  <2>1. m + i \in 1..(m + n) /\ (m + i < m + n <=> i < n)
    BY <1>1
  <2>2. c[m + i] = b[i] /\ (i < n => c[(m + i) + 1] = b[i + 1])
    <3>1. i < n => i + 1 \in 1..n /\ (m + i) + 1 = m + (i + 1)
      BY <1>1
    <3>2. QED
      BY <3>1, <1>1
  <2>3. i > 1 => m + i > 1 /\ c[(m + i) - 1] = b[i - 1]
    <3>1. i > 1 => m + i > 1 /\ i - 1 \in 1..n /\ (m + i) - 1 = m + (i - 1)
      BY <1>1
    <3>2. QED
      BY <3>1, <1>1
  <2>4. ~(i > 1) => ~(m + i > 1 /\ c[(m + i) - 1] = "w1")
    <3>1. ~(i > 1) => i = 1 /\ (m + i) - 1 = m
      BY <1>1
    <3>2. m # 0 => c[m] = a[m]
      BY <1>1
    <3>3. m = 0 => ~(m + 1 > 1)
      OBVIOUS
    <3>4. QED
      BY <3>1, <3>2, <3>3, <1>2
  <2>5. QED
    BY <2>1, <2>2, <2>3, <2>4, <1>1, <1>a DEF Spelled
<1>9. \A i \in 1..(m + n) : Spelled(c)[i] = y[i]
  <2> TAKE i \in 1..(m + n)
  <2>1. CASE i <= m
    BY <2>1, <1>1, <1>6, <1>7
  <2>2. CASE ~(i <= m)
    <3>1. i - m \in 1..n /\ m + (i - m) = i
      BY <2>2, <1>1
    <3>2. Spelled(c)[i] = Spelled(b)[i - m]
      BY <3>1, <1>8
    <3>3. QED
      BY <2>2, <3>2, <1>6
  <2>3. QED
    BY <2>1, <2>2
<1>10. Spelled(c) = y
  BY <1>5, <1>6, <1>9, SeqEqual
<1>11. Present(y) = Present(Spelled(a)) \o Present(Spelled(b))
  BY <1>4, PresentConcat DEF y
<1>12. Decode(a) = Present(Spelled(a)) /\ Decode(b) = Present(Spelled(b)) /\ Decode(c) = Present(Spelled(c))
  BY <1>1, SpelledIs
<1>13. QED
  BY <1>10, <1>11, <1>12 DEF c

\* A text is cut behind a blank, or not at all.
LEMMA CutsAreSafe ==
    ASSUME NEW t \in Texts
    PROVE  Boundary(t) \in 0..Len(t) /\ (Boundary(t) = 0 \/ t[Boundary(t)] \in Blank)
<1>1. Len(t) \in Nat /\ DOMAIN t = 1..Len(t)
  BY DEF Texts
<1>2. ASSUME NEW S, S \subseteq 1..Len(t) PROVE Largest(S) = 0 \/ Largest(S) \in S
  <2>1. CASE S = {}
    BY <2>1 DEF Largest
  <2>2. CASE S # {}
    <3> DEFINE Rest == {Len(t) - x : x \in S}
    <3>0. \A x \in S : Len(t) - x \in Nat /\ x \in Nat
      BY <1>1, <1>2
    <3>1. Rest \subseteq Nat /\ Rest # {}
      BY <2>2, <3>0
    <3>2. PICK z \in Rest : \A y \in Rest : z <= y
      BY <3>1, Least
    <3>3. PICK x \in S : z = Len(t) - x
      OBVIOUS
    <3>4. \A y \in S : y <= x
      <4> TAKE y \in S
      <4>1. Len(t) - x <= Len(t) - y /\ x \in Nat /\ y \in Nat
        BY <3>0, <3>2, <3>3
      <4>2. QED
        BY <4>1, <1>1
    <3>5. QED
      BY <2>2, <3>4 DEF Largest
  <2>3. QED
    BY <2>1, <2>2
<1> DEFINE Newlines == {p \in DOMAIN t : t[p] = "\n"}
<1> DEFINE hint == Len(t) - MIN_TAIL
<1> DEFINE Blanks == {p \in 2..(hint + 1) : t[p] \in Blank}
<1>3. Newlines \subseteq 1..Len(t) /\ Blanks \subseteq 1..Len(t)
  BY <1>1, CapAssumption DEF CapAssumption
<1>4. \A p \in Newlines : t[p] \in Blank
  BY DEF Blank
<1>5. \A p \in Blanks : t[p] \in Blank
  OBVIOUS
<1>6. Boundary(t) \in {0, Largest(Newlines), Largest(Blanks)}
  BY DEF Boundary, lastSafeBoundary
<1> HIDE DEF Newlines, Blanks
<1>7. Largest(Newlines) = 0 \/ Largest(Newlines) \in Newlines
  BY <1>2, <1>3
<1>8. Largest(Blanks) = 0 \/ Largest(Blanks) \in Blanks
  BY <1>2, <1>3
<1>9. ASSUME NEW p, p = 0 \/ p \in Newlines \/ p \in Blanks
      PROVE  p \in 0..Len(t) /\ (p = 0 \/ t[p] \in Blank)
  <2>1. p = 0 \/ p \in 1..Len(t)
    BY <1>3, <1>9
  <2>2. p \in 0..Len(t)
    BY <2>1, <1>1
  <2>3. QED
    BY <2>2, <1>4, <1>5, <1>9
<1>10. QED
  BY <1>6, <1>7, <1>8, <1>9

-----------------------------------------------------------------------------
\* The options and the phases; what is over is over: nobody is left to write, and
\* all that was written was read.
Control ==
    /\ run \in [at : Phases, timed : BOOLEAN]
    /\ child \in {"none", "running", "exited", "failed", "signalled"} /\ heir \in BOOLEAN
    /\ timer \in {"none", "set", "fired"} /\ exitCode \in {0, 1, 4, 124}
    /\ run.at \in {"closed", "recorded"} =>
           child # "running" /\ ~heir /\ \A s \in Streams : read[s] = Len(written[s])

\* A pipe of which no chunk ended inside a character was not read to there.
Piped ==
    /\ written \in [Streams -> Texts] /\ read \in [Streams -> Nat] /\ split \subseteq Streams
    /\ \A s \in Streams :
           /\ read[s] <= Len(written[s])
           /\ s \notin split => read[s] = 0 \/ written[s][read[s]] # "w1"

\* What is shown is the redaction of a text that ends in a blank, and the buffer is
\* what arrived after it.
Follows(X, s) ==
    /\ shown[s] = redact(X)
    /\ run.at = "recorded" \/ EndsBlank(X)
    /\ s \notin split => X \o buffer[s] = Decode(Arrived(s))

Redacting ==
    /\ buffer \in [Streams -> Texts] /\ shown \in [Streams -> Texts]
    /\ \A s \in Streams :
           /\ \E X \in Texts : Follows(X, s)
           /\ run.at = "recorded" => buffer[s] = <<>>

ExecInv == Control /\ Piped /\ Redacting

LEMMA NothingYet == <<>> \in Texts /\ redact(<<>>) = <<>> /\ Decode(<<>>) = <<>>
<1>1. <<>> \in Texts /\ Len(<<>>) = 0
  BY DEF Texts
<1>2. ASSUME NEW t \in Seq(Char \cup {Gone}), Len(t) = 0 PROVE Present(t) = <<>>
  <2>1. Kept(t) = {}
    BY <1>2 DEF Kept
  <2>2. Cardinality(Kept(t)) = 0
    BY <2>1, FS_EmptySet
  <2>3. Present(t) \in Seq(Char \cup {Gone}) /\ Len(Present(t)) = 0
    BY <2>2, PresentIs
  <2>4. QED
    BY <2>3, EmptySeq
<1>3. QED
  BY <1>1, <1>2, MaskedIs, SpelledIs

LEMMA ExecStarts == ExecInit => ExecInv
<1> SUFFICES ASSUME ExecInit PROVE ExecInv
  OBVIOUS
<1>1. Control
  BY DEF ExecInit, Control, Phases
<1>2. Piped
  BY NothingYet DEF ExecInit, Piped
<1>3. Redacting
  <2>1. \A s \in Streams : shown[s] = <<>> /\ buffer[s] = <<>> /\ Arrived(s) = <<>>
    BY SubSeqEmpty DEF ExecInit, Arrived
  <2>2. <<>> \o <<>> = <<>> /\ EndsBlank(<<>>)
    BY DEF EndsBlank
  <2>3. \A s \in Streams : Follows(<<>>, s)
    BY <2>1, <2>2, NothingYet DEF Follows
  <2>4. QED
    BY <2>3, NothingYet DEF ExecInit, Redacting
<1>4. QED
  BY <1>1, <1>2, <1>3 DEF ExecInv

\* A step that touches neither the pipes nor the redactors, and records nothing.
LEMMA Elsewhere ==
    ASSUME ExecInv, UNCHANGED <<pipes, redactors>>, run.at = "recorded" <=> run'.at = "recorded"
    PROVE  Piped' /\ Redacting'
<1>1. UNCHANGED <<written, read, buffer, shown, split>>
  BY DEF pipes, redactors
<1>2. Piped'
  BY <1>1 DEF ExecInv, Piped
<1>3. \A s \in Streams, X \in Texts : Follows(X, s) <=> Follows(X, s)'
  BY <1>1 DEF Follows, Arrived
<1>4. Redacting'
  BY <1>1, <1>3 DEF ExecInv, Redacting
<1>5. QED
  BY <1>2, <1>4

LEMMA ControlSteps ==
    ASSUME ExecInv,
           \/ \E tool \in TOOL_CATALOG, entries \in SUBSET Entries, o \in Options : cmdExec(tool, entries, o)
           \/ SpawnError \/ Timeout \/ Fork \/ HeirEnds \/ Closed
           \/ \E how \in {"exited", "failed", "signalled"} : ChildEnds(how)
    PROVE  ExecInv'
<1> USE DEF Control, Phase, Phases, ExecInv
<1>1. ASSUME NEW tool, NEW entries, NEW o \in Options, cmdExec(tool, entries, o) PROVE ExecInv'
  <2>1. Control'
    BY <1>1 DEF cmdExec, Options
  <2>2. QED
    BY <1>1, <2>1, Elsewhere DEF cmdExec
<1>2. CASE SpawnError
  BY <1>2, Elsewhere DEF SpawnError
<1>3. CASE Timeout
  <2>1. Control'
    BY <1>3 DEF Timeout, Killed
  <2>2. QED
    BY <1>3, <2>1, Elsewhere DEF Timeout
<1>4. CASE Fork
  <2>1. UNCHANGED <<written, read>>
    BY <1>4 DEF Fork, pipes
  <2>2. Control'
    BY <1>4, <2>1 DEF Fork
  <2>3. UNCHANGED <<pipes, redactors>> /\ run' = run
    BY <1>4 DEF Fork
  <2>4. Piped' /\ Redacting'
    BY <2>3, Elsewhere
  <2>5. QED
    BY <2>2, <2>4
<1>5. CASE HeirEnds
  <2>1. UNCHANGED <<run, child, written, read, timer, exitCode>> /\ heir' = FALSE
    BY <1>5 DEF HeirEnds, pipes
  <2>2. Control'
    <3>1. \A s \in Streams : read[s] = Len(written[s]) <=> read'[s] = Len(written'[s])
      BY <2>1
    <3>2. heir' \in BOOLEAN /\ ~heir'
      BY <2>1, Zenon
    <3>3. /\ run' \in [at : Phases, timed : BOOLEAN]
          /\ child' \in {"none", "running", "exited", "failed", "signalled"}
          /\ timer' \in {"none", "set", "fired"} /\ exitCode' \in {0, 1, 4, 124}
      BY <2>1
    <3>4. run'.at \in {"closed", "recorded"} =>
              child' # "running" /\ \A s \in Streams : read'[s] = Len(written'[s])
      BY <2>1, <3>1
    <3>5. QED
      BY <3>2, <3>3, <3>4, Zenon
  <2>3. UNCHANGED <<pipes, redactors>> /\ run' = run
    BY <1>5 DEF HeirEnds
  <2>4. Piped' /\ Redacting'
    BY <2>3, Elsewhere
  <2>5. QED
    BY <2>2, <2>4
<1>6. CASE Closed
  <2>1. UNCHANGED <<written, read>>
    BY <1>6 DEF Closed, pipes
  <2>2. Control'
    BY <1>6, <2>1 DEF Closed, Text
  <2>3. QED
    BY <1>6, <2>2, Elsewhere DEF Closed
<1>7. ASSUME NEW how \in {"exited", "failed", "signalled"}, ChildEnds(how) PROVE ExecInv'
  <2>1. UNCHANGED <<written, read>>
    BY <1>7 DEF ChildEnds, pipes
  <2>2. Control'
    BY <1>7, <2>1 DEF ChildEnds
  <2>3. UNCHANGED <<pipes, redactors>> /\ run' = run
    BY <1>7 DEF ChildEnds
  <2>4. Piped' /\ Redacting'
    BY <2>3, Elsewhere
  <2>5. QED
    BY <2>2, <2>4
<1>8. QED
  BY <1>1, <1>2, <1>3, <1>4, <1>5, <1>6, <1>7

LEMMA WriteStep ==
    ASSUME ExecInv, NEW s \in Streams, NEW t \in Words, ChildWrites(s, t)
    PROVE  ExecInv'
<1>1. t \in Texts
  <2>1. \A c, d \in Char : <<c>> \in Texts /\ <<c, d>> \in Texts
    BY DEF Texts
  <2>2. {"sk-", "x", " ", "\n", "w1", "w2"} \subseteq Char
    BY DEF Char
  <2>3. QED
    BY <2>1, <2>2 DEF Words
<1>2. /\ written \in [Streams -> Texts] /\ read \in [Streams -> Nat]
      /\ written' = [written EXCEPT ![s] = @ \o t]
      /\ UNCHANGED <<run, child, heir, read, buffer, shown, split, timer, exitCode>>
  BY DEF ChildWrites, redactors, ExecInv, Piped
<1>3. Control'
  BY <1>2 DEF ChildWrites, ExecInv, Control
<1>4. ASSUME NEW q \in Streams
      PROVE  /\ written'[q] \in Texts /\ read[q] <= Len(written'[q])
             /\ \A i \in 1..read[q] : written'[q][i] = written[q][i]
  <2>1. written[q] \in Texts /\ read[q] \in Nat /\ read[q] <= Len(written[q])
    BY <1>2 DEF ExecInv, Piped
  <2>2. CASE q = s
    <3>1. written'[q] = written[q] \o t
      BY <1>2, <2>2
    <3>2. QED
      BY <3>1, <2>1, <1>1 DEF Texts
  <2>3. CASE q # s
    <3>1. written'[q] = written[q]
      BY <1>2, <2>3
    <3>2. QED
      BY <3>1, <2>1
  <2>4. QED
    BY <2>2, <2>3
<1>5. written' \in [Streams -> Texts]
  BY <1>1, <1>2 DEF Texts
<1>6. Piped'
  <2>1. \A q \in Streams : q \notin split => read[q] = 0 \/ written[q][read[q]] # "w1"
    BY DEF ExecInv, Piped
  <2>2. \A q \in Streams : read[q] = 0 \/ read[q] \in 1..read[q]
    BY <1>2
  <2>3. split \subseteq Streams
    BY DEF ExecInv, Piped
  <2>4. QED
    BY <1>2, <1>4, <1>5, <2>1, <2>2, <2>3 DEF Piped
<1>7. ASSUME NEW q \in Streams PROVE Arrived(q)' = Arrived(q)
  <2> DEFINE x == SubSeq(written[q], 1, read[q])
  <2> DEFINE y == SubSeq(written'[q], 1, read[q])
  <2>1. written[q] \in Texts /\ read[q] \in Nat /\ read[q] <= Len(written[q])
    BY <1>2 DEF ExecInv, Piped
  <2>2. x \in Texts /\ Len(x) = read[q] /\ \A i \in 1..read[q] : x[i] = written[q][i]
    BY <2>1 DEF Texts
  <2>3. y \in Texts /\ Len(y) = read[q] /\ \A i \in 1..read[q] : y[i] = written'[q][i]
    BY <2>1, <1>4 DEF Texts
  <2>4. x = y
    <3> HIDE DEF x, y
    <3>1. QED
      BY <2>2, <2>3, <1>4, SeqEqual DEF Texts
  <2>5. QED
    BY <2>4, <1>2 DEF Arrived
<1>8. \A q \in Streams, X \in Texts : Follows(X, q) => Follows(X, q)'
  BY <1>2, <1>7 DEF Follows
<1>9. Redacting'
  BY <1>2, <1>8 DEF ExecInv, Redacting
<1>10. QED
  BY <1>3, <1>6, <1>9 DEF ExecInv

LEMMA PushStep ==
    ASSUME ExecInv, NEW s \in Streams, NEW n, push(s, n)
    PROVE  ExecInv'
<1> DEFINE old == Arrived(s)
<1> DEFINE chunk == SubSeq(written[s], read[s] + 1, read[s] + n)
<1> DEFINE text == buffer[s] \o Decode(chunk)
<1> DEFINE cut == Boundary(text)
<1> DEFINE out == SubSeq(text, 1, cut)
<1> DEFINE kept == SubSeq(text, cut + 1, Len(text))
<1>1. /\ run.at = "running" /\ n \in 1..(Len(written[s]) - read[s])
      /\ read' = [read EXCEPT ![s] = @ + n]
      /\ split' = IF chunk[n] = "w1" THEN split \cup {s} ELSE split
      /\ buffer' = [buffer EXCEPT ![s] = kept]
      /\ shown' = [shown EXCEPT ![s] = @ \o redact(out)]
      /\ UNCHANGED <<run, child, heir, written, timer, exitCode>>
  BY DEF push, Text
<1>2. /\ written[s] \in Texts /\ Len(written[s]) \in Nat /\ read[s] \in Nat /\ read[s] <= Len(written[s])
      /\ buffer[s] \in Texts
      /\ s \notin split => read[s] = 0 \/ written[s][read[s]] # "w1"
  BY DEF ExecInv, Piped, Redacting, Texts
<1>3. n \in Nat /\ n >= 1 /\ read[s] + n <= Len(written[s])
  BY <1>1, <1>2
<1>4. /\ old \in Texts /\ Len(old) = read[s] /\ \A i \in 1..read[s] : old[i] = written[s][i]
  BY <1>2 DEF Arrived, Texts
<1>5. /\ chunk \in Texts /\ Len(chunk) = n /\ \A i \in 1..n : chunk[i] = written[s][read[s] + i]
  <2>1. \A i \in (read[s] + 1)..(read[s] + n) : written[s][i] \in Char
    BY <1>2, <1>3 DEF Texts
  <2>2. read[s] + 1 \in Int /\ read[s] + n \in Int /\ read[s] + 1 <= read[s] + n
        /\ (read[s] + n) - (read[s] + 1) + 1 = n
    BY <1>2, <1>3
  <2>3. /\ chunk \in Seq(Char) /\ Len(chunk) = n
        /\ \A i \in 1..n : chunk[i] = written[s][(read[s] + 1) + i - 1]
    BY <2>1, <2>2, SubSeqProperties
  <2>4. \A i \in 1..n : (read[s] + 1) + i - 1 = read[s] + i
    BY <1>2
  <2> HIDE DEF chunk
  <2>5. QED
    BY <2>3, <2>4 DEF Texts
<1>6. Arrived(s)' = old \o chunk
  <2> DEFINE now == SubSeq(written[s], 1, read[s] + n)
  <2>1. now \in Texts /\ Len(now) = read[s] + n /\ \A i \in 1..(read[s] + n) : now[i] = written[s][i]
    BY <1>2, <1>3 DEF Texts
  <2>2. /\ old \o chunk \in Texts /\ Len(old \o chunk) = read[s] + n
        /\ \A i \in 1..(read[s] + n) : (old \o chunk)[i] = IF i <= read[s] THEN old[i] ELSE chunk[i - read[s]]
    <3> HIDE DEF old, chunk
    <3>1. old \in Seq(Char) /\ chunk \in Seq(Char)
      BY <1>4, <1>5 DEF Texts
    <3>2. /\ old \o chunk \in Seq(Char) /\ Len(old \o chunk) = Len(old) + Len(chunk)
          /\ \A i \in 1..(Len(old) + Len(chunk)) :
                 (old \o chunk)[i] = IF i <= Len(old) THEN old[i] ELSE chunk[i - Len(old)]
      BY <3>1, ConcatProperties
    <3>3. QED
      BY <3>2, <1>4, <1>5 DEF Texts
  <2>3. \A i \in 1..(read[s] + n) : (old \o chunk)[i] = written[s][i]
    <3> TAKE i \in 1..(read[s] + n)
    <3> HIDE DEF old, chunk
    <3>1. CASE i <= read[s]
      BY <3>1, <2>2, <1>2, <1>4
    <3>2. CASE ~(i <= read[s])
      <4>1. i - read[s] \in 1..n /\ read[s] + (i - read[s]) = i
        BY <3>2, <1>2, <1>3
      <4>2. QED
        BY <3>2, <4>1, <2>2, <1>5
    <3>3. QED
      BY <3>1, <3>2
  <2>4. now = old \o chunk
    <3> DEFINE z == old \o chunk
    <3>1. z \in Texts /\ Len(z) = read[s] + n /\ \A i \in 1..(read[s] + n) : z[i] = written[s][i]
      BY <2>2, <2>3
    <3>2. now = z
      <4> HIDE DEF now, z
      <4>1. QED
        BY <2>1, <3>1, SeqEqual DEF Texts
    <3>3. QED
      BY <3>2
  <2>5. read'[s] = read[s] + n /\ written' = written
    BY <1>1 DEF ExecInv, Piped
  <2>6. QED
    BY <2>4, <2>5 DEF Arrived
<1>7. Decode(chunk) \in Texts /\ text \in Texts
  <2> HIDE DEF chunk
  <2>1. Decode(chunk) \in Texts
    BY <1>5, SpelledIs
  <2>2. QED
    BY <2>1, <1>2 DEF Texts
<1>8. cut \in 0..Len(text) /\ (cut = 0 \/ text[cut] \in Blank)
  <2> HIDE DEF text
  <2>1. QED
    BY <1>7, CutsAreSafe
<1>9. /\ out \in Texts /\ kept \in Texts /\ text = out \o kept /\ Len(out) = cut
      /\ cut # 0 => out[cut] = text[cut]
  <2> HIDE DEF text, cut
  <2>1. text \in Seq(Char) /\ Len(text) \in Nat
    BY <1>7 DEF Texts
  <2>2. out \in Texts /\ Len(out) = cut /\ (cut # 0 => out[cut] = text[cut])
    BY <2>1, <1>8 DEF Texts
  <2>3. kept \in Texts
    BY <2>1, <1>8 DEF Texts
  <2>a. 1 \in 1..(Len(text) + 1) /\ cut \in (1 - 1)..Len(text) /\ Len(text) \in cut..Len(text)
    BY <2>1, <1>8
  <2>4. out \o kept = SubSeq(text, 1, Len(text))
    BY <2>1, <2>a, ConcatAdjacentSubSeq DEF out, kept
  <2>5. SubSeq(text, 1, Len(text)) = text
    BY <2>1, SubSeqFull
  <2>6. QED
    BY <2>2, <2>3, <2>4, <2>5
<1>10. EndsBlank(out)
  <2> HIDE DEF text, cut
  <2>1. cut = 0 => out = <<>>
    BY <1>9, EmptySeq DEF Texts
  <2>2. QED
    BY <2>1, <1>8, <1>9 DEF EndsBlank
<1>11. s \notin split' => s \notin split /\ chunk[n] # "w1"
  BY <1>1
<1> HIDE DEF old, chunk, text, cut, out, kept
<1>12. s \notin split => Decode(old \o chunk) = Decode(old) \o Decode(chunk)
  <2>1. read[s] = 0 => old = <<>>
    BY <1>4, EmptySeq DEF Texts
  <2>2. read[s] # 0 => old[Len(old)] = written[s][read[s]]
    BY <1>2, <1>4
  <2>3. s \notin split => old = <<>> \/ old[Len(old)] # "w1"
    BY <2>1, <2>2, <1>2
  <2>4. QED
    BY <2>3, <1>4, <1>5, DecodeConcat
<1>13. PICK X \in Texts : Follows(X, s)
  BY DEF ExecInv, Redacting
<1>14. EndsBlank(X) /\ shown[s] = redact(X) /\ (s \notin split => X \o buffer[s] = Decode(old))
  BY <1>1, <1>13 DEF Follows, old
<1>y. X \in Seq(Char) /\ out \in Seq(Char) /\ X \o out \in Texts
  <2>1. X \in Seq(Char) /\ out \in Seq(Char)
    BY <1>9 DEF Texts
  <2>2. QED
    BY <2>1, ConcatProperties DEF Texts
<1>z. PICK Y \in Texts : Y = X \o out
  BY <1>y
<1>15. Y \in Texts /\ EndsBlank(Y)
  <2>1. Y \in Texts /\ Len(Y) = Len(X) + Len(out) /\ Len(X) \in Nat /\ Len(out) \in Nat
    BY <1>y, <1>z
  <2>2. CASE out = <<>>
    <3>1. Y = X
      BY <2>2, <1>y, <1>z
    <3>2. QED
      BY <3>1, <2>1, <1>14
  <2>3. CASE out # <<>>
    <3>1. Len(out) # 0 /\ out[Len(out)] \in Blank
      BY <2>3, <1>9, <1>10, EmptySeq DEF Texts, EndsBlank
    <3>2. Y[Len(Y)] = out[Len(out)]
      BY <3>1, <2>1, <1>y, <1>z
    <3>3. QED
      BY <3>1, <3>2, <2>1 DEF EndsBlank
  <2>4. QED
    BY <2>2, <2>3
<1>16. redact(Y) = shown[s] \o redact(out)
  BY <1>9, <1>14, <1>z, RedactConcat
<1>17. s \notin split' => Y \o kept = Decode(old \o chunk)
  <2>0. kept \in Seq(Char) /\ buffer[s] \in Seq(Char) /\ Decode(chunk) \in Seq(Char)
    BY <1>2, <1>7, <1>9 DEF Texts
  <2>1. Y \o kept = X \o (out \o kept)
    BY <2>0, <1>y, <1>z, ConcatAssociative
  <2>a. \A u, v, w \in Seq(Char) : (u \o v) \o w = u \o (v \o w)
    BY ConcatAssociative
  <2>2. (X \o buffer[s]) \o Decode(chunk) = X \o (buffer[s] \o Decode(chunk))
    BY <2>0, <2>a, <1>y, Zenon
  <2>3. out \o kept = buffer[s] \o Decode(chunk)
    BY <1>9 DEF text
  <2>4. QED
    BY <2>1, <2>2, <2>3, <1>11, <1>12, <1>14
<1>18. /\ shown'[s] = shown[s] \o redact(out)
       /\ buffer'[s] = kept
       /\ read'[s] = read[s] + n
  BY <1>1 DEF ExecInv, Redacting, Piped
<1>19. Control' /\ Piped'
  <2>1. Control'
    BY <1>1 DEF ExecInv, Control
  <2>2. \A q \in Streams : read'[q] \in Nat /\ read'[q] <= Len(written'[q])
    BY <1>1, <1>2, <1>3 DEF ExecInv, Piped
  <2>3. read' \in [Streams -> Nat]
    BY <1>1, <1>2, <1>3 DEF ExecInv, Piped
  <2>4. ASSUME NEW q \in Streams, q \notin split' PROVE read'[q] = 0 \/ written'[q][read'[q]] # "w1"
    <3>1. CASE q = s
      <4>1. chunk[n] = written[s][read[s] + n]
        BY <1>3, <1>5
      <4>2. QED
        BY <3>1, <4>1, <2>4, <1>1, <1>11, <1>18
    <3>2. CASE q # s
      BY <3>2, <2>4, <1>1 DEF ExecInv, Piped
    <3>3. QED
      BY <3>1, <3>2
  <2>5. split' \subseteq Streams /\ written' \in [Streams -> Texts]
    BY <1>1 DEF ExecInv, Piped
  <2>6. QED
    BY <2>1, <2>2, <2>3, <2>4, <2>5 DEF Piped
<1>20. Redacting'
  <2>1. ASSUME NEW q \in Streams PROVE \E Z \in Texts : Follows(Z, q)'
    <3>1. CASE q = s
      <4>1. Follows(Y, s)'
        BY <1>1, <1>6, <1>15, <1>16, <1>17, <1>18 DEF Follows
      <4>2. QED
        BY <3>1, <4>1, <1>15
    <3>2. CASE q # s
      <4>1. shown'[q] = shown[q] /\ buffer'[q] = buffer[q] /\ Arrived(q)' = Arrived(q)
            /\ (q \notin split' => q \notin split) /\ run' = run
        BY <3>2, <1>1 DEF Arrived, ExecInv, Piped, Redacting
      <4>2. PICK Z \in Texts : Follows(Z, q)
        BY DEF ExecInv, Redacting
      <4>3. Follows(Z, q)'
        BY <4>1, <4>2 DEF Follows
      <4>4. QED
        BY <4>3
    <3>3. QED
      BY <3>1, <3>2
  <2>a. shown[s] \in Seq(Char) /\ redact(out) \in Seq(Char)
    BY <1>9, MaskedIs DEF ExecInv, Redacting, Texts
  <2>b. shown[s] \o redact(out) \in Texts
    BY <2>a, ConcatProperties DEF Texts
  <2>2. buffer' \in [Streams -> Texts] /\ shown' \in [Streams -> Texts]
    BY <1>1, <1>9, <2>b DEF ExecInv, Redacting
  <2>3. run'.at # "recorded"
    BY <1>1
  <2>4. QED
    BY <2>1, <2>2, <2>3 DEF Redacting
<1>21. QED
  BY <1>19, <1>20 DEF ExecInv

LEMMA FlushStep ==
    ASSUME ExecInv, flush
    PROVE  ExecInv'
<1>1. /\ run.at = "closed" /\ run' = [run EXCEPT !.at = "recorded"] /\ run'.at = "recorded"
      /\ shown' = [s \in Streams |-> shown[s] \o redact(buffer[s])]
      /\ buffer' = [s \in Streams |-> <<>>]
      /\ UNCHANGED <<child, heir, written, read, split, timer, exitCode>>
  BY DEF flush, Phase, pipes, ExecInv, Control
<1>2. Control'
  BY <1>1 DEF ExecInv, Control, Phases
<1>3. Piped'
  BY <1>1 DEF ExecInv, Piped
<1>4. ASSUME NEW s \in Streams PROVE \E X \in Texts : Follows(X, s)'
  <2>1. PICK X \in Texts : Follows(X, s)
    BY DEF ExecInv, Redacting
  <2>2. buffer[s] \in Texts /\ EndsBlank(X)
    BY <1>1, <2>1 DEF ExecInv, Redacting, Follows
  <2>a. X \in Seq(Char) /\ buffer[s] \in Seq(Char)
    BY <2>2 DEF Texts
  <2>b. X \o buffer[s] \in Texts
    BY <2>a, ConcatProperties DEF Texts
  <2>y. PICK Y \in Texts : Y = X \o buffer[s]
    BY <2>b
  <2>3. Y \in Texts /\ Y \o <<>> = Y
    BY ConcatEmptySeq DEF Texts
  <2>4. shown'[s] = redact(Y)
    <3>1. redact(Y) = redact(X) \o redact(buffer[s])
      BY <2>2, <2>y, RedactConcat
    <3>2. QED
      BY <3>1, <2>1, <1>1 DEF Follows
  <2>5. s \notin split' => Y \o buffer'[s] = Decode(Arrived(s)')
    BY <2>1, <2>3, <2>y, <1>1 DEF Follows, Arrived
  <2>6. Follows(Y, s)'
    BY <2>4, <2>5, <1>1 DEF Follows
  <2>7. QED
    BY <2>3, <2>6
<1>5. buffer' \in [Streams -> Texts] /\ \A s \in Streams : buffer'[s] = <<>>
  BY <1>1, NothingYet
<1>6. shown' \in [Streams -> Texts]
  <2>1. ASSUME NEW s \in Streams PROVE shown[s] \o redact(buffer[s]) \in Texts
    <3>1. shown[s] \in Seq(Char) /\ redact(buffer[s]) \in Seq(Char)
      BY MaskedIs DEF ExecInv, Redacting, Texts
    <3>2. QED
      BY <3>1, ConcatProperties DEF Texts
  <2>2. QED
    BY <1>1, <2>1
<1>7. QED
  BY <1>2, <1>3, <1>4, <1>5, <1>6 DEF ExecInv, Redacting

LEMMA ExecStep == ExecInv /\ [ExecNext]_execVars => ExecInv'
<1> SUFFICES ASSUME ExecInv, [ExecNext]_execVars PROVE ExecInv'
  OBVIOUS
<1>1. CASE UNCHANGED execVars
  <2>1. UNCHANGED <<pipes, redactors>> /\ UNCHANGED <<run, child, heir, timer, exitCode, written, read>>
    BY <1>1 DEF execVars, pipes, redactors
  <2>2. Control'
    BY <2>1 DEF ExecInv, Control
  <2>3. QED
    BY <2>1, <2>2, Elsewhere DEF ExecInv
<1>2. CASE ExecNext
  <2>1. ASSUME NEW s \in Streams, NEW t \in Words, ChildWrites(s, t) PROVE ExecInv'
    BY <2>1, WriteStep
  <2>2. ASSUME NEW s \in Streams, NEW n, push(s, n) PROVE ExecInv'
    BY <2>2, PushStep
  <2>3. CASE flush
    BY <2>3, FlushStep
  <2>4. QED
    BY <1>2, <2>1, <2>2, <2>3, ControlSteps DEF ExecNext, ChildActs, RunnerActs
<1>3. QED
  BY <1>1, <1>2

LEMMA ExecSound == ExecInv => ExecTypeOK /\ ShownIsRedacted
<1> SUFFICES ASSUME ExecInv PROVE ExecTypeOK /\ ShownIsRedacted
  OBVIOUS
<1>1. ExecTypeOK
  BY DEF ExecInv, Control, Piped, ExecTypeOK, Texts
<1>2. ASSUME NEW s \in Streams
      PROVE  /\ KEY_SHAPES(shown[s]) = {}
             /\ s \notin split => shown[s] \o redact(buffer[s]) = redact(Decode(Arrived(s)))
             /\ run.at = "recorded" => buffer[s] = <<>> /\ Arrived(s) = written[s]
  <2>1. PICK X \in Texts : Follows(X, s)
    BY DEF ExecInv, Redacting
  <2>2. buffer[s] \in Texts /\ written[s] \in Texts
    BY DEF ExecInv, Redacting, Piped
  <2>3. KEY_SHAPES(shown[s]) = {}
    BY <2>1, RedactHides DEF Follows
  <2>4. run.at = "recorded" => buffer[s] = <<>> /\ Arrived(s) = written[s]
    <3>1. SubSeq(written[s], 1, Len(written[s])) = written[s]
      BY <2>2, SubSeqFull DEF Texts
    <3>2. QED
      BY <3>1 DEF ExecInv, Control, Redacting, Arrived
  <2>5. EndsBlank(X) => redact(X \o buffer[s]) = redact(X) \o redact(buffer[s])
    BY <2>2, RedactConcat
  <2>6. buffer[s] = <<>> => redact(X) \o redact(buffer[s]) = redact(X) /\ X \o buffer[s] = X
    <3>1. redact(X) \in Seq(Char) /\ X \in Seq(Char)
      BY MaskedIs DEF Texts
    <3>2. QED
      BY <3>1, NothingYet, ConcatEmptySeq
  <2>7. s \notin split => shown[s] \o redact(buffer[s]) = redact(Decode(Arrived(s)))
    BY <2>1, <2>4, <2>5, <2>6 DEF Follows
  <2>8. QED
    BY <2>3, <2>4, <2>7
<1>3. QED
  BY <1>1, <1>2 DEF ShownIsRedacted

\* Every variable of the runner keeps its type.
THEOREM ExecTypes == ExecSpec => []ExecTypeOK
<1>1. QED
  BY ExecStarts, ExecStep, ExecSound, PTL DEF ExecSpec

\* What cmdExec shows is its child's output as redact would leave it in one piece,
\* however the pipes cut it.
THEOREM ExecShowsRedacted == ExecSpec => []ShownIsRedacted
<1>1. QED
  BY ExecStarts, ExecStep, ExecSound, PTL DEF ExecSpec
=============================================================================
