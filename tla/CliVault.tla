-------------------------------- MODULE CliVault -------------------------------
(***************************************************************************)
(* The command line's vault (bin/moltypass, lib/backend.cjs; the package's *)
(* src/backend has the same code): several processes run commands on vault *)
(* files and share one session file that caches a derived key.             *)
(*                                                                         *)
(* Every file operation is a step.  A vault is written to a temporary file *)
(* and renamed, so that its content changes in one step; the session file  *)
(* is truncated and written in place.  A master key is named by the header *)
(* it was derived for.  The user may delete a vault to start over, as the  *)
(* message of init proposes.                                               *)
(***************************************************************************)
EXTENDS Naturals, FiniteSets

CONSTANTS
    Procs,      \* processes
    Files,      \* vault paths (MOLTYPASS_VAULT)
    Labels,     \* provider/label pairs
    None,
    Torn,       \* a session file that does not parse
    MaxVaults,  \* bound: vaults created
    MaxCommands \* bound: commands run


VARIABLES
    vault,    \* the content of each vault file
    session,  \* the content of the session file
    proc,     \* what each process is doing
    headers,  \* the headers created so far
    \* history
    acked,      \* the labels whose add was acknowledged and whose remove was not
    saved,      \* the saves of each file since each process loaded it
    raced,      \* files saved by a command that had loaded an older content
    deleted,    \* files the user deleted
    overlapped, \* files one init renamed over the vault of another
    commands

history == <<acked, saved, raced, deleted, overlapped>>
vars == <<vault, session, proc, headers, history, commands>>

Keys == 1..MaxVaults
Vault == [header : Keys, entries : SUBSET [label : Labels, key : Keys]]
Session == [file : Files, key : Keys, live : BOOLEAN]

ASSUME NoneAssumption == None \notin Files /\ None \notin Vault
ASSUME BoundAssumption == MaxVaults \in Nat /\ MaxCommands \in Nat

Opening == {"add", "remove", "exec"}
Commands == Opening \cup {"init", "unlock", "lock", "status", "list"}
Steps == {"idle", "exists", "session", "clear", "prompt", "load", "unlock", "truncate",
          "cache", "value", "pick", "check", "rename"}

Idle == [at |-> "idle", cmd |-> None, file |-> None, label |-> None, vault |-> None, key |-> None]

Process == [at : Steps, cmd : Commands \cup {None}, file : Files \cup {None},
            label : Labels \cup {None}, vault : Vault \cup {None}, key : Keys \cup {None}]

TypeOK ==
    /\ vault \in [Files -> Vault \cup {None}]
    /\ session \in Session \cup {None, Torn}
    /\ proc \in [Procs -> Process]
    /\ headers \in 0..MaxVaults /\ commands \in 0..MaxCommands
    /\ acked \in [Files -> SUBSET Labels]
    /\ saved \in [Procs -> BOOLEAN]
    /\ raced \subseteq Files /\ deleted \subseteq Files /\ overlapped \subseteq Files

Init ==
    /\ vault = [f \in Files |-> None]
    /\ session = None
    /\ proc = [p \in Procs |-> Idle]
    /\ headers = 0 /\ commands = 0
    /\ acked = [f \in Files |-> {}]
    /\ saved = [p \in Procs |-> FALSE]
    /\ raced = {} /\ deleted = {} /\ overlapped = {}

At(p, step) == proc[p].at = step
Runs(p, cmds) == proc[p].cmd \in cmds
File(p) == proc[p].file
Goto(p, step) == proc' = [proc EXCEPT ![p].at = step]
Exit(p) == proc' = [proc EXCEPT ![p] = Idle]

-----------------------------------------------------------------------------
(* Starting a command; the session.                                        *)

\* main: lock clears the session, every other command asks for the vault file.
Start(p, cmd, f, l) ==
    /\ At(p, "idle") /\ commands < MaxCommands
    /\ proc' = [proc EXCEPT ![p] = [Idle EXCEPT !.at = IF cmd = "lock" THEN "clear" ELSE "exists",
                                                !.cmd = cmd, !.file = f, !.label = l]]
    /\ commands' = commands + 1
    /\ UNCHANGED <<vault, session, headers, history>>

vaultExists(f) == vault[f] # None

Exists(p) ==
    /\ At(p, "exists")
    /\ IF vaultExists(File(p)) = Runs(p, {"init"}) THEN Exit(p)
       ELSE Goto(p, CASE Runs(p, {"init"}) -> "prompt"
                      [] Runs(p, {"list"}) -> "load"
                      [] OTHER -> "session")
    /\ UNCHANGED <<vault, session, headers, history, commands>>

\* Mutant: the path of the vault is not compared.
AnySession(f) == session \notin {None, Torn}

OfThisVault(f) == session \notin {None, Torn} /\ session.file = f

NoSession(p) == IF Runs(p, {"status"}) THEN "load" ELSE "prompt"

\* Anything but a record for this vault counts as no session; an expired one is
\* removed.
loadSession(p) ==
    /\ At(p, "session")
    /\ IF ~OfThisVault(File(p)) THEN Goto(p, NoSession(p))
       ELSE IF ~session.live THEN Goto(p, "clear")
       ELSE IF Runs(p, {"unlock"}) THEN Exit(p)
       ELSE proc' = [proc EXCEPT ![p].at = "load", ![p].key = session.key]
    /\ UNCHANGED <<vault, session, headers, history, commands>>

clearSession(p) ==
    /\ At(p, "clear")
    /\ session' = None
    /\ IF Runs(p, {"lock"}) THEN Exit(p) ELSE Goto(p, NoSession(p))
    /\ UNCHANGED <<vault, headers, history, commands>>

promptPassword(p) ==
    /\ At(p, "prompt")
    /\ Goto(p, IF Runs(p, {"init"}) THEN "check" ELSE "unlock")
    /\ UNCHANGED <<vault, session, headers, history, commands>>

-----------------------------------------------------------------------------
(* Loading the vault.                                                      *)

\* What comes after the key: add asks for the value, remove picks an entry.
Unlocked(p) == IF Runs(p, {"add"}) THEN "value" ELSE "pick"

\* A process that loads the file sees every save made so far.
Loads(p) == saved' = [saved EXCEPT ![p] = FALSE]

\* With a key from the session, or without one: a file that is gone ends the
\* command, and so does having nothing to save.
loadVaultFile(p) ==
    /\ At(p, "load")
    /\ IF ~vaultExists(File(p)) \/ Runs(p, {"list", "status", "exec"}) THEN Exit(p)
       ELSE proc' = [proc EXCEPT ![p].at = Unlocked(p), ![p].vault = vault[File(p)]]
    /\ Loads(p)
    /\ UNCHANGED <<vault, session, headers, acked, raced, deleted, overlapped, commands>>

\* The password opens the canary of the header loaded, or the command fails.
unlockVault(p) ==
    /\ At(p, "unlock")
    /\ \/ Exit(p)
       \/ /\ vaultExists(File(p))
          /\ proc' = [proc EXCEPT ![p].at = "truncate", ![p].vault = vault[File(p)],
                                  ![p].key = vault[File(p)].header]
    /\ Loads(p)
    /\ UNCHANGED <<vault, session, headers, acked, raced, deleted, overlapped, commands>>

\* saveSession writes in place.
Truncate(p) ==
    /\ At(p, "truncate")
    /\ session' = Torn
    /\ Goto(p, "cache")
    /\ UNCHANGED <<vault, headers, history, commands>>

saveSession(p) ==
    /\ At(p, "cache")
    /\ session' = [file |-> File(p), key |-> proc[p].key, live |-> TRUE]
    /\ IF Runs(p, {"unlock", "exec"}) THEN Exit(p) ELSE Goto(p, Unlocked(p))
    /\ UNCHANGED <<vault, headers, history, commands>>

-----------------------------------------------------------------------------
(* Changing the vault.  The temporary file is written in the step before   *)
(* the rename.                                                             *)

Write(p, content) == proc' = [proc EXCEPT ![p].at = "rename", ![p].vault = content]

IsNew(v, l) == \A e \in v.entries : e.label # l

addEntry(p) ==
    /\ At(p, "value")
    /\ LET v == proc[p].vault  l == proc[p].label IN
           \/ Exit(p)
           \/ /\ IsNew(v, l)
              /\ Write(p, [v EXCEPT !.entries = @ \cup {[label |-> l, key |-> proc[p].key]}])
    /\ UNCHANGED <<vault, session, headers, history, commands>>

removeEntry(p) ==
    /\ At(p, "pick")
    /\ LET v == proc[p].vault
           match == {e \in v.entries : e.label = proc[p].label}
       IN IF match = {} THEN Exit(p) ELSE Write(p, [v EXCEPT !.entries = @ \ match])
    /\ UNCHANGED <<vault, session, headers, history, commands>>

\* initVault looks for the file once more, and derives a key for a new header.
initVault(p) ==
    /\ At(p, "check")
    /\ IF vaultExists(File(p)) THEN Exit(p) /\ UNCHANGED headers
       ELSE /\ headers < MaxVaults
            /\ headers' = headers + 1
            /\ Write(p, [header |-> headers + 1, entries |-> {}])
    /\ UNCHANGED <<vault, session, history, commands>>

\* Mutant: the entry is acknowledged although it is not in the file.
AcknowledgedToo(p) == Labels

\* Mutant: the file is acknowledged in place of the label.
AcknowledgedFile(p) == acked[File(p)] \cup {File(p)}

Acknowledged(p) ==
    CASE Runs(p, {"init"}) -> {}
      [] Runs(p, {"add"}) -> acked[File(p)] \cup {proc[p].label}
      [] Runs(p, {"remove"}) -> acked[File(p)] \ {proc[p].label}

\* saveVaultFile: the rename, and the message that tells the user.
Rename(p) ==
    /\ At(p, "rename")
    /\ vault' = [vault EXCEPT ![File(p)] = proc[p].vault]
    /\ acked' = [acked EXCEPT ![File(p)] = Acknowledged(p)]
    /\ overlapped' = IF Runs(p, {"init"}) /\ vaultExists(File(p)) THEN overlapped \cup {File(p)}
                     ELSE overlapped
    /\ raced' = IF saved[p] /\ ~Runs(p, {"init"}) THEN raced \cup {File(p)} ELSE raced
    /\ saved' = [q \in Procs |-> saved[q] \/ (q # p /\ File(q) = File(p))]
    /\ Exit(p)
    /\ UNCHANGED <<session, headers, deleted, commands>>

-----------------------------------------------------------------------------
(* What happens around the processes.                                      *)

\* A process is killed, or fails; a temporary file stays behind.
Crash(p) ==
    /\ ~At(p, "idle")
    /\ Exit(p)
    /\ UNCHANGED <<vault, session, headers, history, commands>>

\* rm, to start over.
Delete(f) ==
    /\ vaultExists(f)
    /\ vault' = [vault EXCEPT ![f] = None]
    /\ deleted' = deleted \cup {f}
    /\ UNCHANGED <<session, proc, headers, acked, saved, raced, overlapped, commands>>

Expire ==
    /\ session \notin {None, Torn} /\ session.live
    /\ session' = [session EXCEPT !.live = FALSE]
    /\ UNCHANGED <<vault, proc, headers, history, commands>>

Step(p) ==
    \/ Exists(p) \/ loadSession(p) \/ clearSession(p) \/ promptPassword(p)
    \/ loadVaultFile(p) \/ unlockVault(p) \/ Truncate(p) \/ saveSession(p)
    \/ addEntry(p) \/ removeEntry(p) \/ initVault(p) \/ Rename(p)
    \/ Crash(p)

Next ==
    \/ \E p \in Procs : Step(p)
    \/ \E p \in Procs, cmd \in Commands, f \in Files, l \in Labels : Start(p, cmd, f, l)
    \/ \E f \in Files : Delete(f)
    \/ Expire

Spec == Init /\ [][Next]_vars

-----------------------------------------------------------------------------
(* Properties.                                                             *)

EntriesOpenIn(f) ==
    vault[f] # None => \A e \in vault[f].entries : e.key = vault[f].header

\* Every entry of a vault opens with the key of its header, whichever processes
\* add under whichever cached key, unless the file was deleted to start over or
\* two inits ran into one another; and no two entries have the same label.
EntriesOpen ==
    \A f \in Files :
        /\ f \notin deleted \cup overlapped => EntriesOpenIn(f)
        /\ vault[f] # None =>
               \A d, e \in vault[f].entries : d.label = e.label => d = e

\* What was acknowledged is what is in the file, through crashes at any step,
\* unless two commands changed the file at once or it was started over.
AcknowledgedIsSaved ==
    \A f \in Files \ (deleted \cup overlapped \cup raced) :
        acked[f] = IF vault[f] = None THEN {} ELSE {e.label : e \in vault[f].entries}

\* Deleting the file is a way to start over: the new vault is usable.
StartingOverWorks == \A f \in Files \ overlapped : EntriesOpenIn(f)
=============================================================================
