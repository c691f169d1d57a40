--------------------------------- MODULE Vault ---------------------------------
(***************************************************************************)
(* What the extension's vault holds (background/vault.ts): its header, its *)
(* entries and their notes, and the key in the worker's memory that seals  *)
(* and opens them.  Session models when the vault is locked; here the lock *)
(* is any step that drops the key.                                         *)
(*                                                                         *)
(* Every function loads the stored vault, may wait for the cryptography,   *)
(* and stores what it loaded with its change; other calls run at every     *)
(* await.  A master key is named by the header it was derived for.         *)
(***************************************************************************)
EXTENDS Naturals

CONSTANTS
    Calls,      \* calls in progress at once
    Ids,        \* entry ids (randomUUID)
    Null,
    MaxHeaders, \* bound: headers created
    MaxCalls    \* bound: calls made

VARIABLES
    stored,   \* "moltypass.vault": the header and the entries
    key,      \* unlockedKey
    call,     \* what each call is doing
    used,     \* the ids given out
    headers,  \* the headers created
    \* history
    listed,   \* the entries as their users were told: added, removed, with notes
    missed,   \* per call, the ids another call changed since it loaded the vault
    undone,   \* the ids whose change a save of an older load wrote over
    doubled,  \* an initialize stored a header over one it had not seen
    unopened, \* a stored item was not opened by the key in memory
    calls

told == <<listed, missed, undone, doubled, unopened>>
vaultVars == <<stored, key, call, used, headers, told, calls>>

Keys == 1..MaxHeaders
Entry == [key : Keys, notes : Keys \cup {Null}]
VaultState == [header : Keys \cup {Null}, entries : [Ids -> Entry \cup {Null}]]

ASSUME NullAssumption == Null \notin Keys /\ Null \notin Entry /\ Null \notin VaultState
ASSUME BoundAssumption == MaxHeaders \in Nat /\ MaxCalls \in Nat

Free == [at |-> "free", id |-> Null, key |-> Null, notes |-> Null, state |-> Null]

\* What a call is at, the entry it is about, what it has sealed with, what it loaded.
CallState == [at : {"free", "initialize", "create", "unlock", "read", "seal", "sealed",
                    "add", "remove", "set", "save"},
              id : Ids \cup {Null}, key : Keys \cup {Null}, notes : Keys \cup {Null},
              state : VaultState \cup {Null}]

\* Where a call is about an entry, goes on with what it loaded, and has sealed a secret.
About(r) ==
    /\ r.at \notin {"free", "initialize", "create", "unlock"} => r.id \in Ids
    /\ r.at \notin {"free", "create", "seal", "sealed"} => r.state \in VaultState
    /\ r.at \in {"create", "seal", "sealed", "add"} => r.key \in Keys

VaultTypeOK ==
    /\ stored \in VaultState
    /\ key \in Keys \cup {Null}
    /\ call \in [Calls -> CallState]
    /\ \A c \in Calls : About(call[c])
    /\ used \subseteq Ids /\ headers \in 0..MaxHeaders /\ calls \in 0..MaxCalls
    /\ listed \in [Ids -> {"no", "bare", "noted"}]
    /\ missed \in [Calls -> SUBSET Ids]
    /\ undone \subseteq Ids
    /\ doubled \in BOOLEAN /\ unopened \in BOOLEAN

VaultInit ==
    /\ stored = [header |-> Null, entries |-> [i \in Ids |-> Null]]
    /\ key = Null
    /\ call = [c \in Calls |-> Free]
    /\ used = {} /\ headers = 0 /\ calls = 0
    /\ listed = [i \in Ids |-> "no"]
    /\ missed = [c \in Calls |-> {}]
    /\ undone = {} /\ doubled = FALSE /\ unopened = FALSE

Does(c, step) == call[c].at = step
Begin(c, step) == /\ Does(c, "free") /\ calls < MaxCalls
                  /\ call' = [call EXCEPT ![c] = step]
                  /\ calls' = calls + 1
Return(c) == call' = [call EXCEPT ![c] = Free]
Load(c) == missed' = [missed EXCEPT ![c] = {}]

Has(state, i) == state.entries[i] # Null

\* saveState: what another call stored since the load is written over.
Save(c, state, changed) ==
    /\ stored' = state
    /\ undone' = (undone \cup missed[c]) \ changed
    /\ missed' = [d \in Calls |-> missed[d] \cup changed]

-----------------------------------------------------------------------------
(* initialize, unlock, lock.                                               *)

initialize(c) ==
    /\ Begin(c, [Free EXCEPT !.at = "initialize", !.state = stored])
    /\ Load(c)
    /\ UNCHANGED <<stored, key, used, headers, listed, undone, doubled, unopened>>

\* Mutant: a header that exists is no reason to stop.
Overwrites(state) == TRUE

Uninitialized(state) == state.header = Null

\* createHeader derives a key for the canary; the header is stored.
CreateHeader(c) ==
    /\ Does(c, "initialize")
    /\ IF ~Uninitialized(call[c].state)
       THEN Return(c) /\ UNCHANGED <<stored, headers, told>>
       ELSE LET h == headers + 1 IN
            /\ h <= MaxHeaders
            /\ headers' = h
            /\ Save(c, [call[c].state EXCEPT !.header = h], {})
            /\ doubled' = (doubled \/ stored.header # call[c].state.header)
            /\ call' = [call EXCEPT ![c] = [Free EXCEPT !.at = "create", !.key = h]]
            /\ UNCHANGED <<listed, unopened>>
    /\ UNCHANGED <<key, used, calls>>

\* The key of the call's own header, whatever is stored by now.
Created(c) ==
    /\ Does(c, "create")
    /\ key' = call[c].key
    /\ Return(c)
    /\ UNCHANGED <<stored, used, headers, told, calls>>

unlock(c) ==
    /\ Begin(c, [Free EXCEPT !.at = "unlock", !.state = stored])
    /\ UNCHANGED <<stored, key, used, headers, told>>

\* A wrong password, or none to unlock, leaves the vault as it is.
Unlocked(c) ==
    /\ Does(c, "unlock")
    /\ \/ UNCHANGED key
       \/ ~Uninitialized(call[c].state) /\ key' = call[c].state.header
    /\ Return(c)
    /\ UNCHANGED <<stored, used, headers, told, calls>>

\* The lock button, the alarm, or the end of a worker without calls.
LockVault ==
    /\ key # Null
    /\ key' = Null
    /\ UNCHANGED <<stored, call, used, headers, told, calls>>

-----------------------------------------------------------------------------
(* addKey, removeKey.                                                      *)

\* The secret is sealed with the key of the moment, the notes after an await.
addKey(c, i, noted) ==
    /\ key # Null /\ i \notin used
    /\ Begin(c, [Free EXCEPT !.at = IF noted THEN "seal" ELSE "sealed", !.id = i, !.key = key])
    /\ used' = used \cup {i}
    /\ UNCHANGED <<stored, key, headers, told>>

\* encryptWith(null) fails.
SealNotes(c) ==
    /\ Does(c, "seal")
    /\ IF key = Null THEN Return(c)
       ELSE call' = [call EXCEPT ![c].at = "sealed", ![c].notes = key]
    /\ UNCHANGED <<stored, key, used, headers, told, calls>>

AddLoad(c) ==
    /\ Does(c, "sealed")
    /\ call' = [call EXCEPT ![c].at = "add", ![c].state = stored]
    /\ Load(c)
    /\ UNCHANGED <<stored, key, used, headers, listed, undone, doubled, unopened, calls>>

Added(c) == [key |-> call[c].key, notes |-> call[c].notes]

AddSave(c) ==
    /\ Does(c, "add")
    /\ LET i == call[c].id IN
       /\ Save(c, [call[c].state EXCEPT !.entries[i] = Added(c)], {i})
       /\ listed' = [listed EXCEPT ![i] = IF call[c].notes = Null THEN "bare" ELSE "noted"]
    /\ Return(c)
    /\ UNCHANGED <<key, used, headers, doubled, unopened, calls>>

removeKey(c, i) ==
    /\ i \in used
    /\ Begin(c, [Free EXCEPT !.at = "remove", !.id = i, !.state = stored])
    /\ Load(c)
    /\ UNCHANGED <<stored, key, used, headers, listed, undone, doubled, unopened>>

RemoveSave(c) ==
    /\ Does(c, "remove")
    /\ LET i == call[c].id  was == Has(call[c].state, i) IN
       /\ Save(c, [call[c].state EXCEPT !.entries[i] = Null], IF was THEN {i} ELSE {})
       /\ listed' = IF was THEN [listed EXCEPT ![i] = "no"] ELSE listed
    /\ Return(c)
    /\ UNCHANGED <<key, used, headers, doubled, unopened, calls>>

-----------------------------------------------------------------------------
(* getKeyPlaintext, getNotes, setNotes.                                    *)

\* A locked vault is not read.
get(c, i) ==
    /\ key # Null /\ i \in used
    /\ Begin(c, [Free EXCEPT !.at = "read", !.id = i, !.state = stored])
    /\ UNCHANGED <<stored, key, used, headers, told>>

\* decryptWith takes the key as it is after the load, null after a lock.
Opened(c) ==
    /\ Does(c, "read")
    /\ LET e == call[c].state.entries[call[c].id]
       IN unopened' = (unopened \/ (e # Null /\ key # Null /\ {e.key, e.notes} \ {Null, key} # {}))
    /\ Return(c)
    /\ UNCHANGED <<stored, key, used, headers, listed, missed, undone, doubled, calls>>

setNotes(c, i, noted) ==
    /\ key # Null /\ i \in used
    /\ Begin(c, [Free EXCEPT !.at = IF noted THEN "set" ELSE "save", !.id = i, !.state = stored])
    /\ Load(c)
    /\ UNCHANGED <<stored, key, used, headers, listed, undone, doubled, unopened>>

SetSeal(c) ==
    /\ Does(c, "set")
    /\ IF key = Null \/ ~Has(call[c].state, call[c].id) THEN Return(c)
       ELSE call' = [call EXCEPT ![c].at = "save", ![c].notes = key]
    /\ UNCHANGED <<stored, key, used, headers, told, calls>>

\* Mutant: the notes are cleared, whatever was typed.
Cleared(c) == [call[c].state EXCEPT !.entries[call[c].id].notes = Null]

Annotated(c) == [call[c].state EXCEPT !.entries[call[c].id].notes = call[c].notes]

SetSave(c) ==
    /\ Does(c, "save")
    /\ LET i == call[c].id IN
       IF ~Has(call[c].state, i)
       THEN UNCHANGED <<stored, listed, missed, undone>>
       ELSE /\ Save(c, Annotated(c), {i})
            /\ listed' = [listed EXCEPT ![i] = IF call[c].notes = Null THEN "bare" ELSE "noted"]
    /\ Return(c)
    /\ UNCHANGED <<key, used, headers, doubled, unopened, calls>>

-----------------------------------------------------------------------------
\* The browser ends the worker with every call in it.
WorkerEnds ==
    /\ \E c \in Calls : ~Does(c, "free")
    /\ key' = Null
    /\ call' = [c \in Calls |-> Free]
    /\ missed' = [c \in Calls |-> {}]
    /\ UNCHANGED <<stored, used, headers, listed, undone, doubled, unopened, calls>>

VaultStep(c) ==
    \/ CreateHeader(c) \/ Created(c) \/ Unlocked(c)
    \/ SealNotes(c) \/ AddLoad(c) \/ AddSave(c) \/ RemoveSave(c)
    \/ Opened(c) \/ SetSeal(c) \/ SetSave(c)

VaultNext ==
    \/ \E c \in Calls : VaultStep(c) \/ initialize(c) \/ unlock(c)
    \/ \E c \in Calls, i \in Ids : removeKey(c, i) \/ get(c, i)
    \/ \E c \in Calls, i \in Ids, noted \in BOOLEAN : addKey(c, i, noted) \/ setNotes(c, i, noted)
    \/ LockVault \/ WorkerEnds

VaultSpec == VaultInit /\ [][VaultNext]_vaultVars

-----------------------------------------------------------------------------
(* Properties.                                                             *)

SealedWith(e) == {e.key, e.notes} \ {Null}

\* The key in memory is the key of the stored header, and it opens every entry and
\* all notes, unless two initialize calls ran into one another.
KeyOpensVault ==
    ~doubled =>
        /\ key \in {Null, stored.header}
        /\ \A i \in Ids : Has(stored, i) => SealedWith(stored.entries[i]) \subseteq {stored.header}
        /\ ~unopened

Shown(i) == IF ~Has(stored, i) THEN "no" ELSE IF stored.entries[i].notes = Null THEN "bare" ELSE "noted"

\* What a user was told of an entry, added, removed, with or without notes, is what
\* is stored, through locks and deaths of the worker; only a call that had loaded
\* the vault before that change, and stored it after, can undo it.
OnlyOverlapUndoes == \A i \in Ids \ undone : Shown(i) = listed[i]
=============================================================================
