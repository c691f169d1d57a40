-------------------------------- MODULE Session --------------------------------
(***************************************************************************)
(* A reveal request from the page to the key: the unlocked vault and its   *)
(* autolock alarm (background/vault.ts), the consent window and its stored *)
(* pending record (background/consent.ts, consent/consent.tsx), and        *)
(* handleReveal between them (background/index.ts).  The consent of a      *)
(* connect or proxy request runs the same way; what it leads to is the     *)
(* subject of Grants.                                                      *)
(*                                                                         *)
(* A chrome.storage call takes effect in the step that issues it and its   *)
(* caller goes on in a later step; the replies come in the order of the    *)
(* calls.  Saving and clearing a pending record are a load and a set.      *)
(* The vault exists already, under one password.                           *)
(***************************************************************************)
EXTENDS Naturals

CONSTANTS
    Asks,      \* reveal requests of pages; also the ids of their consents
    Unlocks,   \* unlock submissions that may be in progress at once
    MaxDeaths  \* bound: how often the worker dies

ASSUME DeathsAssumption == MaxDeaths \in Nat

VARIABLES
    \* the worker's memory
    unlocked,  \* unlockedKey # null
    deriving,  \* the unlock submissions whose key derivation is in progress
    at,        \* the await each request is suspended at, or how it ended
    list,      \* the pending list as its savePending loaded it
    listening, \* the requests whose onClosed listener is registered
    clears,    \* clearPending calls between their load and their set
    \* the browser
    armed,     \* the alarm LOCK_ALARM exists
    due,       \* it fired and its event is on the way to the worker
    window,    \* the consent window of each request
    \* "moltypass.pendingConsents"
    pending,
    \* history
    answer,    \* what the user clicked in the window of each request
    dropped,   \* the requests whose answer met no resolver
    deaths

lockVars == <<unlocked, deriving, armed, due>>
askVars == <<at, list, listening>>
consentVars == <<clears, window, pending, answer, dropped>>
vars == <<lockVars, askVars, consentVars, deaths>>

Suspended == {"creating", "loading", "saving", "waiting", "decrypting"}
Ended == {"revealed", "denied", "locked", "missing", "killed"}

Clears == [ask : Asks, list : SUBSET Asks, resolves : BOOLEAN]

TypeOK ==
    /\ unlocked \in BOOLEAN /\ armed \in BOOLEAN /\ due \in BOOLEAN
    /\ deriving \subseteq Unlocks
    /\ at \in [Asks -> {"idle"} \cup Suspended \cup Ended]
    /\ list \in [Asks -> SUBSET Asks]
    /\ listening \subseteq Asks
    /\ clears \subseteq Clears
    /\ window \in [Asks -> {"none", "open", "blank", "shown", "clicked", "closed"}]
    /\ pending \subseteq Asks
    /\ answer \in [Asks -> {"none", "allow", "deny"}]
    /\ dropped \subseteq Asks
    /\ deaths \in 0..MaxDeaths

Init ==
    /\ unlocked = FALSE /\ armed = FALSE /\ due = FALSE
    /\ deriving = {}
    /\ at = [a \in Asks |-> "idle"]
    /\ list = [a \in Asks |-> {}]
    /\ listening = {} /\ clears = {}
    /\ window = [a \in Asks |-> "none"]
    /\ pending = {}
    /\ answer = [a \in Asks |-> "none"]
    /\ dropped = {} /\ deaths = 0

Goto(a, label) == at' = [at EXCEPT ![a] = label]

-----------------------------------------------------------------------------
(* vault.ts: unlock, lock, touchActivity, the alarm.                       *)

Submit(u) ==
    /\ u \in Unlocks \ deriving
    /\ deriving' = deriving \cup {u}
    /\ UNCHANGED <<unlocked, armed, due, askVars, consentVars, deaths>>

\* Mutant: the key is kept and no alarm is created.
KeepUnarmed == unlocked' = TRUE /\ UNCHANGED armed

KeepKey == unlocked' = TRUE /\ armed' = TRUE

\* The derivation ends, with the key or with null for a wrong password.
Derived(u) ==
    /\ u \in deriving
    /\ deriving' = deriving \ {u}
    /\ KeepKey \/ UNCHANGED <<unlocked, armed>>
    /\ UNCHANGED <<due, askVars, consentVars, deaths>>

\* Mutant: the lock is put off.
Postpone == armed' = TRUE /\ UNCHANGED unlocked

lock == unlocked' = FALSE /\ armed' = FALSE

\* The popup's lock button.
Lock ==
    /\ unlocked
    /\ lock
    /\ UNCHANGED <<deriving, due, askVars, consentVars, deaths>>

\* A proxied call arms the alarm anew.
Touch ==
    /\ unlocked
    /\ armed' = TRUE
    /\ UNCHANGED <<unlocked, deriving, due, askVars, consentVars, deaths>>

AlarmFires ==
    /\ armed
    /\ armed' = FALSE
    /\ due' = TRUE
    /\ UNCHANGED <<unlocked, deriving, askVars, consentVars, deaths>>

OnAlarm ==
    /\ due
    /\ due' = FALSE
    /\ lock
    /\ UNCHANGED <<deriving, askVars, consentVars, deaths>>

-----------------------------------------------------------------------------
(* handleReveal and askForConsent.                                         *)

\* The window is created, unless the vault is locked.
Ask(a) ==
    /\ at[a] = "idle"
    /\ IF unlocked
       THEN Goto(a, "creating") /\ window' = [window EXCEPT ![a] = "open"]
       ELSE Goto(a, "locked") /\ UNCHANGED window
    /\ UNCHANGED <<lockVars, list, listening, clears, pending, answer, dropped, deaths>>

\* savePending loads the list ...
SaveLoad(a) ==
    /\ at[a] = "creating"
    /\ Goto(a, "loading")
    /\ list' = [list EXCEPT ![a] = pending]
    /\ UNCHANGED <<lockVars, listening, consentVars, deaths>>

\* Mutant: the list is pushed as one element.
Nested(a) == {list[a], a}

Pushed(a) == list[a] \cup {a}

\* ... and sets it with the new record.
SaveSet(a) ==
    /\ at[a] = "loading"
    /\ Goto(a, "saving")
    /\ pending' = Pushed(a)
    /\ list' = [list EXCEPT ![a] = {}]
    /\ UNCHANGED <<lockVars, listening, clears, window, answer, dropped, deaths>>

\* The resolver and the listener are registered.
Register(a) ==
    /\ at[a] = "saving"
    /\ Goto(a, "waiting")
    /\ listening' = listening \cup {a}
    /\ UNCHANGED <<lockVars, list, consentVars, deaths>>

\* The resolver is called: getKeyPlaintext throws if the vault has been locked
\* meanwhile, and else arms the alarm and loads the vault.
Allowed(a) ==
    IF unlocked THEN Goto(a, "decrypting") /\ armed' = TRUE
    ELSE Goto(a, "locked") /\ UNCHANGED armed

\* The entry is gone, or is decrypted with what unlockedKey is by now.
Decrypt(a) ==
    /\ at[a] = "decrypting"
    /\ \E end \in {"missing", IF unlocked THEN "revealed" ELSE "locked"} : Goto(a, end)
    /\ UNCHANGED <<lockVars, list, listening, consentVars, deaths>>

-----------------------------------------------------------------------------
(* The consent window.                                                     *)

\* The page in the window fetches its request, once.
Fetch(a) ==
    /\ window[a] = "open"
    /\ window' = [window EXCEPT ![a] = IF a \in pending THEN "shown" ELSE "blank"]
    /\ UNCHANGED <<lockVars, askVars, clears, pending, answer, dropped, deaths>>

\* The user clicks a button, and resolveConsent starts to clear the record.
\* The request was shown after its record was saved, and the reply to the save
\* came before the reply to the fetch.
Click(a, button) ==
    /\ window[a] = "shown" /\ at[a] # "saving"
    /\ window' = [window EXCEPT ![a] = "clicked"]
    /\ answer' = [answer EXCEPT ![a] = button]
    /\ clears' = clears \cup {[ask |-> a, list |-> pending, resolves |-> TRUE]}
    /\ UNCHANGED <<lockVars, askVars, pending, dropped, deaths>>

\* Mutant: whichever request waits is resolved.
AnyWaiting(a) == {b \in Asks : at[b] = "waiting"}

Resolver(a) == {b \in {a} : at[b] = "waiting"}

\* clearPending sets the list without the record; resolveConsent then calls the
\* resolver, if the worker still has it.
ClearSet(c) ==
    /\ c \in clears
    /\ clears' = clears \ {c}
    /\ pending' = c.list \ {c.ask}
    /\ IF ~c.resolves THEN UNCHANGED <<at, armed, dropped>>
       ELSE IF Resolver(c.ask) = {}
       THEN dropped' = dropped \cup {c.ask} /\ UNCHANGED <<at, armed>>
       ELSE /\ \E b \in Resolver(c.ask) :
                 IF answer[c.ask] = "allow" THEN Allowed(b)
                 ELSE Goto(b, "denied") /\ UNCHANGED armed
            /\ UNCHANGED dropped
    /\ UNCHANGED <<unlocked, deriving, due, list, listening, window, answer, deaths>>

\* Mutant: closing the window is not an answer.
LeaveWaiting(a) == UNCHANGED at

DenyIfWaiting(a) == IF at[a] = "waiting" THEN Goto(a, "denied") ELSE UNCHANGED at

\* The window closes, by itself after a click or because the user closes it.
\* An event that finds no listener is lost.
Close(a) ==
    /\ window[a] \in {"open", "blank", "shown", "clicked"}
    /\ window' = [window EXCEPT ![a] = "closed"]
    /\ IF a \in listening
       THEN /\ clears' = clears \cup {[ask |-> a, list |-> pending, resolves |-> FALSE]}
            /\ listening' = listening \ {a}
            /\ DenyIfWaiting(a)
       ELSE UNCHANGED <<clears, listening, at>>
    /\ UNCHANGED <<lockVars, list, pending, answer, dropped, deaths>>

-----------------------------------------------------------------------------
\* The browser ends the worker: the key, the resolvers, the listeners and the
\* handlers in progress are gone; windows, alarm and records stay.
WorkerDies ==
    /\ deaths < MaxDeaths
    /\ deaths' = deaths + 1
    /\ unlocked' = FALSE /\ deriving' = {}
    /\ at' = [a \in Asks |-> IF at[a] \in Suspended THEN "killed" ELSE at[a]]
    /\ list' = [a \in Asks |-> {}]
    /\ listening' = {} /\ clears' = {}
    /\ UNCHANGED <<armed, due, window, pending, answer, dropped>>

\* A step of a request that the worker takes by itself.
WorkerStep ==
    \/ \E a \in Asks : SaveLoad(a) \/ SaveSet(a) \/ Register(a) \/ Decrypt(a)
    \/ \E c \in clears : ClearSet(c)

Next ==
    \/ WorkerStep
    \/ \E u \in Unlocks : Submit(u) \/ Derived(u)
    \/ Lock \/ Touch \/ AlarmFires \/ OnAlarm
    \/ \E a \in Asks : Ask(a) \/ Fetch(a) \/ Close(a)
    \/ \E a \in Asks, button \in {"allow", "deny"} : Click(a, button)
    \/ WorkerDies

\* The worker goes on, a window does not stay open forever, and the vault is
\* left alone long enough for the alarm to fire.  A derivation may take forever.
Fairness ==
    /\ WF_vars(WorkerStep)
    /\ WF_vars(OnAlarm)
    /\ \A a \in Asks : WF_vars(Close(a))
    /\ WF_vars(AlarmFires)

Spec == Init /\ [][Next]_vars
FairSpec == Spec /\ Fairness

-----------------------------------------------------------------------------
(* Properties.                                                             *)

\* An unlocked vault is on its way to be locked: the alarm exists or its event
\* is coming, whatever unlocks, locks, touches and deaths interleave.
AutolockArmed == unlocked => armed \/ due

\* A key is handed to the page of a request only if the user clicked Allow in
\* the window of this very request.
RevealIsConsented ==
    \A a \in Asks : at[a] \in {"decrypting", "revealed"} => answer[a] = "allow"

\* The vault does not stay unlocked once nobody uses it.
EventuallyLocks == []<>~unlocked

\* A request that waits for the user while its window is open is answered in
\* the end, whatever the user does with the window.
OpenAskEnds ==
    \A a \in Asks : (at[a] = "waiting" /\ window[a] # "closed") ~> (at[a] \in Ended)

\* The answer of the user reaches the request it is for.  It does not hold when the
\* worker dies while the window is open (README).
NoAnswerIsDropped == dropped = {}
=============================================================================
