----------------------------- MODULE SessionProofs -----------------------------
(***************************************************************************)
(* Theorems about the two sides of the vault: Session, how it is unlocked,  *)
(* asked and locked, for every number of requests, unlocks and deaths; and *)
(* Vault, what it holds.                                                   *)
(***************************************************************************)
EXTENDS Session, Vault, TLAPS

-----------------------------------------------------------------------------
(* Session.                                                                *)

USE DEF lockVars, askVars, consentVars, Goto

LEMMA ClearsHaveFields ==
    ASSUME NEW c \in Clears
    PROVE  c.ask \in Asks /\ c.list \subseteq Asks /\ c.resolves \in BOOLEAN
BY DEF Clears

LEMMA InitTypeOK == Init => TypeOK
<1> SUFFICES ASSUME Init PROVE TypeOK
  OBVIOUS
<1>1. deaths \in 0..MaxDeaths
  BY DeathsAssumption DEF Init, DeathsAssumption
<1>2. unlocked \in BOOLEAN /\ armed \in BOOLEAN /\ due \in BOOLEAN
  BY DEF Init
<1>3. QED
  BY <1>1, <1>2 DEF Init, TypeOK

LEMMA TypeStep == TypeOK /\ [Next]_vars => TypeOK'
<1> SUFFICES ASSUME TypeOK, [Next]_vars PROVE TypeOK'
  OBVIOUS
<1> USE DEF TypeOK, Suspended, Ended
<1>1. CASE OnAlarm \/ Lock \/ Touch \/ AlarmFires
  BY <1>1 DEF OnAlarm, Lock, Touch, AlarmFires, lock
<1>2. ASSUME NEW u \in Unlocks, Derived(u) \/ Submit(u) PROVE TypeOK'
  BY <1>2 DEF Derived, Submit, KeepKey
<1>3. ASSUME NEW a \in Asks, Ask(a) PROVE TypeOK'
  <2>1. CASE unlocked
    BY <1>3, <2>1 DEF Ask
  <2>2. CASE ~unlocked
    BY <1>3, <2>2 DEF Ask
  <2>3. QED
    BY <2>1, <2>2
<1>4. ASSUME NEW a \in Asks, SaveLoad(a) PROVE TypeOK'
  BY <1>4 DEF SaveLoad
<1>5. ASSUME NEW a \in Asks, SaveSet(a) PROVE TypeOK'
  BY <1>5 DEF SaveSet, Pushed
<1>6. ASSUME NEW a \in Asks, Register(a) PROVE TypeOK'
  BY <1>6 DEF Register
<1>7. ASSUME NEW a \in Asks, Decrypt(a) PROVE TypeOK'
  BY <1>7 DEF Decrypt
<1>8. ASSUME NEW a \in Asks, Fetch(a) PROVE TypeOK'
  BY <1>8 DEF Fetch
<1>9. ASSUME NEW a \in Asks, NEW button \in {"allow", "deny"}, Click(a, button) PROVE TypeOK'
  <2>1. [ask |-> a, list |-> pending, resolves |-> TRUE] \in Clears
    BY DEF Clears
  <2>2. QED
    BY <1>9, <2>1 DEF Click
<1>10. ASSUME NEW a \in Asks, Close(a) PROVE TypeOK'
  <2>1. [ask |-> a, list |-> pending, resolves |-> FALSE] \in Clears
    BY DEF Clears
  <2>2. CASE a \in listening
    BY <1>10, <2>1, <2>2 DEF Close, DenyIfWaiting
  <2>3. CASE a \notin listening
    BY <1>10, <2>3 DEF Close
  <2>4. QED
    BY <2>2, <2>3
<1>11. ASSUME NEW c \in clears, ClearSet(c) PROVE TypeOK'
  <2>1. c.ask \in Asks /\ c.list \subseteq Asks
    BY ClearsHaveFields
  <2>2. CASE ~c.resolves
    BY <1>11, <2>1, <2>2 DEF ClearSet
  <2>3. CASE c.resolves /\ Resolver(c.ask) = {}
    BY <1>11, <2>1, <2>3 DEF ClearSet
  <2>4. CASE c.resolves /\ Resolver(c.ask) # {}
    <3>1. /\ at' \in [Asks -> {"idle"} \cup Suspended \cup Ended]
          /\ armed' \in BOOLEAN
      BY <1>11, <2>1, <2>4 DEF ClearSet, Resolver, Allowed
    <3>2. QED
      BY <1>11, <2>1, <2>4, <3>1 DEF ClearSet
  <2>5. QED
    BY <2>2, <2>3, <2>4
<1>12. CASE WorkerDies
  <2>1. deaths' \in 0..MaxDeaths
    BY <1>12, DeathsAssumption DEF WorkerDies, DeathsAssumption
  <2>2. unlocked' \in BOOLEAN /\ armed' \in BOOLEAN /\ due' \in BOOLEAN
    BY <1>12 DEF WorkerDies
  <2>3. at' \in [Asks -> {"idle"} \cup Suspended \cup Ended]
    BY <1>12 DEF WorkerDies
  <2>4. QED
    BY <1>12, <2>1, <2>2, <2>3 DEF WorkerDies
<1>13. CASE UNCHANGED vars
  BY <1>13 DEF vars
<1>14. QED
  BY <1>1, <1>2, <1>3, <1>4, <1>5, <1>6, <1>7, <1>8, <1>9, <1>10, <1>11, <1>12, <1>13
     DEF Next, WorkerStep

\* What the worker, the windows and the user's answers hold keeps its type.
THEOREM TypeCorrect == Spec => []TypeOK
<1>1. Init => TypeOK
  BY InitTypeOK
<1>2. QED
  BY <1>1, TypeStep, PTL DEF Spec

-----------------------------------------------------------------------------
LEMMA ArmedStep == AutolockArmed /\ [Next]_vars => AutolockArmed'
<1> SUFFICES ASSUME AutolockArmed, [Next]_vars PROVE AutolockArmed'
  OBVIOUS
<1> USE DEF AutolockArmed
<1>1. CASE OnAlarm \/ Lock
  BY <1>1 DEF OnAlarm, Lock, lock
<1>2. CASE Touch \/ AlarmFires
  BY <1>2 DEF Touch, AlarmFires
<1>3. CASE WorkerDies
  BY <1>3 DEF WorkerDies
<1>4. ASSUME NEW u \in Unlocks, Derived(u) \/ Submit(u) PROVE AutolockArmed'
  BY <1>4 DEF Derived, Submit, KeepKey
<1>5. ASSUME NEW c \in clears, ClearSet(c) PROVE AutolockArmed'
  BY <1>5 DEF ClearSet, Allowed
<1>6. ASSUME NEW a \in Asks, SaveLoad(a) \/ SaveSet(a) \/ Register(a) \/ Decrypt(a)
                             \/ Ask(a) \/ Fetch(a) \/ Close(a)
      PROVE  AutolockArmed'
  BY <1>6 DEF SaveLoad, SaveSet, Register, Decrypt, Ask, Fetch, Close
<1>7. ASSUME NEW a \in Asks, NEW button \in {"allow", "deny"}, Click(a, button)
      PROVE  AutolockArmed'
  BY <1>7 DEF Click
<1>8. CASE UNCHANGED vars
  BY <1>8 DEF vars
<1>9. QED
  BY <1>1, <1>2, <1>3, <1>4, <1>5, <1>6, <1>7, <1>8 DEF Next, WorkerStep

\* An unlocked vault is always on its way to be locked, however unlocks, locks,
\* alarms, uses and deaths of the worker interleave.
THEOREM VaultLocksItself == Spec => []AutolockArmed
<1>1. Init => AutolockArmed
  BY DEF Init, AutolockArmed
<1>2. QED
  BY <1>1, ArmedStep, PTL DEF Spec

-----------------------------------------------------------------------------
(* RevealIsConsented is not inductive: the answer a clear acts on must be  *)
(* the last word of its window, and so must the answer of a reveal; a request opens one window. *)

Answered(a) == window[a] \in {"clicked", "closed"}

AnswersStand ==
    /\ \A c \in clears : c.resolves => Answered(c.ask)
    /\ \A a \in Asks : at[a] \in {"decrypting", "revealed"} => Answered(a)
    /\ \A a \in Asks : at[a] = "idle" => window[a] = "none"

ConsentInv == TypeOK /\ AnswersStand /\ RevealIsConsented

\* A step that leads no request to a key, changes no answer, reopens no
\* window and starts no resolving clear.
LEMMA Harmless ==
    ASSUME ConsentInv, answer' = answer,
           \A a \in Asks : at'[a] \in {"decrypting", "revealed"} =>
                             at[a] \in {"decrypting", "revealed"},
           \A a \in Asks : Answered(a) => Answered(a)',
           \A a \in Asks : at'[a] = "idle" => at[a] = "idle",
           \A a \in Asks : window[a] = "none" => window'[a] = "none" \/ at'[a] # "idle",
           \A c \in clears' : c.resolves => c \in clears
    PROVE  AnswersStand' /\ RevealIsConsented'
<1>1. \A c \in clears : c.ask \in Asks
  BY ClearsHaveFields DEF ConsentInv, TypeOK
<1>2. QED
  BY <1>1 DEF ConsentInv, AnswersStand, RevealIsConsented

LEMMA ConsentStep == ConsentInv /\ [Next]_vars => AnswersStand' /\ RevealIsConsented'
<1> SUFFICES ASSUME ConsentInv, [Next]_vars PROVE AnswersStand' /\ RevealIsConsented'
  OBVIOUS
<1> USE DEF ConsentInv, TypeOK, Answered
<1>1. CASE OnAlarm \/ Lock \/ Touch \/ AlarmFires
  BY <1>1, Harmless DEF OnAlarm, Lock, Touch, AlarmFires
<1>2. ASSUME NEW u \in Unlocks, Derived(u) \/ Submit(u) PROVE AnswersStand' /\ RevealIsConsented'
  BY <1>2, Harmless DEF Derived, Submit
<1>3. ASSUME NEW a \in Asks, Ask(a) PROVE AnswersStand' /\ RevealIsConsented'
  <2>1. CASE unlocked
    BY <1>3, <2>1, Harmless DEF Ask, AnswersStand
  <2>2. CASE ~unlocked
    BY <1>3, <2>2, Harmless DEF Ask
  <2>3. QED
    BY <2>1, <2>2
<1>4. ASSUME NEW a \in Asks, SaveLoad(a) \/ SaveSet(a) \/ Register(a)
      PROVE  AnswersStand' /\ RevealIsConsented'
  BY <1>4, Harmless DEF SaveLoad, SaveSet, Register
<1>5. ASSUME NEW a \in Asks, Decrypt(a) PROVE AnswersStand' /\ RevealIsConsented'
  BY <1>5, Harmless DEF Decrypt
<1>6. ASSUME NEW a \in Asks, Fetch(a) PROVE AnswersStand' /\ RevealIsConsented'
  BY <1>6, Harmless DEF Fetch
<1>7. ASSUME NEW a \in Asks, NEW button \in {"allow", "deny"}, Click(a, button)
      PROVE  AnswersStand' /\ RevealIsConsented'
  <2>1. /\ window[a] = "shown" /\ at' = at
        /\ window' = [window EXCEPT ![a] = "clicked"]
        /\ answer' = [answer EXCEPT ![a] = button]
        /\ clears' = clears \cup {[ask |-> a, list |-> pending, resolves |-> TRUE]}
    BY <1>7 DEF Click
  <2>2. at[a] \notin {"decrypting", "revealed"}
    BY <2>1 DEF AnswersStand
  <2>3. \A c \in clears : c.ask \in Asks
    BY ClearsHaveFields
  <2>4. AnswersStand'
    BY <2>1, <2>3 DEF AnswersStand
  <2>5. RevealIsConsented'
    BY <2>1, <2>2 DEF RevealIsConsented
  <2>6. QED
    BY <2>4, <2>5
<1>8. ASSUME NEW a \in Asks, Close(a) PROVE AnswersStand' /\ RevealIsConsented'
  <2>1. \A b \in Asks : at'[b] \in {"decrypting", "revealed"} => at[b] \in {"decrypting", "revealed"}
    BY <1>8 DEF Close, DenyIfWaiting
  <2>2. \A c \in clears' : c.resolves => c \in clears
    BY <1>8 DEF Close
  <2>3. \A b \in Asks : at'[b] = "idle" => at[b] = "idle"
    BY <1>8 DEF Close, DenyIfWaiting
  <2>4. \A b \in Asks : window[b] = "none" => window'[b] = "none"
    BY <1>8 DEF Close
  <2>5. QED
    BY <1>8, <2>1, <2>2, <2>3, <2>4, Harmless DEF Close
<1>9. ASSUME NEW c \in clears, ClearSet(c) PROVE AnswersStand' /\ RevealIsConsented'
  <2>1. c.ask \in Asks
    BY ClearsHaveFields
  <2>2. clears' \subseteq clears /\ window' = window /\ answer' = answer
    BY <1>9 DEF ClearSet
  <2>3. CASE at' = at
    BY <2>2, <2>3, Harmless
  <2>4. CASE at' # at
    <3>1. /\ c.resolves
          /\ \E b \in Resolver(c.ask) : IF answer[c.ask] = "allow" THEN Allowed(b)
                                        ELSE Goto(b, "denied")
      BY <1>9, <2>4 DEF ClearSet
    <3>2. IF answer[c.ask] = "allow" THEN Allowed(c.ask) ELSE Goto(c.ask, "denied")
      BY <3>1 DEF Resolver
    <3>3. Answered(c.ask)
      BY <3>1 DEF AnswersStand
    <3>4. \A b \in Asks \ {c.ask} : at'[b] = at[b]
      BY <2>1, <3>2 DEF Allowed
    <3>5. at'[c.ask] \in {"decrypting", "revealed"} => answer[c.ask] = "allow"
      BY <2>1, <3>2
    <3>6. at'[c.ask] # "idle"
      BY <2>1, <3>2 DEF Allowed
    <3>7. AnswersStand'
      BY <2>1, <2>2, <3>3, <3>4, <3>6 DEF AnswersStand
    <3>8. RevealIsConsented'
      BY <2>1, <2>2, <3>4, <3>5 DEF RevealIsConsented
    <3>9. QED
      BY <3>7, <3>8
  <2>5. QED
    BY <2>3, <2>4
<1>10. CASE WorkerDies
  BY <1>10, Harmless DEF WorkerDies
<1>11. CASE UNCHANGED vars
  BY <1>11, Harmless DEF vars
<1>12. QED
  BY <1>1, <1>2, <1>3, <1>4, <1>5, <1>6, <1>7, <1>8, <1>9, <1>10, <1>11
     DEF Next, WorkerStep

\* A key is handed out only for a request whose own window was answered Allow,
\* however requests, clicks, closed windows and deaths interleave.
THEOREM RevealsAreConsented == Spec => []RevealIsConsented
<1>1. Init => ConsentInv
  BY InitTypeOK DEF Init, ConsentInv, AnswersStand, RevealIsConsented
<1>2. ConsentInv /\ [Next]_vars => ConsentInv'
  BY TypeStep, ConsentStep DEF ConsentInv
<1>3. QED
  BY <1>1, <1>2, PTL DEF Spec, ConsentInv

-----------------------------------------------------------------------------
(* Vault: what is stored, and the key that opens it, for every number of    *)
(* calls, entries, headers and locks.                                      *)

USE DEF told, Does, Has

LEMMA FreeTyped == Free \in CallState
BY DEF Free, CallState

\* A call that begins, and a vault whose header or one entry changed, are typed.
LEMMA BegunTyped ==
    ASSUME NEW l \in {"initialize", "unlock", "read", "remove", "set", "save"},
           NEW i \in Ids \cup {Null}, NEW s \in VaultState
    PROVE  /\ [Free EXCEPT !.at = l, !.id = i, !.state = s] \in CallState
           /\ [Free EXCEPT !.at = l, !.state = s] \in CallState
BY DEF Free, CallState

LEMMA EntryTyped ==
    ASSUME NEW s \in VaultState, NEW i \in Ids, NEW e \in Entry \cup {Null}
    PROVE  [s EXCEPT !.entries[i] = e] \in VaultState
BY DEF VaultState

LEMMA HeaderTyped ==
    ASSUME NEW s \in VaultState, NEW h \in Keys
    PROVE  [s EXCEPT !.header = h] \in VaultState
BY DEF VaultState

-----------------------------------------------------------------------------
LEMMA InitVaultTypeOK == VaultInit => VaultTypeOK
<1> SUFFICES ASSUME VaultInit PROVE VaultTypeOK
  OBVIOUS
<1>1. call \in [Calls -> CallState] /\ \A c \in Calls : call[c].at = "free"
  BY FreeTyped DEF VaultInit, Free
<1>2. stored \in VaultState
  BY DEF VaultInit, VaultState
<1>3. headers \in 0..MaxHeaders /\ calls \in 0..MaxCalls
  BY BoundAssumption DEF VaultInit, BoundAssumption
<1>4. doubled \in BOOLEAN /\ unopened \in BOOLEAN
  BY DEF VaultInit
<1>5. QED
  BY <1>1, <1>2, <1>3, <1>4 DEF VaultInit, VaultTypeOK, About

\* The calls, and the entries they are about, are typed.
CallsTyped == call \in [Calls -> CallState] /\ \A c \in Calls : About(call[c])

LEMMA CallSet ==
    ASSUME CallsTyped, NEW c \in Calls, NEW r \in CallState, About(r),
           call' = [call EXCEPT ![c] = r]
    PROVE  CallsTyped'
BY DEF CallsTyped, About

LEMMA CallReturns ==
    ASSUME CallsTyped, NEW c \in Calls, Return(c)
    PROVE  CallsTyped'
<1>1. Free \in CallState /\ About(Free)
  BY FreeTyped DEF Free, About
<1>2. QED
  BY <1>1, CallSet DEF Return

\* A call is made, within the bound on calls.
LEMMA CallBegins ==
    ASSUME CallsTyped, calls \in 0..MaxCalls, NEW c \in Calls, NEW r \in CallState, About(r), Begin(c, r)
    PROVE  CallsTyped' /\ calls' \in 0..MaxCalls
<1>1. calls' \in 0..MaxCalls
  BY BoundAssumption DEF Begin, BoundAssumption
<1>2. QED
  BY <1>1, CallSet DEF Begin

LEMMA SaveTyped ==
    ASSUME VaultTypeOK, NEW c \in Calls, NEW s \in VaultState, NEW ids \in SUBSET Ids, Save(c, s, ids)
    PROVE  /\ stored' \in VaultState
           /\ missed' \in [Calls -> SUBSET Ids]
           /\ undone' \subseteq Ids
BY DEF VaultTypeOK, Save

LEMMA VaultTypeStep == VaultTypeOK /\ [VaultNext]_vaultVars => VaultTypeOK'
<1> SUFFICES ASSUME VaultTypeOK, [VaultNext]_vaultVars PROVE VaultTypeOK'
  OBVIOUS
<1>t. CallsTyped
  BY DEF VaultTypeOK, CallsTyped
<1>u. CallsTyped' = /\ (call \in [Calls -> CallState])'
                    /\ (\A c \in Calls : About(call[c]))'
  BY DEF CallsTyped
<1>1. ASSUME NEW c \in Calls, initialize(c) PROVE VaultTypeOK'
  <2> DEFINE r == [Free EXCEPT !.at = "initialize", !.state = stored]
  <2>1. r \in CallState /\ About(r)
    BY BegunTyped DEF VaultTypeOK, Free, About
  <2>2. CallsTyped' /\ calls' \in 0..MaxCalls
    BY <1>1, <1>t, <2>1, CallBegins DEF initialize, VaultTypeOK
  <2>3. QED
    BY <1>1, <1>u, <2>2 DEF initialize, Load, VaultTypeOK
<1>2. ASSUME NEW c \in Calls, unlock(c) PROVE VaultTypeOK'
  <2> DEFINE r == [Free EXCEPT !.at = "unlock", !.state = stored]
  <2>1. r \in CallState /\ About(r)
    BY BegunTyped DEF VaultTypeOK, Free, About
  <2>2. CallsTyped' /\ calls' \in 0..MaxCalls
    BY <1>2, <1>t, <2>1, CallBegins DEF unlock, VaultTypeOK
  <2>3. QED
    BY <1>2, <1>u, <2>2 DEF unlock, VaultTypeOK
<1>3. ASSUME NEW c \in Calls, NEW i \in Ids, removeKey(c, i) PROVE VaultTypeOK'
  <2> DEFINE r == [Free EXCEPT !.at = "remove", !.id = i, !.state = stored]
  <2>1. r \in CallState /\ About(r)
    BY BegunTyped DEF VaultTypeOK, Free, About
  <2>2. CallsTyped' /\ calls' \in 0..MaxCalls
    BY <1>3, <1>t, <2>1, CallBegins DEF removeKey, VaultTypeOK
  <2>3. QED
    BY <1>3, <1>u, <2>2 DEF removeKey, Load, VaultTypeOK
<1>4. ASSUME NEW c \in Calls, NEW i \in Ids, get(c, i) PROVE VaultTypeOK'
  <2> DEFINE r == [Free EXCEPT !.at = "read", !.id = i, !.state = stored]
  <2>1. r \in CallState /\ About(r)
    BY BegunTyped DEF VaultTypeOK, Free, About
  <2>2. CallsTyped' /\ calls' \in 0..MaxCalls
    BY <1>4, <1>t, <2>1, CallBegins DEF get, VaultTypeOK
  <2>3. QED
    BY <1>4, <1>u, <2>2 DEF get, VaultTypeOK
<1>5. ASSUME NEW c \in Calls, NEW i \in Ids, NEW noted \in BOOLEAN, setNotes(c, i, noted)
      PROVE  VaultTypeOK'
  <2> DEFINE l == IF noted THEN "set" ELSE "save"
             r == [Free EXCEPT !.at = l, !.id = i, !.state = stored]
  <2>1. r \in CallState /\ About(r)
    BY BegunTyped DEF VaultTypeOK, Free, About
  <2>2. CallsTyped' /\ calls' \in 0..MaxCalls
    BY <1>5, <1>t, <2>1, CallBegins DEF setNotes, VaultTypeOK
  <2>3. QED
    BY <1>5, <1>u, <2>2 DEF setNotes, Load, VaultTypeOK
<1>6. ASSUME NEW c \in Calls, NEW i \in Ids, NEW noted \in BOOLEAN, addKey(c, i, noted)
      PROVE  VaultTypeOK'
  <2> DEFINE l == IF noted THEN "seal" ELSE "sealed"
             r == [Free EXCEPT !.at = l, !.id = i, !.key = key]
  <2>1. r \in CallState /\ About(r)
    BY <1>6 DEF addKey, VaultTypeOK, Free, About, CallState
  <2>2. CallsTyped' /\ calls' \in 0..MaxCalls
    BY <1>6, <1>t, <2>1, CallBegins DEF addKey, VaultTypeOK
  <2>3. QED
    BY <1>6, <1>u, <2>2 DEF addKey, VaultTypeOK
<1>7. ASSUME NEW c \in Calls, CreateHeader(c) PROVE VaultTypeOK'
  <2>1. CASE ~Uninitialized(call[c].state)
    BY <1>7, <1>t, <1>u, <2>1, CallReturns DEF CreateHeader, VaultTypeOK
  <2>2. CASE Uninitialized(call[c].state)
    <3> DEFINE h == headers + 1
               r == [Free EXCEPT !.at = "create", !.key = h]
    <3>1. h \in Keys /\ headers' \in 0..MaxHeaders
      BY <1>7, <2>2, BoundAssumption DEF CreateHeader, VaultTypeOK, Keys, BoundAssumption
    <3>2. r \in CallState /\ About(r)
      BY <3>1 DEF Free, CallState, About
    <3>3. CallsTyped'
      BY <1>7, <1>t, <2>2, <3>2, CallSet DEF CreateHeader
    <3>4. call[c].state \in VaultState
      BY <1>7 DEF VaultTypeOK, About, CreateHeader
    <3>5. [call[c].state EXCEPT !.header = h] \in VaultState
      BY <3>1, <3>4, HeaderTyped
    <3>6. /\ Save(c, [call[c].state EXCEPT !.header = h], {})
          /\ UNCHANGED <<listed, unopened, key, used, calls>>
      BY <1>7, <2>2 DEF CreateHeader
    <3>7. /\ stored' \in VaultState
          /\ missed' \in [Calls -> SUBSET Ids]
          /\ undone' \subseteq Ids
      BY <3>5, <3>6, SaveTyped
    <3>8. doubled' \in BOOLEAN
      BY <1>7, <2>2 DEF CreateHeader
    <3>9. QED
      BY <1>u, <3>1, <3>3, <3>6, <3>7, <3>8 DEF VaultTypeOK
  <2>3. QED
    BY <2>1, <2>2
<1>8. ASSUME NEW c \in Calls, Created(c) PROVE VaultTypeOK'
  <2>1. key' \in Keys \cup {Null}
    BY <1>8 DEF Created, VaultTypeOK, CallState
  <2>2. QED
    BY <1>8, <1>t, <1>u, <2>1, CallReturns DEF Created, VaultTypeOK
<1>9. ASSUME NEW c \in Calls, Unlocked(c) PROVE VaultTypeOK'
  <2>1. call[c].state \in VaultState
    BY <1>9 DEF VaultTypeOK, About, Unlocked
  <2>2. key' \in Keys \cup {Null}
    BY <1>9, <2>1 DEF Unlocked, VaultTypeOK, VaultState
  <2>3. QED
    BY <1>9, <1>t, <1>u, <2>2, CallReturns DEF Unlocked, VaultTypeOK
<1>10. ASSUME NEW c \in Calls, SealNotes(c) PROVE VaultTypeOK'
  <2>1. CASE key = Null
    BY <1>10, <1>t, <1>u, <2>1, CallReturns DEF SealNotes, VaultTypeOK
  <2>2. CASE key # Null
    <3> DEFINE r == [call[c] EXCEPT !.at = "sealed", !.notes = key]
    <3>1. r \in CallState /\ About(r)
      BY <1>10 DEF SealNotes, VaultTypeOK, CallState, About
    <3>2. call' = [call EXCEPT ![c] = r]
      BY <1>10, <2>2 DEF SealNotes, VaultTypeOK, CallState
    <3>3. CallsTyped'
      BY <1>t, <3>1, <3>2, CallSet
    <3>4. QED
      BY <1>10, <1>u, <3>3 DEF SealNotes, VaultTypeOK
  <2>3. QED
    BY <2>1, <2>2
<1>11. ASSUME NEW c \in Calls, AddLoad(c) PROVE VaultTypeOK'
  <2> DEFINE r == [call[c] EXCEPT !.at = "add", !.state = stored]
  <2>1. r \in CallState /\ About(r)
    BY <1>11 DEF AddLoad, VaultTypeOK, CallState, About
  <2>2. call' = [call EXCEPT ![c] = r]
    BY <1>11 DEF AddLoad, VaultTypeOK, CallState
  <2>3. CallsTyped'
    BY <1>t, <2>1, <2>2, CallSet
  <2>4. QED
    BY <1>11, <1>u, <2>3 DEF AddLoad, Load, VaultTypeOK
<1>12. ASSUME NEW c \in Calls, AddSave(c) PROVE VaultTypeOK'
  <2>0. PICK i \in Ids : i = call[c].id
    BY <1>12 DEF AddSave, VaultTypeOK, About
  <2>1. Added(c) \in Entry
    BY <1>12 DEF AddSave, Added, VaultTypeOK, CallState, About, Entry
  <2>2. [call[c].state EXCEPT !.entries[i] = Added(c)] \in VaultState
    BY <1>12, <2>1, EntryTyped DEF AddSave, VaultTypeOK, About
  <2>3. QED
    BY <1>12, <1>t, <1>u, <2>0, <2>2, CallReturns, SaveTyped DEF AddSave, VaultTypeOK
<1>13. ASSUME NEW c \in Calls, RemoveSave(c) PROVE VaultTypeOK'
  <2>0. PICK i \in Ids : i = call[c].id
    BY <1>13 DEF RemoveSave, VaultTypeOK, About
  <2>1. [call[c].state EXCEPT !.entries[i] = Null] \in VaultState
    BY <1>13, EntryTyped DEF RemoveSave, VaultTypeOK, About
  <2>2. (IF call[c].state.entries[i] # Null THEN {i} ELSE {}) \in SUBSET Ids
    OBVIOUS
  <2>3. /\ Save(c, [call[c].state EXCEPT !.entries[i] = Null],
                IF call[c].state.entries[i] # Null THEN {i} ELSE {})
        /\ listed' \in [Ids -> {"no", "bare", "noted"}]
    BY <1>13, <2>0 DEF RemoveSave, VaultTypeOK
  <2>4. QED
    BY <1>13, <1>t, <1>u, <2>1, <2>2, <2>3, CallReturns, SaveTyped DEF RemoveSave, VaultTypeOK
<1>14. ASSUME NEW c \in Calls, Opened(c) PROVE VaultTypeOK'
  <2>1. unopened' \in BOOLEAN
    BY <1>14 DEF Opened, VaultTypeOK
  <2>2. QED
    BY <1>14, <1>t, <1>u, <2>1, CallReturns DEF Opened, VaultTypeOK
<1>15. ASSUME NEW c \in Calls, SetSeal(c) PROVE VaultTypeOK'
  <2>1. CASE key = Null \/ ~Has(call[c].state, call[c].id)
    BY <1>15, <1>t, <1>u, <2>1, CallReturns DEF SetSeal, VaultTypeOK
  <2>2. CASE ~(key = Null \/ ~Has(call[c].state, call[c].id))
    <3> DEFINE r == [call[c] EXCEPT !.at = "save", !.notes = key]
    <3>1. r \in CallState /\ About(r)
      BY <1>15 DEF SetSeal, VaultTypeOK, CallState, About
    <3>2. call' = [call EXCEPT ![c] = r]
      BY <1>15, <2>2 DEF SetSeal, VaultTypeOK, CallState
    <3>3. CallsTyped'
      BY <1>t, <3>1, <3>2, CallSet
    <3>4. QED
      BY <1>15, <1>u, <3>3 DEF SetSeal, VaultTypeOK
  <2>3. QED
    BY <2>1, <2>2
<1>16. ASSUME NEW c \in Calls, SetSave(c) PROVE VaultTypeOK'
  <2>0. PICK i \in Ids : i = call[c].id
    BY <1>16 DEF SetSave, VaultTypeOK, About
  <2>1. CASE ~Has(call[c].state, i)
    BY <1>16, <1>t, <1>u, <2>0, <2>1, CallReturns DEF SetSave, VaultTypeOK
  <2>2. CASE Has(call[c].state, i)
    <3>1. call[c].state \in VaultState /\ call[c].state.entries[i] \in Entry
      BY <1>16, <2>2 DEF SetSave, VaultTypeOK, About, VaultState
    <3>2. Annotated(c) \in VaultState
      BY <1>16, <2>0, <3>1 DEF SetSave, Annotated, VaultTypeOK, CallState, VaultState, Entry
    <3>3. Save(c, Annotated(c), {i}) /\ listed' \in [Ids -> {"no", "bare", "noted"}]
      BY <1>16, <2>0, <2>2 DEF SetSave, VaultTypeOK
    <3>4. QED
      BY <1>16, <1>t, <1>u, <3>2, <3>3, CallReturns, SaveTyped DEF SetSave, VaultTypeOK
  <2>3. QED
    BY <2>1, <2>2
<1>17. CASE LockVault
  BY <1>17 DEF LockVault, VaultTypeOK
<1>18. CASE WorkerEnds
  <2>1. CallsTyped'
    BY <1>18, FreeTyped DEF WorkerEnds, CallsTyped, Free, About
  <2>2. QED
    BY <1>18, <1>u, <2>1 DEF WorkerEnds, VaultTypeOK
<1>19. CASE UNCHANGED vaultVars
  BY <1>19 DEF vaultVars, VaultTypeOK
<1>20. QED
  BY <1>1, <1>2, <1>3, <1>4, <1>5, <1>6, <1>7, <1>8, <1>9, <1>10, <1>11, <1>12, <1>13, <1>14,
     <1>15, <1>16, <1>17, <1>18, <1>19 DEF VaultNext, VaultStep

\* The vault, the key in memory and every call in progress keep their types.
THEOREM VaultTypeCorrect == VaultSpec => []VaultTypeOK
<1>1. QED
  BY InitVaultTypeOK, VaultTypeStep, PTL DEF VaultSpec

-----------------------------------------------------------------------------
(* The key opens the vault: whatever a call has loaded or sealed, and may  *)
(* store, is sealed with the key of the header that is stored.             *)

SealedBy(state, h) ==
    \A i \in Ids : state.entries[i] # Null =>
        state.entries[i].key = h /\ state.entries[i].notes \in {Null, h}

Kept(r, h) ==
    /\ r.notes \in {Null, h}
    /\ r.at \notin {"free", "create", "seal", "sealed"} =>
           r.state.header \in {Null, h} /\ SealedBy(r.state, h)
    /\ r.at \in {"read", "add", "remove", "set", "save"} => h # Null /\ r.state.header = h
    /\ r.at \in {"create", "seal", "sealed", "add"} => r.key = h

OneKey ==
    /\ key \in {Null, stored.header}
    /\ SealedBy(stored, stored.header)
    /\ used # {} => stored.header # Null
    /\ ~unopened
    /\ \A c \in Calls : Kept(call[c], stored.header)

OneKeyUnlessDoubled == ~doubled => OneKey

LEMMA OneKeyImplies == VaultTypeOK /\ OneKeyUnlessDoubled => KeyOpensVault
BY DEF VaultTypeOK, OneKeyUnlessDoubled, OneKey, KeyOpensVault, SealedBy, SealedWith

LEMMA InitOneKey == VaultInit => OneKeyUnlessDoubled
BY DEF VaultInit, OneKeyUnlessDoubled, OneKey, SealedBy, Kept, Free

\* Where the header stays, a call that moves to a state that fits leaves the rest.
LEMMA OneKeySet ==
    ASSUME VaultTypeOK, OneKey, NEW c \in Calls, NEW r, Kept(r, stored.header),
           call' = [call EXCEPT ![c] = r],
           stored'.header = stored.header, SealedBy(stored', stored.header),
           key' \in {Null, stored.header}, used' # {} => stored.header # Null, ~unopened'
    PROVE  OneKey'
BY DEF OneKey, VaultTypeOK

LEMMA FreeKept == \A h : Kept(Free, h)
BY DEF Kept, Free

\* Entries sealed with no key are no entries.
LEMMA NothingSealed ==
    ASSUME NEW state \in VaultState, SealedBy(state, Null)
    PROVE  \A i \in Ids : state.entries[i] = Null
BY NullAssumption DEF VaultState, SealedBy, Entry, NullAssumption

LEMMA OneKeyStep ==
    VaultTypeOK /\ OneKeyUnlessDoubled /\ [VaultNext]_vaultVars => OneKeyUnlessDoubled'
<1> SUFFICES ASSUME VaultTypeOK, OneKeyUnlessDoubled, [VaultNext]_vaultVars, ~doubled'
             PROVE  OneKey'
  BY DEF OneKeyUnlessDoubled
<1>a. ~doubled
  <2>1. ASSUME NEW c \in Calls, CreateHeader(c) PROVE ~doubled
    BY <2>1 DEF CreateHeader
  <2>2. ASSUME NEW c \in Calls, VaultStep(c), ~CreateHeader(c) PROVE ~doubled
    BY <2>2 DEF VaultStep, Created, Unlocked, SealNotes, AddLoad, AddSave, RemoveSave, Opened, SetSeal, SetSave
  <2>3. QED
    BY <2>1, <2>2 DEF VaultNext, initialize, unlock, removeKey, get, addKey, setNotes, LockVault,
       WorkerEnds, vaultVars
<1>b. OneKey
  BY <1>a DEF OneKeyUnlessDoubled
<1>c. SealedBy(stored, stored.header) /\ stored \in VaultState
  BY <1>b DEF OneKey, VaultTypeOK
<1>1. ASSUME NEW c \in Calls, initialize(c) PROVE OneKey'
  <2> DEFINE r == [Free EXCEPT !.at = "initialize", !.state = stored]
  <2>1. Kept(r, stored.header)
    BY <1>c DEF Kept, Free
  <2>2. QED
    BY <1>1, <1>b, <2>1, OneKeySet DEF initialize, Begin, OneKey
<1>2. ASSUME NEW c \in Calls, unlock(c) PROVE OneKey'
  <2> DEFINE r == [Free EXCEPT !.at = "unlock", !.state = stored]
  <2>1. Kept(r, stored.header)
    BY <1>c DEF Kept, Free
  <2>2. QED
    BY <1>2, <1>b, <2>1, OneKeySet DEF unlock, Begin, OneKey
<1>3. ASSUME NEW c \in Calls, NEW i \in Ids, removeKey(c, i) PROVE OneKey'
  <2> DEFINE r == [Free EXCEPT !.at = "remove", !.id = i, !.state = stored]
  <2>1. Kept(r, stored.header)
    BY <1>3, <1>b, <1>c DEF Kept, Free, OneKey, removeKey
  <2>2. QED
    BY <1>3, <1>b, <2>1, OneKeySet DEF removeKey, Begin, OneKey
<1>4. ASSUME NEW c \in Calls, NEW i \in Ids, get(c, i) PROVE OneKey'
  <2> DEFINE r == [Free EXCEPT !.at = "read", !.id = i, !.state = stored]
  <2>1. Kept(r, stored.header)
    BY <1>4, <1>b, <1>c DEF Kept, Free, OneKey, get
  <2>2. QED
    BY <1>4, <1>b, <2>1, OneKeySet DEF get, Begin, OneKey
<1>5. ASSUME NEW c \in Calls, NEW i \in Ids, NEW noted \in BOOLEAN, setNotes(c, i, noted)
      PROVE  OneKey'
  <2> DEFINE l == IF noted THEN "set" ELSE "save"
             r == [Free EXCEPT !.at = l, !.id = i, !.state = stored]
  <2>1. Kept(r, stored.header)
    BY <1>5, <1>b, <1>c DEF Kept, Free, OneKey, setNotes
  <2>2. QED
    BY <1>5, <1>b, <2>1, OneKeySet DEF setNotes, Begin, OneKey
<1>6. ASSUME NEW c \in Calls, NEW i \in Ids, NEW noted \in BOOLEAN, addKey(c, i, noted)
      PROVE  OneKey'
  <2> DEFINE l == IF noted THEN "seal" ELSE "sealed"
             r == [Free EXCEPT !.at = l, !.id = i, !.key = key]
  <2>1. key = stored.header /\ key # Null
    BY <1>6, <1>b DEF OneKey, addKey
  <2>2. Kept(r, stored.header)
    BY <2>1 DEF Kept, Free
  <2>3. QED
    BY <1>6, <1>b, <2>1, <2>2, OneKeySet DEF addKey, Begin, OneKey
<1>7. ASSUME NEW c \in Calls, CreateHeader(c) PROVE OneKey'
  <2>1. CASE ~Uninitialized(call[c].state)
    BY <1>7, <1>b, <2>1, FreeKept, OneKeySet DEF CreateHeader, Return, OneKey
  <2>2. CASE Uninitialized(call[c].state)
    <3> DEFINE h == headers + 1
               r == [Free EXCEPT !.at = "create", !.key = h]
               s == [call[c].state EXCEPT !.header = h]
    <3> HIDE DEF h
    <3>1. /\ stored.header = Null
          /\ stored' = s
          /\ call' = [call EXCEPT ![c] = r]
          /\ UNCHANGED <<key, used, unopened>>
      BY <1>7, <2>2 DEF CreateHeader, Save, Uninitialized, h
    <3>2. h # Null
      BY <1>7, <2>2, NullAssumption, BoundAssumption
         DEF CreateHeader, VaultTypeOK, Keys, NullAssumption, BoundAssumption, h
    <3>3. call[c].state \in VaultState /\ SealedBy(call[c].state, Null)
      BY <1>7, <1>b, <3>1 DEF CreateHeader, VaultTypeOK, About, OneKey, Kept
    <3>4. s.header = h /\ \A i \in Ids : s.entries[i] = Null
      BY <3>3, NothingSealed DEF VaultState
    <3>5. Kept(r, h)
      BY DEF Kept, Free
    <3>6. ASSUME NEW d \in Calls, d # c PROVE Kept(call[d], h)
      <4>1. Kept(call[d], Null) /\ About(call[d])
        BY <1>b, <3>1 DEF OneKey, VaultTypeOK
      <4>2. call[d].at \notin {"create", "seal", "sealed", "add", "read", "remove", "set", "save"}
        BY <4>1, NullAssumption DEF Kept, About, NullAssumption
      <4>3. call[d].at \notin {"free", "create", "seal", "sealed"} =>
                /\ call[d].state.header = Null
                /\ \A i \in Ids : call[d].state.entries[i] = Null
        BY <4>1, NothingSealed DEF Kept, About
      <4>4. QED
        BY <4>1, <4>2, <4>3 DEF Kept, SealedBy
    <3>7. \A d \in Calls : Kept(call'[d], h)
      BY <3>1, <3>5, <3>6 DEF VaultTypeOK
    <3>8. QED
      BY <1>b, <3>1, <3>2, <3>4, <3>7 DEF OneKey, SealedBy
  <2>3. QED
    BY <2>1, <2>2
<1>8. ASSUME NEW c \in Calls, Created(c) PROVE OneKey'
  <2>1. key' = stored.header
    BY <1>8, <1>b DEF Created, OneKey, Kept
  <2>2. QED
    BY <1>8, <1>b, <2>1, FreeKept, OneKeySet DEF Created, Return, OneKey
<1>9. ASSUME NEW c \in Calls, Unlocked(c) PROVE OneKey'
  <2>1. key' \in {Null, stored.header}
    BY <1>9, <1>b DEF Unlocked, OneKey, Kept
  <2>2. QED
    BY <1>9, <1>b, <2>1, FreeKept, OneKeySet DEF Unlocked, Return, OneKey
<1>10. ASSUME NEW c \in Calls, SealNotes(c) PROVE OneKey'
  <2>1. CASE key = Null
    BY <1>10, <1>b, <2>1, FreeKept, OneKeySet DEF SealNotes, Return, OneKey
  <2>2. CASE key # Null
    <3> DEFINE r == [call[c] EXCEPT !.at = "sealed", !.notes = key]
    <3>1. Kept(r, stored.header)
      BY <1>10, <1>b, <2>2 DEF SealNotes, OneKey, Kept, VaultTypeOK, CallState
    <3>2. call' = [call EXCEPT ![c] = r]
      BY <1>10, <2>2 DEF SealNotes, VaultTypeOK, CallState
    <3>3. QED
      BY <1>10, <1>b, <3>1, <3>2, OneKeySet DEF SealNotes, OneKey
  <2>3. QED
    BY <2>1, <2>2
<1>11. ASSUME NEW c \in Calls, AddLoad(c) PROVE OneKey'
  <2> DEFINE r == [call[c] EXCEPT !.at = "add", !.state = stored]
  <2>1. stored.header # Null
    BY <1>11, <1>b, NullAssumption DEF AddLoad, OneKey, Kept, VaultTypeOK, About, NullAssumption
  <2>2. Kept(r, stored.header)
    BY <1>11, <1>b, <1>c, <2>1 DEF AddLoad, OneKey, Kept, VaultTypeOK, CallState
  <2>3. call' = [call EXCEPT ![c] = r]
    BY <1>11 DEF AddLoad, VaultTypeOK, CallState
  <2>4. QED
    BY <1>11, <1>b, <2>2, <2>3, OneKeySet DEF AddLoad, OneKey
<1>12. ASSUME NEW c \in Calls, AddSave(c) PROVE OneKey'
  <2>0. PICK i \in Ids : i = call[c].id
    BY <1>12 DEF AddSave, VaultTypeOK, About
  <2>1. /\ Kept(call[c], stored.header) /\ call[c].state \in VaultState
        /\ call[c].at = "add"
    BY <1>12, <1>b DEF AddSave, OneKey, VaultTypeOK, About
  <2>2. stored' = [call[c].state EXCEPT !.entries[i] = Added(c)]
    BY <1>12, <2>0 DEF AddSave, Save
  <2>3. stored'.header = stored.header /\ SealedBy(stored', stored.header)
    BY <2>1, <2>2 DEF Kept, SealedBy, Added, VaultState
  <2>4. QED
    BY <1>12, <1>b, <2>3, FreeKept, OneKeySet DEF AddSave, Return, OneKey
<1>13. ASSUME NEW c \in Calls, RemoveSave(c) PROVE OneKey'
  <2>0. PICK i \in Ids : i = call[c].id
    BY <1>13 DEF RemoveSave, VaultTypeOK, About
  <2>1. /\ Kept(call[c], stored.header) /\ call[c].state \in VaultState
        /\ call[c].at = "remove"
    BY <1>13, <1>b DEF RemoveSave, OneKey, VaultTypeOK, About
  <2>2. stored' = [call[c].state EXCEPT !.entries[i] = Null]
    BY <1>13, <2>0 DEF RemoveSave, Save
  <2>3. stored'.header = stored.header /\ SealedBy(stored', stored.header)
    BY <2>1, <2>2 DEF Kept, SealedBy, VaultState
  <2>4. QED
    BY <1>13, <1>b, <2>3, FreeKept, OneKeySet DEF RemoveSave, Return, OneKey
<1>14. ASSUME NEW c \in Calls, Opened(c) PROVE OneKey'
  <2>1. /\ Kept(call[c], stored.header) /\ call[c].state \in VaultState
        /\ call[c].at = "read" /\ call[c].id \in Ids
    BY <1>14, <1>b DEF Opened, OneKey, VaultTypeOK, About
  <2> DEFINE e == call[c].state.entries[call[c].id]
  <2>2. e # Null /\ key # Null => {e.key, e.notes} \ {Null, key} = {}
    BY <1>b, <2>1 DEF Kept, SealedBy, OneKey
  <2>3. ~unopened'
    BY <1>14, <1>b, <2>2 DEF Opened, OneKey
  <2>4. QED
    BY <1>14, <1>b, <2>3, FreeKept, OneKeySet DEF Opened, Return, OneKey
<1>15. ASSUME NEW c \in Calls, SetSeal(c) PROVE OneKey'
  <2>1. CASE key = Null \/ ~Has(call[c].state, call[c].id)
    BY <1>15, <1>b, <2>1, FreeKept, OneKeySet DEF SetSeal, Return, OneKey
  <2>2. CASE ~(key = Null \/ ~Has(call[c].state, call[c].id))
    <3> DEFINE r == [call[c] EXCEPT !.at = "save", !.notes = key]
    <3>1. Kept(r, stored.header)
      BY <1>15, <1>b, <2>2 DEF SetSeal, OneKey, Kept, VaultTypeOK, CallState
    <3>2. call' = [call EXCEPT ![c] = r]
      BY <1>15, <2>2 DEF SetSeal, VaultTypeOK, CallState
    <3>3. QED
      BY <1>15, <1>b, <3>1, <3>2, OneKeySet DEF SetSeal, OneKey
  <2>3. QED
    BY <2>1, <2>2
<1>16. ASSUME NEW c \in Calls, SetSave(c) PROVE OneKey'
  <2>0. PICK i \in Ids : i = call[c].id
    BY <1>16 DEF SetSave, VaultTypeOK, About
  <2>1. CASE ~Has(call[c].state, i)
    BY <1>16, <1>b, <2>0, <2>1, FreeKept, OneKeySet DEF SetSave, Return, OneKey
  <2>2. CASE Has(call[c].state, i)
    <3>1. /\ Kept(call[c], stored.header) /\ call[c].state \in VaultState
          /\ call[c].at = "save" /\ call[c].state.entries[i] \in Entry
      BY <1>16, <1>b, <2>2 DEF SetSave, OneKey, VaultTypeOK, About, VaultState
    <3>2. stored' = [call[c].state EXCEPT !.entries[i].notes = call[c].notes]
      BY <1>16, <2>0, <2>2 DEF SetSave, Save, Annotated
    <3>3. stored'.header = stored.header /\ SealedBy(stored', stored.header)
      BY <2>2, <3>1, <3>2 DEF Kept, SealedBy, VaultState, Entry
    <3>4. QED
      BY <1>16, <1>b, <3>3, FreeKept, OneKeySet DEF SetSave, Return, OneKey
  <2>3. QED
    BY <2>1, <2>2
<1>17. CASE LockVault
  BY <1>17, <1>b DEF LockVault, OneKey
<1>18. CASE WorkerEnds
  BY <1>18, <1>b, FreeKept DEF WorkerEnds, OneKey
<1>19. CASE UNCHANGED vaultVars
  BY <1>19, <1>b DEF vaultVars, OneKey
<1>20. QED
  BY <1>1, <1>2, <1>3, <1>4, <1>5, <1>6, <1>7, <1>8, <1>9, <1>10, <1>11, <1>12, <1>13, <1>14,
     <1>15, <1>16, <1>17, <1>18, <1>19 DEF VaultNext, VaultStep

\* The key in memory opens every entry and all notes that are stored, through
\* any overlapping calls, locks and deaths of the worker, as long as no initialize
\* stored its header over one it had not seen.
THEOREM KeyAlwaysOpens == VaultSpec => []KeyOpensVault
<1>1. QED
  BY InitVaultTypeOK, VaultTypeStep, InitOneKey, OneKeyStep, OneKeyImplies, PTL DEF VaultSpec

-----------------------------------------------------------------------------
(* Only overlap undoes: the vault a call has loaded shows what the users   *)
(* were told, but for what other calls changed since.                      *)

ShownIn(state, i) ==
    IF state.entries[i] = Null THEN "no"
    ELSE IF state.entries[i].notes = Null THEN "bare" ELSE "noted"

Loaded == {"initialize", "add", "remove", "set", "save"}

Agrees(r, behind) ==
    r.at \in Loaded => \A i \in Ids \ (undone \cup behind) : ShownIn(r.state, i) = listed[i]

ToldTruly ==
    /\ \A i \in Ids \ undone : ShownIn(stored, i) = listed[i]
    /\ \A c \in Calls : Agrees(call[c], missed[c])

LEMMA FreeAgrees == ASSUME NEW behind PROVE Agrees(Free, behind)
BY DEF Agrees, Free, Loaded

\* A step of a call that stores nothing.
LEMMA NothingStored ==
    ASSUME VaultTypeOK, ToldTruly, NEW c \in Calls, UNCHANGED <<stored, listed, undone>>,
           \A d \in Calls \ {c} : call'[d] = call[d] /\ missed'[d] = missed[d],
           Agrees(call'[c], missed'[c])
    PROVE  ToldTruly'
BY DEF ToldTruly, Agrees, ShownIn

\* A call begins with the vault that is stored.
LEMMA StoredAgrees ==
    ASSUME ToldTruly, NEW r, r.state = stored
    PROVE  Agrees(r, {})
BY DEF ToldTruly, Agrees

\* A save of what a call has loaded, with a change of its own that its user is told.
LEMMA SaveTold ==
    ASSUME VaultTypeOK, ToldTruly, NEW c \in Calls, call[c].at \in Loaded,
           NEW state \in VaultState, NEW ids \in SUBSET Ids, Save(c, state, ids),
           \A i \in Ids \ ids : state.entries[i] = call[c].state.entries[i] /\ listed'[i] = listed[i],
           \A i \in ids : ShownIn(state, i) = listed'[i],
           \A d \in Calls \ {c} : call'[d] = call[d],
           call'[c].at \notin Loaded
    PROVE  ToldTruly'
<1>1. /\ stored' = state /\ undone' = (undone \cup missed[c]) \ ids
      /\ \A d \in Calls : missed'[d] = missed[d] \cup ids
  BY DEF Save
<1>2. ASSUME NEW i \in Ids \ undone' PROVE ShownIn(state, i) = listed'[i]
  <2>1. CASE i \in ids
    BY <2>1
  <2>2. CASE i \notin ids
    <3>1. i \in Ids \ (undone \cup missed[c])
      BY <1>1, <2>2
    <3>2. ShownIn(call[c].state, i) = listed[i]
      BY <3>1 DEF ToldTruly, Agrees
    <3>3. QED
      BY <2>2, <3>2 DEF ShownIn
  <2>3. QED
    BY <2>1, <2>2
<1>3. ASSUME NEW d \in Calls, d # c PROVE Agrees(call[d], missed[d])'
  <2>1. call'[d] = call[d] /\ Agrees(call[d], missed[d])
    BY <1>3 DEF ToldTruly
  <2>2. ASSUME NEW i \in Ids \ (undone' \cup missed'[d])
        PROVE  i \in Ids \ (undone \cup missed[d]) /\ listed'[i] = listed[i]
    BY <1>1, <2>2
  <2>3. QED
    BY <2>1, <2>2 DEF Agrees, ShownIn
<1>4. Agrees(call[c], missed[c])'
  BY DEF Agrees
<1>5. \A i \in Ids \ undone' : ShownIn(stored', i) = listed'[i]
  BY <1>1, <1>2
<1>6. \A d \in Calls : Agrees(call[d], missed[d])'
  BY <1>3, <1>4
<1>7. (\A i \in Ids \ undone : ShownIn(stored, i) = listed[i])'
  BY <1>5 DEF ShownIn
<1>8. QED
  BY <1>6, <1>7 DEF ToldTruly

LEMMA InitTold == VaultInit => ToldTruly
BY DEF VaultInit, ToldTruly, ShownIn, Agrees, Free, Loaded

LEMMA ToldStep == VaultTypeOK /\ ToldTruly /\ [VaultNext]_vaultVars => ToldTruly'
<1> SUFFICES ASSUME VaultTypeOK, ToldTruly, [VaultNext]_vaultVars PROVE ToldTruly'
  OBVIOUS
<1>t. call \in [Calls -> CallState] /\ missed \in [Calls -> SUBSET Ids]
  BY DEF VaultTypeOK
\* The calls that load the vault.
<1>1. ASSUME NEW c \in Calls, NEW r, call' = [call EXCEPT ![c] = r], r.state = stored,
             Load(c), UNCHANGED <<stored, listed, undone>>
      PROVE  ToldTruly'
  <2>1. Agrees(call'[c], missed'[c])
    BY <1>1, <1>t, StoredAgrees DEF Load
  <2>2. \A d \in Calls \ {c} : call'[d] = call[d] /\ missed'[d] = missed[d]
    BY <1>1, <1>t DEF Load
  <2>3. QED
    BY <1>1, <2>1, <2>2, NothingStored
<1>2. ASSUME NEW c \in Calls, initialize(c) PROVE ToldTruly'
  <2> DEFINE r == [Free EXCEPT !.at = "initialize", !.state = stored]
  <2>1. r.state = stored
    BY DEF Free
  <2>2. QED
    BY <1>1, <1>2, <2>1 DEF initialize, Begin
<1>3. ASSUME NEW c \in Calls, NEW i \in Ids, removeKey(c, i) PROVE ToldTruly'
  <2> DEFINE r == [Free EXCEPT !.at = "remove", !.id = i, !.state = stored]
  <2>1. r.state = stored
    BY DEF Free
  <2>2. QED
    BY <1>1, <1>3, <2>1 DEF removeKey, Begin
<1>4. ASSUME NEW c \in Calls, NEW i \in Ids, NEW noted \in BOOLEAN, setNotes(c, i, noted) PROVE ToldTruly'
  <2> DEFINE l == IF noted THEN "set" ELSE "save"
             r == [Free EXCEPT !.at = l, !.id = i, !.state = stored]
  <2>1. r.state = stored
    BY DEF Free
  <2>2. QED
    BY <1>1, <1>4, <2>1 DEF setNotes, Begin
<1>5. ASSUME NEW c \in Calls, AddLoad(c) PROVE ToldTruly'
  <2> DEFINE r == [call[c] EXCEPT !.at = "add", !.state = stored]
  <2>1. r.state = stored /\ call' = [call EXCEPT ![c] = r]
    BY <1>5, <1>t DEF AddLoad, CallState
  <2>2. QED
    BY <1>1, <1>5, <2>1 DEF AddLoad
\* The steps after which a call has nothing of the vault to store.
<1>6. ASSUME NEW c \in Calls, NEW r, call' = [call EXCEPT ![c] = r], r.at \notin Loaded,
             UNCHANGED <<stored, listed, undone, missed>>
      PROVE  ToldTruly'
  <2>1. Agrees(call'[c], missed'[c])
    BY <1>6, <1>t DEF Agrees
  <2>2. QED
    BY <1>6, <1>t, <2>1, NothingStored
<1>7. ASSUME NEW c \in Calls, Return(c), UNCHANGED <<stored, listed, undone, missed>> PROVE ToldTruly'
  BY <1>6, <1>7 DEF Return, Free, Loaded
<1>8. ASSUME NEW c \in Calls, Created(c) \/ Unlocked(c) \/ Opened(c) PROVE ToldTruly'
  BY <1>7, <1>8 DEF Created, Unlocked, Opened
<1>9. ASSUME NEW c \in Calls, unlock(c) PROVE ToldTruly'
  BY <1>6, <1>9 DEF unlock, Begin, Free, Loaded
<1>10. ASSUME NEW c \in Calls, NEW i \in Ids, get(c, i) PROVE ToldTruly'
  BY <1>6, <1>10 DEF get, Begin, Free, Loaded
<1>11. ASSUME NEW c \in Calls, NEW i \in Ids, NEW noted \in BOOLEAN, addKey(c, i, noted) PROVE ToldTruly'
  BY <1>6, <1>11 DEF addKey, Begin, Free, Loaded
<1>12. ASSUME NEW c \in Calls, SealNotes(c) PROVE ToldTruly'
  <2>1. CASE key = Null
    BY <1>7, <1>12, <2>1 DEF SealNotes
  <2>2. CASE key # Null
    <3> DEFINE r == [call[c] EXCEPT !.at = "sealed", !.notes = key]
    <3>1. r.at \notin Loaded /\ call' = [call EXCEPT ![c] = r]
      BY <1>12, <1>t, <2>2 DEF SealNotes, CallState, Loaded
    <3>2. QED
      BY <1>6, <1>12, <3>1 DEF SealNotes
  <2>3. QED
    BY <2>1, <2>2
<1>13. ASSUME NEW c \in Calls, SetSeal(c) PROVE ToldTruly'
  <2>1. CASE Return(c)
    BY <1>7, <1>13, <2>1 DEF SetSeal
  <2>2. CASE ~Return(c)
    <3>1. /\ call'[c] = [call[c] EXCEPT !.at = "save", !.notes = key]
          /\ call[c].at \in Loaded /\ call[c] \in CallState
          /\ UNCHANGED <<stored, listed, undone, missed>>
          /\ \A d \in Calls \ {c} : call'[d] = call[d]
      BY <1>13, <1>t, <2>2 DEF SetSeal, CallState, Loaded
    <3>2. call'[c].state = call[c].state
      BY <3>1 DEF CallState
    <3>3. Agrees(call'[c], missed'[c])
      BY <3>1, <3>2 DEF ToldTruly, Agrees
    <3>4. QED
      BY <3>1, <3>3, NothingStored
  <2>3. QED
    BY <2>1, <2>2
\* The steps that store what a call has loaded.
<1>r. ASSUME NEW c \in Calls, Return(c)
      PROVE  call'[c].at \notin Loaded /\ \A d \in Calls \ {c} : call'[d] = call[d]
  BY <1>r, <1>t DEF Return, Free, Loaded
<1>14. ASSUME NEW c \in Calls, CreateHeader(c) PROVE ToldTruly'
  <2>1. CASE ~Uninitialized(call[c].state)
    BY <1>7, <1>14, <2>1 DEF CreateHeader
  <2>2. CASE Uninitialized(call[c].state)
    <3> DEFINE h == headers + 1
               state == [call[c].state EXCEPT !.header = h]
    <3>1. call[c].at \in Loaded /\ call[c].state \in VaultState
      BY <1>14 DEF CreateHeader, VaultTypeOK, About, Loaded
    <3>2. h \in Keys /\ Save(c, state, {}) /\ listed' = listed
          /\ call' = [call EXCEPT ![c] = [Free EXCEPT !.at = "create", !.key = h]]
      BY <1>14, <2>2, BoundAssumption DEF CreateHeader, VaultTypeOK, Keys, BoundAssumption
    <3>3. state \in VaultState /\ state.entries = call[c].state.entries
      BY <3>1, <3>2, HeaderTyped DEF VaultState
    <3>4. call'[c].at \notin Loaded /\ \A d \in Calls \ {c} : call'[d] = call[d]
      BY <1>t, <3>2 DEF Free, Loaded
    <3> HIDE DEF state
    <3>5. QED
      BY <3>1, <3>2, <3>3, <3>4, SaveTold
  <2>3. QED
    BY <2>1, <2>2
<1>15. ASSUME NEW c \in Calls, AddSave(c) PROVE ToldTruly'
  <2> DEFINE i == call[c].id
             state == [call[c].state EXCEPT !.entries[i] = Added(c)]
  <2>1. /\ call[c].at \in Loaded /\ call[c].state \in VaultState /\ i \in Ids
        /\ call[c].key \in Keys /\ call[c].notes \in Keys \cup {Null}
    BY <1>15 DEF AddSave, VaultTypeOK, About, CallState, Loaded
  <2>2. Added(c) \in Entry /\ Added(c) # Null /\ Added(c).notes = call[c].notes
    BY <2>1, NullAssumption DEF Added, Entry, NullAssumption
  <2>3. state \in VaultState /\ state.entries[i] = Added(c)
        /\ \A j \in Ids \ {i} : state.entries[j] = call[c].state.entries[j]
    BY <2>1, <2>2, EntryTyped DEF VaultState
  <2>4. Save(c, state, {i}) /\ Return(c)
        /\ listed' = [listed EXCEPT ![i] = IF call[c].notes = Null THEN "bare" ELSE "noted"]
    BY <1>15 DEF AddSave
  <2>5. ShownIn(state, i) = listed'[i] /\ \A j \in Ids \ {i} : listed'[j] = listed[j]
    BY <2>1, <2>2, <2>3, <2>4 DEF ShownIn, VaultTypeOK
  <2> HIDE DEF state, i
  <2>6. QED
    BY <1>r, <2>1, <2>3, <2>4, <2>5, SaveTold
<1>16. ASSUME NEW c \in Calls, RemoveSave(c) PROVE ToldTruly'
  <2> DEFINE i == call[c].id
             was == Has(call[c].state, i)
             ids == IF was THEN {i} ELSE {}
             state == [call[c].state EXCEPT !.entries[i] = Null]
  <2>1. call[c].at \in Loaded /\ call[c].state \in VaultState /\ i \in Ids
    BY <1>16 DEF RemoveSave, VaultTypeOK, About, Loaded
  <2>2. state \in VaultState /\ state.entries[i] = Null
        /\ \A j \in Ids \ {i} : state.entries[j] = call[c].state.entries[j]
    BY <2>1, EntryTyped DEF VaultState
  <2>3. Save(c, state, ids) /\ Return(c) /\ listed' = IF was THEN [listed EXCEPT ![i] = "no"] ELSE listed
    BY <1>16 DEF RemoveSave
  <2>4. /\ \A j \in ids : ShownIn(state, j) = listed'[j]
        /\ \A j \in Ids \ ids : state.entries[j] = call[c].state.entries[j] /\ listed'[j] = listed[j]
    BY <2>1, <2>2, <2>3 DEF ShownIn, VaultTypeOK
  <2>5. ids \in SUBSET Ids
    BY <2>1
  <2> HIDE DEF state, ids, was, i
  <2>6. QED
    BY <1>r, <2>1, <2>2, <2>3, <2>4, <2>5, SaveTold
<1>17. ASSUME NEW c \in Calls, SetSave(c) PROVE ToldTruly'
  <2> DEFINE i == call[c].id
             state == Annotated(c)
  <2>1. CASE ~Has(call[c].state, i)
    BY <1>7, <1>17, <2>1 DEF SetSave
  <2>2. CASE Has(call[c].state, i)
    <3>1. /\ call[c].at \in Loaded /\ call[c].state \in VaultState /\ i \in Ids
          /\ call[c].notes \in Keys \cup {Null}
      BY <1>17 DEF SetSave, VaultTypeOK, About, CallState, Loaded
    <3> DEFINE e == [call[c].state.entries[i] EXCEPT !.notes = call[c].notes]
    <3>2. e \in Entry /\ e # Null /\ e.notes = call[c].notes
      BY <2>2, <3>1, NullAssumption DEF VaultState, Entry, NullAssumption
    <3>3. state = [call[c].state EXCEPT !.entries[i] = e]
      BY <2>2, <3>1 DEF Annotated, VaultState
    <3>4. state \in VaultState /\ state.entries[i] = e
          /\ \A j \in Ids \ {i} : state.entries[j] = call[c].state.entries[j]
      <4> HIDE DEF state, e, i
      <4>1. QED
        BY <3>1, <3>2, <3>3, EntryTyped DEF VaultState
    <3>5. Save(c, state, {i}) /\ Return(c)
          /\ listed' = [listed EXCEPT ![i] = IF call[c].notes = Null THEN "bare" ELSE "noted"]
      BY <1>17, <2>2 DEF SetSave
    <3>6. ShownIn(state, i) = listed'[i] /\ \A j \in Ids \ {i} : listed'[j] = listed[j]
      BY <3>1, <3>2, <3>4, <3>5 DEF ShownIn, VaultTypeOK
    <3> HIDE DEF state, i, e
    <3>7. QED
      BY <1>r, <3>1, <3>4, <3>5, <3>6, SaveTold
  <2>3. QED
    BY <2>1, <2>2
<1>18. CASE LockVault \/ UNCHANGED vaultVars
  BY <1>18 DEF LockVault, vaultVars, ToldTruly, Agrees, ShownIn
<1>19. CASE WorkerEnds
  <2>1. \A c \in Calls : Agrees(call[c], missed[c])'
    BY <1>19 DEF WorkerEnds, Agrees, Free, Loaded
  <2>2. QED
    BY <1>19, <2>1 DEF WorkerEnds, ToldTruly, ShownIn
<1>20. QED
  BY <1>2, <1>3, <1>4, <1>5, <1>8, <1>9, <1>10, <1>11, <1>12, <1>13, <1>14, <1>15, <1>16, <1>17, <1>18, <1>19
     DEF VaultNext, VaultStep

\* What a user was told of an entry is what is stored (vault.ts addKey, removeKey,
\* setNotes), unless a call that had loaded the vault before that change stored it
\* afterwards, for any number of calls, entries, locks and deaths of the worker.
THEOREM OverlapAloneUndoes == VaultSpec => []OnlyOverlapUndoes
<1>1. ToldTruly => OnlyOverlapUndoes
  BY DEF ToldTruly, OnlyOverlapUndoes, Shown, ShownIn
<1>2. QED
  BY <1>1, InitVaultTypeOK, VaultTypeStep, InitTold, ToldStep, PTL DEF VaultSpec
=============================================================================
