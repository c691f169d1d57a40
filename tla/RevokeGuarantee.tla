---------------------------- MODULE RevokeGuarantee ----------------------------
(***************************************************************************)
(* What the revocation guard promises, with no storage, no registry and no *)
(* awaits: revocations happen at an instant, a proxied call is cleared to  *)
(* answer only at an instant at which no revocation has happened since the *)
(* call opened, and only a cleared call answers.  A call may be refused at *)
(* any time before it answers (an abort, an error, the end of the worker). *)
(***************************************************************************)
EXTENDS Naturals

CONSTANT Calls

VARIABLES
    generation,     \* how many revocations have happened
    status,         \* "idle", "open", "cleared", "answered" or "refused"
    openedAt        \* the generation each call opened in

vars == <<generation, status, openedAt>>

Init ==
    /\ generation = 0
    /\ status = [c \in Calls |-> "idle"]
    /\ openedAt = [c \in Calls |-> 0]

Open(c) ==
    /\ status[c] = "idle"
    /\ status' = [status EXCEPT ![c] = "open"]
    /\ openedAt' = [openedAt EXCEPT ![c] = generation]
    /\ UNCHANGED generation

Revoke ==
    /\ generation' = generation + 1
    /\ UNCHANGED <<status, openedAt>>

Clear(c) ==
    /\ status[c] = "open"
    /\ openedAt[c] = generation
    /\ status' = [status EXCEPT ![c] = "cleared"]
    /\ UNCHANGED <<generation, openedAt>>

Answer(c) ==
    /\ status[c] = "cleared"
    /\ status' = [status EXCEPT ![c] = "answered"]
    /\ UNCHANGED <<generation, openedAt>>

Refuse(cs) ==
    /\ \A c \in cs : status[c] # "answered"
    /\ status' = [c \in Calls |-> IF c \in cs THEN "refused" ELSE status[c]]
    /\ UNCHANGED <<generation, openedAt>>

Next ==
    \/ Revoke
    \/ \E c \in Calls : Open(c) \/ Clear(c) \/ Answer(c)
    \/ \E cs \in SUBSET Calls : Refuse(cs)

Spec == Init /\ [][Next]_vars
=============================================================================
