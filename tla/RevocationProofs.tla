--------------------------- MODULE RevocationProofs ---------------------------
(***************************************************************************)
(* Theorems about Revocation, for every set of calls, grants and bumps.    *)
(***************************************************************************)
EXTENDS Revocation, TLAPS

\* The type invariant is inductive.
LEMMA TypeStep == TypeOK /\ [Next]_vars => TypeOK'
<1> SUFFICES ASSUME TypeOK, [Next]_vars PROVE TypeOK'
    OBVIOUS
<1> USE DEF TypeOK, Suspended, Ended, Goto, callVars, bumpVars
<1>1. ASSUME NEW c \in Calls, CallStep(c) PROVE TypeOK'
  <2>1. ASSUME NEW g \in Grants \cup {NoGrant}, StartCall(c, g) PROVE TypeOK'
    BY <2>1 DEF StartCall
  <2>2. CASE KeyFails(c)
    BY <2>2 DEF KeyFails
  <2>3. CASE ReadEpochBefore(c)
    BY <2>3 DEF ReadEpochBefore
  <2>4. CASE StartFetch(c)
    BY <2>4 DEF StartFetch, registerInFlight
  <2>5. CASE FetchResolves(c)
    BY <2>5 DEF FetchResolves
  <2>6. CASE FetchFails(c)
    BY <2>6 DEF FetchFails, unregisterInFlight
  <2>7. CASE FetchAborted(c)
    BY <2>7 DEF FetchAborted, unregisterInFlight
  <2>8. CASE Caught(c)
    BY <2>8 DEF Caught
  <2>9. CASE ReadEpochAfter(c)
    BY <2>9 DEF ReadEpochAfter, unregisterInFlight
  <2>10. CASE BodyFails(c)
    BY <2>10 DEF BodyFails
  <2>11. CASE Check(c)
    BY <2>11 DEF Check
  <2> QED BY <1>1, <2>1, <2>2, <2>3, <2>4, <2>5, <2>6, <2>7, <2>8, <2>9, <2>10, <2>11
           DEF CallStep
<1>2. ASSUME NEW b \in Bumps, BumpStep(b) PROVE TypeOK'
  <2>1. CASE BumpRead(b)
    BY <2>1 DEF BumpRead
  <2>2. CASE BumpSet(b)
    BY <2>2 DEF BumpSet, NextEpoch, Open
  <2>3. CASE abortAllInFlight(b)
    BY <2>3 DEF abortAllInFlight, AbortEach
  <2> QED BY <1>2, <2>1, <2>2, <2>3 DEF BumpStep
<1>3. ASSUME NEW g \in Grants, abortGrant(g) PROVE TypeOK'
  BY <1>3 DEF abortGrant, AbortEach
<1>4. CASE WorkerDies
  BY <1>4 DEF WorkerDies
<1>5. CASE UNCHANGED vars
  BY <1>5 DEF vars
<1> QED BY <1>1, <1>2, <1>3, <1>4, <1>5 DEF Next

\* Every variable, and every handler's local state, keeps its type in every
\* behaviour of the guard.
THEOREM TypeCorrect == Spec => []TypeOK
<1>1. Init => TypeOK
  BY DEF Init, TypeOK
<1> QED BY <1>1, TypeStep, PTL DEF Spec

-----------------------------------------------------------------------------
(* Every upstream call can be aborted.                                     *)

LEMMA AbortableStep ==
    TypeOK /\ InFlightIsAbortable /\ [Next]_vars => InFlightIsAbortable'
<1> SUFFICES ASSUME TypeOK, InFlightIsAbortable, [Next]_vars
             PROVE InFlightIsAbortable'
    OBVIOUS
<1> USE DEF TypeOK, InFlightIsAbortable, Goto, callVars, bumpVars
<1>1. ASSUME NEW c \in Calls, CallStep(c) PROVE InFlightIsAbortable'
  <2>1. ASSUME NEW g \in Grants \cup {NoGrant}, StartCall(c, g)
        PROVE InFlightIsAbortable'
    BY <2>1 DEF StartCall
  <2>2. CASE KeyFails(c) \/ ReadEpochBefore(c) \/ FetchResolves(c)
             \/ Caught(c) \/ BodyFails(c) \/ Check(c)
    BY <2>2 DEF KeyFails, ReadEpochBefore, FetchResolves, Caught, BodyFails, Check
  <2>3. CASE StartFetch(c)
    BY <2>3 DEF StartFetch, registerInFlight
  <2>4. CASE FetchFails(c) \/ FetchAborted(c) \/ ReadEpochAfter(c)
    BY <2>4 DEF FetchFails, FetchAborted, ReadEpochAfter, unregisterInFlight
  <2> QED BY <1>1, <2>1, <2>2, <2>3, <2>4 DEF CallStep
<1>2. ASSUME NEW b \in Bumps, BumpStep(b) PROVE InFlightIsAbortable'
  BY <1>2 DEF BumpStep, BumpRead, BumpSet, abortAllInFlight, AbortEach
<1>3. ASSUME NEW g \in Grants, abortGrant(g) PROVE InFlightIsAbortable'
  BY <1>3 DEF abortGrant, AbortEach
<1>4. CASE WorkerDies
  BY <1>4 DEF WorkerDies, Suspended
<1>5. CASE UNCHANGED vars
  BY <1>5 DEF vars
<1> QED BY <1>1, <1>2, <1>3, <1>4, <1>5 DEF Next

\* However calls of one grant, bumps, aborts and worker deaths interleave, an
\* upstream call with a grant id has a controller that the next abort reaches.
THEOREM InFlightAbortable == Spec => []InFlightIsAbortable
<1>1. Init => InFlightIsAbortable
  BY DEF Init, InFlightIsAbortable
<1> QED BY <1>1, TypeCorrect, AbortableStep, PTL DEF Spec

-----------------------------------------------------------------------------
(* Serial bumps.                                                           *)

\* The strengthening of NoAnswerAcrossRevoke.  A bump that has read the
\* epoch still holds the stored value; an open call never read an epoch from
\* the future, and a crossed one read a strictly older epoch, which its
\* second read then tells apart.
Serial ==
    /\ \A b \in Bumping : \A d \in Bumping : b = d
    /\ \A b \in Bumps : bumpAt[b] = "read" => current[b] = epoch

Fenced ==
    /\ \A c \in Open : before[c] <= epoch
    /\ \A c \in crossed :
        /\ callAt[c] \notin {"idle", "key", "ok"}
        /\ c \in Open => before[c] < epoch
        /\ callAt[c] = "check" => before[c] < after[c]

LEMMA SerialStep ==
    ASSUME ~Overlap
    PROVE  TypeOK /\ Serial /\ [Next]_vars => Serial'
<1> SUFFICES ASSUME TypeOK, Serial, [Next]_vars PROVE Serial'
    OBVIOUS
<1> USE DEF TypeOK, Serial, Bumping, callVars, bumpVars
<1>1. ASSUME NEW c \in Calls, CallStep(c) PROVE Serial'
  <2>1. UNCHANGED <<epoch, bumpAt, current>>
    BY <1>1 DEF CallStep, StartCall, KeyFails, ReadEpochBefore, StartFetch, FetchResolves,
                FetchFails, FetchAborted, Caught, ReadEpochAfter, BodyFails, Check
  <2> QED BY <2>1
<1>2. ASSUME NEW b \in Bumps, BumpStep(b) PROVE Serial'
  <2>1. CASE BumpRead(b)
    BY <2>1 DEF BumpRead
  <2>2. CASE BumpSet(b)
    BY <2>2 DEF BumpSet
  <2>3. CASE abortAllInFlight(b)
    BY <2>3 DEF abortAllInFlight
  <2> QED BY <1>2, <2>1, <2>2, <2>3 DEF BumpStep
<1>3. ASSUME NEW g \in Grants, abortGrant(g) PROVE Serial'
  BY <1>3 DEF abortGrant
<1>4. CASE WorkerDies
  BY <1>4 DEF WorkerDies
<1>5. CASE UNCHANGED vars
  BY <1>5 DEF vars
<1> QED BY <1>1, <1>2, <1>3, <1>4, <1>5 DEF Next

LEMMA FencedStep ==
    TypeOK /\ Serial /\ Fenced /\ [Next]_vars => Fenced'
<1> SUFFICES ASSUME TypeOK, Serial, Fenced, [Next]_vars PROVE Fenced'
    OBVIOUS
<1> USE DEF TypeOK, Fenced, Open, Goto, callVars, bumpVars
<1>1. ASSUME NEW c \in Calls, CallStep(c) PROVE Fenced'
  <2>1. ASSUME NEW g \in Grants \cup {NoGrant}, StartCall(c, g) PROVE Fenced'
    BY <2>1 DEF StartCall
  <2>2. CASE KeyFails(c) \/ FetchResolves(c) \/ Caught(c) \/ BodyFails(c)
             \/ StartFetch(c) \/ FetchFails(c)
    BY <2>2 DEF KeyFails, FetchResolves, Caught, BodyFails, StartFetch, FetchFails
  <2>3. CASE ReadEpochBefore(c)
    BY <2>3 DEF ReadEpochBefore
  <2>4. CASE FetchAborted(c) \/ ReadEpochAfter(c)
    BY <2>4 DEF FetchAborted, ReadEpochAfter
  <2>5. CASE Check(c)
    BY <2>5 DEF Check, EpochMatches
  <2> QED BY <1>1, <2>1, <2>2, <2>3, <2>4, <2>5 DEF CallStep
<1>2. ASSUME NEW b \in Bumps, BumpStep(b) PROVE Fenced'
  <2>1. CASE BumpSet(b)
    BY <2>1 DEF BumpSet, NextEpoch, Serial
  <2>2. CASE BumpRead(b) \/ abortAllInFlight(b)
    BY <2>2 DEF BumpRead, abortAllInFlight
  <2> QED BY <1>2, <2>1, <2>2 DEF BumpStep
<1>3. ASSUME NEW g \in Grants, abortGrant(g) PROVE Fenced'
  BY <1>3 DEF abortGrant
<1>4. CASE WorkerDies
  BY <1>4 DEF WorkerDies, Suspended
<1>5. CASE UNCHANGED vars
  BY <1>5 DEF vars
<1> QED BY <1>1, <1>2, <1>3, <1>4, <1>5 DEF Next

\* When bumps are serial, the strengthening holds in every reachable state.
THEOREM Invariants ==
    ASSUME ~Overlap
    PROVE  Spec => [](TypeOK /\ Serial /\ Fenced)
<1>1. Init => Serial /\ Fenced
  BY DEF Init, Serial, Fenced, Bumping, Open
<1> QED BY <1>1, TypeCorrect, SerialStep, FencedStep, PTL DEF Spec

\* The launch gate of the product (NFR-S5): when bumps are serial, whatever
\* the calls, the aborts and the worker do, a call crossed by a bump never
\* returns its response.
THEOREM CrossedCallsAreRefused ==
    ASSUME ~Overlap
    PROVE  Spec => []NoAnswerAcrossRevoke
<1>1. Fenced => NoAnswerAcrossRevoke
  BY DEF Fenced, NoAnswerAcrossRevoke
<1> QED BY <1>1, Invariants, PTL

\* When bumps are serial the stored epoch never goes back.
THEOREM SerialEpochMonotone ==
    ASSUME ~Overlap
    PROVE  Spec => EpochMonotone
<1>1. TypeOK /\ Serial /\ [Next]_vars => [epoch' >= epoch]_vars
  <2> SUFFICES ASSUME TypeOK, Serial, Next PROVE epoch' >= epoch
      OBVIOUS
  <2> USE DEF TypeOK, callVars, bumpVars
  <2>1. ASSUME NEW b \in Bumps, BumpStep(b) PROVE epoch' >= epoch
    BY <2>1 DEF BumpStep, BumpRead, BumpSet, abortAllInFlight, NextEpoch, Serial
  <2>2. ASSUME NEW c \in Calls, CallStep(c) PROVE epoch' >= epoch
    BY <2>2 DEF CallStep, StartCall, KeyFails, ReadEpochBefore, StartFetch, FetchResolves,
                FetchFails, FetchAborted, Caught, ReadEpochAfter, BodyFails, Check
  <2>3. CASE WorkerDies \/ \E g \in Grants : abortGrant(g)
    BY <2>3 DEF WorkerDies, abortGrant
  <2> QED BY <2>1, <2>2, <2>3 DEF Next
<1> QED BY <1>1, Invariants, PTL DEF Spec, EpochMonotone

-----------------------------------------------------------------------------
(* Refinement of RevokeGuarantee.                                          *)

\* A step of one call after which its abstract status is "refused", the epoch
\* and every epochBefore being as they were, is the abstract Refuse.
LEMMA RefuseOne ==
    ASSUME TypeOK, NEW c \in Calls,
           \A d \in Calls \ {c} : callAt'[d] = callAt[d] /\ after'[d] = after[d],
           Status(c) # "answered", Status(c)' = "refused",
           UNCHANGED <<epoch, before>>
    PROVE  Guarantee!Refuse({c})
BY DEF Guarantee!Refuse, Status, EpochMatches

\* The same for a step that leaves every abstract status as it was.
LEMMA StatusStutter ==
    ASSUME \A d \in Calls : Status(d)' = Status(d), UNCHANGED <<epoch, before>>
    PROVE  UNCHANGED Guarantee!vars
BY DEF Guarantee!vars

LEMMA RefinementCall ==
    ASSUME TypeOK, NEW c \in Calls, CallStep(c)
    PROVE  Guarantee!Next \/ UNCHANGED Guarantee!vars
<1> USE DEF TypeOK, Goto, callVars, bumpVars
<1>1. ASSUME NEW g \in Grants \cup {NoGrant}, StartCall(c, g)
      PROVE  UNCHANGED Guarantee!vars
  <2>1. \A d \in Calls : Status(d)' = Status(d)
    BY <1>1 DEF StartCall, Status, EpochMatches
  <2> QED BY <1>1, <2>1, StatusStutter DEF StartCall
<1>2. CASE StartFetch(c) \/ FetchResolves(c) \/ Caught(c)
  <2>1. \A d \in Calls : Status(d)' = Status(d)
    BY <1>2 DEF StartFetch, FetchResolves, Caught, Status, EpochMatches
  <2>2. UNCHANGED <<epoch, before>>
    BY <1>2 DEF StartFetch, FetchResolves, Caught
  <2> QED BY <2>1, <2>2, StatusStutter
<1>3. CASE ReadEpochBefore(c)
  <2>1. Status(c) = "idle" /\ Status(c)' = "open"
    BY <1>3 DEF ReadEpochBefore, Status
  <2>2. \A d \in Calls \ {c} : Status(d)' = Status(d)
    BY <1>3 DEF ReadEpochBefore, Status, EpochMatches
  <2>3. Guarantee!Open(c)
    BY <1>3, <2>1, <2>2 DEF ReadEpochBefore, Guarantee!Open
  <2> QED BY <2>3 DEF Guarantee!Next
<1>4. CASE KeyFails(c) \/ FetchFails(c) \/ FetchAborted(c) \/ BodyFails(c)
  <2>1. Status(c) # "answered" /\ Status(c)' = "refused"
    BY <1>4 DEF KeyFails, FetchFails, FetchAborted, BodyFails, Status
  <2>2. \A d \in Calls \ {c} : callAt'[d] = callAt[d] /\ after'[d] = after[d]
    BY <1>4 DEF KeyFails, FetchFails, FetchAborted, BodyFails
  <2>3. UNCHANGED <<epoch, before>>
    BY <1>4 DEF KeyFails, FetchFails, FetchAborted, BodyFails
  <2>4. Guarantee!Refuse({c})
    BY <2>1, <2>2, <2>3, RefuseOne
  <2> QED BY <2>4 DEF Guarantee!Next
<1>5. CASE ReadEpochAfter(c)
  <2>1. \A d \in Calls \ {c} : callAt'[d] = callAt[d] /\ after'[d] = after[d]
    BY <1>5 DEF ReadEpochAfter
  <2>2. Status(c) = "open" /\ UNCHANGED <<epoch, before>>
    BY <1>5 DEF ReadEpochAfter, Status
  <2>3. CASE before[c] = epoch
    <3>1. Status(c)' = "cleared"
      BY <1>5, <2>3 DEF ReadEpochAfter, Status, EpochMatches
    <3>2. \A d \in Calls \ {c} : Status(d)' = Status(d)
      BY <2>1, <2>2 DEF Status, EpochMatches
    <3>3. Guarantee!Clear(c)
      BY <2>2, <2>3, <3>1, <3>2 DEF Guarantee!Clear
    <3> QED BY <3>3 DEF Guarantee!Next
  <2>4. CASE before[c] # epoch
    <3>1. Status(c)' = "refused"
      BY <1>5, <2>4 DEF ReadEpochAfter, Status, EpochMatches
    <3>2. Guarantee!Refuse({c})
      BY <2>1, <2>2, <3>1, RefuseOne
    <3> QED BY <3>2 DEF Guarantee!Next
  <2> QED BY <2>3, <2>4
<1>6. CASE Check(c)
  <2>1. UNCHANGED <<epoch, before, after>>
    BY <1>6 DEF Check
  <2>2. \A d \in Calls \ {c} : Status(d)' = Status(d)
    BY <1>6 DEF Check, Status, EpochMatches
  <2>3. CASE EpochMatches(c)
    <3>1. Status(c) = "cleared" /\ Status(c)' = "answered"
      BY <1>6, <2>3 DEF Check, Status
    <3>2. Guarantee!Answer(c)
      BY <2>1, <2>2, <3>1 DEF Guarantee!Answer
    <3> QED BY <3>2 DEF Guarantee!Next
  <2>4. CASE ~EpochMatches(c)
    <3>1. Status(c)' = Status(c)
      BY <1>6, <2>4 DEF Check, Status
    <3> QED BY <2>1, <2>2, <3>1, StatusStutter
  <2> QED BY <2>3, <2>4
<1> QED BY <1>1, <1>2, <1>3, <1>4, <1>5, <1>6 DEF CallStep

LEMMA RefinementStep ==
    TypeOK /\ Serial /\ [Next]_vars => [Guarantee!Next]_(Guarantee!vars)
<1> SUFFICES ASSUME TypeOK, Serial, [Next]_vars
             PROVE  Guarantee!Next \/ UNCHANGED Guarantee!vars
    OBVIOUS
<1> USE DEF TypeOK, callVars, bumpVars
<1>1. ASSUME NEW c \in Calls, CallStep(c)
      PROVE  Guarantee!Next \/ UNCHANGED Guarantee!vars
  BY <1>1, RefinementCall
<1>2. ASSUME NEW b \in Bumps, BumpSet(b) PROVE Guarantee!Next
  <2>1. epoch' = epoch + 1 /\ UNCHANGED before
    BY <1>2 DEF BumpSet, NextEpoch, Serial
  <2>2. \A c \in Calls : Status(c)' = Status(c)
    BY <1>2 DEF BumpSet, Status, EpochMatches
  <2>3. Guarantee!Revoke
    BY <2>1, <2>2 DEF Guarantee!Revoke
  <2> QED BY <2>3 DEF Guarantee!Next
<1>3. CASE \/ \E b \in Bumps : BumpRead(b) \/ abortAllInFlight(b)
           \/ \E g \in Grants : abortGrant(g)
           \/ UNCHANGED vars
  <2>1. UNCHANGED <<epoch, callAt, before, after>>
    BY <1>3 DEF BumpRead, abortAllInFlight, abortGrant, vars
  <2>2. \A c \in Calls : Status(c)' = Status(c)
    BY <2>1 DEF Status, EpochMatches
  <2> QED BY <2>1, <2>2, StatusStutter
<1>4. CASE WorkerDies
  <2> DEFINE Dying == {c \in Calls : callAt[c] \in Suspended}
  <2>1. UNCHANGED <<epoch, before, after>>
    BY <1>4 DEF WorkerDies
  <2>2. \A c \in Dying : Status(c) # "answered" /\ Status(c)' = "refused"
    BY <1>4 DEF WorkerDies, Suspended, Status
  <2>3. \A c \in Calls \ Dying : Status(c)' = Status(c)
    BY <1>4 DEF WorkerDies, Status, EpochMatches
  <2>4. Guarantee!Refuse(Dying)
    BY <2>1, <2>2, <2>3 DEF Guarantee!Refuse
  <2> QED BY <2>4 DEF Guarantee!Next
<1> QED BY <1>1, <1>2, <1>3, <1>4 DEF Next, BumpStep

\* When bumps are serial, the epoch in storage, the two reads of a call and
\* the abort registry together implement instantaneous revocation: each step
\* of the guard is a step of RevokeGuarantee or leaves its state alone.
THEOREM Refinement ==
    ASSUME ~Overlap
    PROVE  Spec => ImplementsGuarantee
<1>1. Init => Guarantee!Init
  BY DEF Init, Guarantee!Init, Status
<1> QED BY <1>1, Invariants, RefinementStep, PTL
        DEF Spec, ImplementsGuarantee, Guarantee!Spec
=============================================================================
