---------------------------- MODULE DashboardProofs ---------------------------
(***************************************************************************)
(* The dashboard: what the worker sends to its collector, and its accounts. *)
(*                                                                         *)
(* Delivery to the collector is at least once, for any number of events,   *)
(* ticks and deaths: NoEventLost holds of every behaviour.  It is not      *)
(* inductive.  deleteUpTo deletes every row up to the last one of a batch, *)
(* and these are stored only because a batch is a prefix of the outbox     *)
(* (later rows have higher keys) and was stored before it is confirmed.    *)
(* Then the cap of the outbox, which trims keep though they overlap.       *)
(*                                                                         *)
(* The accounts (AccountsInv), for any number of requests, emails, links   *)
(* and writes, whatever fails: a write goes back to a link because a link  *)
(* is marked in the step that hands it out, so it is in one hand and then  *)
(* behind one cookie; the log is true because a number is given once, so   *)
(* no two writes but revokes are the same; and the limiter counts what was *)
(* issued because each hit it keeps of an email names a link of its own,   *)
(* in the order of their times, and no link that is young enough lacks one.*)
(***************************************************************************)
EXTENDS Collector, Accounts, FiniteSetTheorems, SequenceTheorems, WellFoundedInduction, TLAPS

Labels == {"idle"} \cup IngestAt \cup PolicyAt

\* Keys are given out in order, and a batch consists of rows.
Shape ==
    /\ lastSeq \in Nat
    /\ outbox \subseteq 1..lastSeq
    /\ at \in [Ticks -> Labels]
    /\ batch \in [Ticks -> SUBSET (1..lastSeq)]

\* A row that is not younger than one of a batch belongs to the batch.
BatchIsPrefix ==
    \A t \in Ticks : \A d \in batch[t] : \A e \in outbox : e <= d => e \in batch[t]

\* What a 2xx confirms has been stored.
StoredBatch == \A t \in Ticks : at[t] = "stored" => batch[t] \subseteq received

IInv == Shape /\ BatchIsPrefix /\ StoredBatch /\ NoEventLost

\* peekBatch returns a prefix of the outbox.
LEMMA OldestIsPrefix ==
    ASSUME lastSeq \in Nat, outbox \subseteq 1..lastSeq,
           NEW n \in Nat, NEW d \in Oldest(n), NEW e \in outbox, e <= d
    PROVE  e \in Oldest(n)
<1> DEFINE Below(x) == {c \in outbox : c < x}
<1>1. d \in outbox /\ Cardinality(Below(d)) < n
  BY DEF Oldest
<1>2. IsFiniteSet(Below(d))
  <2>1. IsFiniteSet(1..lastSeq)
    BY FS_Interval
  <2>2. QED
    BY <2>1, FS_Subset
<1>3. Below(e) \subseteq Below(d)
  <2>1. d \in Int /\ e \in Int /\ \A c \in outbox : c \in Int
    BY <1>1
  <2>2. ASSUME NEW c \in outbox, c < e PROVE c < d
    BY <2>1, <2>2
  <2>3. QED
    BY <2>2
<1>4. Cardinality(Below(e)) <= Cardinality(Below(d))
  BY <1>2, <1>3, FS_Subset
<1>5. Cardinality(Below(e)) \in Nat /\ Cardinality(Below(d)) \in Nat
  BY <1>2, <1>3, FS_Subset, FS_CardinalityType
<1>6. Cardinality(Below(e)) < n
  BY <1>1, <1>4, <1>5
<1>7. QED
  BY <1>6 DEF Oldest

LEMMA InitIInv == Init => IInv
BY DEF Init, IInv, Shape, Labels, BatchIsPrefix, StoredBatch, NoEventLost

\* A row is added with a key above all others.
LEMMA EnqueueStep == IInv /\ Enqueue => IInv'
<1> SUFFICES ASSUME IInv, Enqueue PROVE IInv'
  OBVIOUS
<1>1. /\ lastSeq' = lastSeq + 1
      /\ outbox' = outbox \cup {lastSeq + 1}
      /\ at' = at /\ batch' = batch /\ received' = received /\ trimmed' = trimmed
  BY DEF Enqueue, tickVars, serverVars
<1>2. Shape'
  BY <1>1 DEF IInv, Shape
<1>3. BatchIsPrefix'
  BY <1>1 DEF IInv, Shape, BatchIsPrefix
<1>4. StoredBatch'
  BY <1>1 DEF IInv, StoredBatch
<1>5. NoEventLost'
  BY <1>1 DEF IInv, Shape, NoEventLost
<1>6. QED
  BY <1>2, <1>3, <1>4, <1>5 DEF IInv

\* A trim or a delete takes rows away, but only such as are kept elsewhere.
LEMMA DropStep ==
    ASSUME IInv, NEW X, outbox' = outbox \ X, X \cap outbox \subseteq received' \cup trimmed',
           lastSeq' = lastSeq, received \subseteq received', trimmed \subseteq trimmed',
           at' \in [Ticks -> Labels], batch' \in [Ticks -> SUBSET (1..lastSeq)],
           \A t \in Ticks : batch'[t] = batch[t] \/ batch'[t] = {},
           \A t \in Ticks : at'[t] = "stored" => batch'[t] \subseteq received'
    PROVE  IInv'
<1>1. Shape'
  BY DEF IInv, Shape
<1>2. BatchIsPrefix'
  BY DEF IInv, BatchIsPrefix
<1>3. StoredBatch'
  BY DEF StoredBatch
<1>4. NoEventLost'
  BY DEF IInv, NoEventLost
<1>5. QED
  BY <1>1, <1>2, <1>3, <1>4 DEF IInv

\* A batch is read.
LEMMA PeekStep ==
    ASSUME IInv, NEW t \in Ticks, Peek(t)
    PROVE  IInv'
<1>1. /\ at' = [at EXCEPT ![t] = "peek"]
      /\ batch' = [batch EXCEPT ![t] = Oldest(Batch)]
      /\ lastSeq' = lastSeq /\ outbox' = outbox
      /\ received' = received /\ trimmed' = trimmed
  BY DEF Peek, Goto, outboxVars, serverVars
<1>2. Oldest(Batch) \subseteq outbox /\ outbox \subseteq 1..lastSeq
  BY DEF IInv, Shape, Oldest
<1>3. Shape'
  BY <1>1, <1>2 DEF IInv, Shape, Labels, IngestAt
<1>4. BatchIsPrefix'
  <2> SUFFICES ASSUME NEW u \in Ticks, NEW d \in batch'[u], NEW e \in outbox, e <= d
               PROVE  e \in batch'[u]
    BY <1>1 DEF BatchIsPrefix
  <2>1. CASE u = t
    <3>1. batch'[u] = Oldest(Batch)
      BY <1>1, <2>1 DEF IInv, Shape
    <3>2. QED
      BY <3>1, OldestIsPrefix, BoundsAssumption DEF IInv, Shape
  <2>2. CASE u # t
    <3>1. batch'[u] = batch[u]
      BY <1>1, <2>2 DEF IInv, Shape
    <3>2. QED
      BY <3>1 DEF IInv, BatchIsPrefix
  <2>3. QED
    BY <2>1, <2>2
<1>5. StoredBatch'
  BY <1>1 DEF IInv, Shape, StoredBatch
<1>6. NoEventLost'
  BY <1>1 DEF IInv, NoEventLost
<1>7. QED
  BY <1>3, <1>4, <1>5, <1>6 DEF IInv

\* A step of a tick other than a peek and a delete: the outbox is left alone,
\* and a batch becomes stored only as it is received.
LEMMA OtherTickStep ==
    ASSUME IInv, NEW t \in Ticks, NEW label \in Labels, at' = [at EXCEPT ![t] = label],
           outbox' = outbox, lastSeq' = lastSeq, trimmed' = trimmed,
           received \subseteq received',
           batch' = batch \/ batch' = [batch EXCEPT ![t] = {}],
           label = "stored" => batch[t] \subseteq received'
    PROVE  IInv'
<1>1. /\ at' \in [Ticks -> Labels]
      /\ batch' \in [Ticks -> SUBSET (1..lastSeq)]
      /\ \A u \in Ticks : batch'[u] = batch[u] \/ batch'[u] = {}
  BY DEF IInv, Shape
<1>2. \A u \in Ticks : at'[u] = "stored" => batch'[u] \subseteq received'
  BY <1>1 DEF IInv, Shape, StoredBatch
<1>3. outbox' = outbox \ {}
  OBVIOUS
<1>4. QED
  BY <1>1, <1>2, <1>3, DropStep

LEMMA TickIInv ==
    ASSUME IInv, NEW t \in Ticks, TickStep(t)
    PROVE  IInv'
<1> USE DEF outboxVars, tickVars, serverVars, Goto, Labels, IngestAt, PolicyAt
<1>1. CASE Start(t)
  BY <1>1, OtherTickStep DEF Start
<1>2. CASE Peek(t)
  BY <1>2, PeekStep
<1>3. CASE NothingQueued(t)
  BY <1>3, OtherTickStep DEF NothingQueued, Succeed, Finish
<1>4. CASE Resolved(t)
  BY <1>4, OtherTickStep DEF Resolved, Succeed, Finish
<1>5. CASE ReadCache(t)
  BY <1>5, OtherTickStep DEF ReadCache
<1>6. CASE WriteCache(t)
  BY <1>6, OtherTickStep DEF WriteCache
<1>7. CASE Fail(t)
  BY <1>7, OtherTickStep DEF Fail, Finish
<1>8. CASE Store(t)
  BY <1>8, OtherTickStep DEF Store
<1>9. CASE IngestFails(t)
  BY <1>9, OtherTickStep DEF IngestFails
<1>10. CASE DeleteBatch(t)
  <2>1. /\ outbox' = outbox \ Confirmed(t)
        /\ at' = [at EXCEPT ![t] = "answered"]
        /\ batch' = [batch EXCEPT ![t] = {}]
        /\ at[t] = "stored"
        /\ lastSeq' = lastSeq /\ received' = received /\ trimmed' = trimmed
    BY <1>10 DEF DeleteBatch
  <2>2. Confirmed(t) \subseteq batch[t]
    BY DEF Confirmed, IInv, BatchIsPrefix
  <2>3. batch[t] \subseteq received
    BY <2>1 DEF IInv, StoredBatch
  <2>4. /\ at' \in [Ticks -> Labels]
        /\ batch' \in [Ticks -> SUBSET (1..lastSeq)]
        /\ \A u \in Ticks : batch'[u] = batch[u] \/ batch'[u] = {}
        /\ \A u \in Ticks : at'[u] = "stored" => batch'[u] \subseteq received'
    BY <2>1 DEF IInv, Shape, StoredBatch
  <2>5. QED
    BY <2>1, <2>2, <2>3, <2>4, DropStep
<1>11. CASE Reply(t)
  <2>1. CASE SameEtag(t)
    BY <1>11, <2>1, OtherTickStep DEF Reply
  <2>2. CASE ~SameEtag(t)
    BY <1>11, <2>2, OtherTickStep DEF Reply
  <2>3. QED
    BY <2>1, <2>2
<1>12. CASE PolicyFails(t)
  BY <1>12, OtherTickStep DEF PolicyFails
<1>13. QED
  BY <1>1, <1>2, <1>3, <1>4, <1>5, <1>6, <1>7, <1>8, <1>9, <1>10, <1>11, <1>12
     DEF TickStep, TickGoesOn

LEMMA NextIInv == IInv /\ [Next]_vars => IInv'
<1> SUFFICES ASSUME IInv, [Next]_vars PROVE IInv'
  OBVIOUS
<1>1. CASE Enqueue
  BY <1>1, EnqueueStep
<1>2. ASSUME NEW e \in Events, TrimDrop(e) PROVE IInv'
  <2>1. /\ outbox' = outbox \ Oldest(excess[e])
        /\ trimmed' = trimmed \cup Oldest(excess[e])
        /\ lastSeq' = lastSeq /\ received' = received /\ at' = at /\ batch' = batch
    BY <1>2 DEF TrimDrop, tickVars, serverVars
  <2>2. \A t \in Ticks : at'[t] = "stored" => batch'[t] \subseteq received'
    BY <2>1 DEF IInv, StoredBatch
  <2>3. at' \in [Ticks -> Labels] /\ batch' \in [Ticks -> SUBSET (1..lastSeq)]
    BY <2>1 DEF IInv, Shape
  <2>4. QED
    BY <2>1, <2>2, <2>3, DropStep
<1>3. CASE WorkerDies
  <2>1. /\ outbox' = outbox \ {}
        /\ at' = [t \in Ticks |-> "idle"] /\ batch' = [t \in Ticks |-> {}]
        /\ lastSeq' = lastSeq /\ received' = received /\ trimmed' = trimmed
    BY <1>3 DEF WorkerDies, serverVars
  <2>2. /\ at' \in [Ticks -> Labels] /\ batch' \in [Ticks -> SUBSET (1..lastSeq)]
        /\ \A t \in Ticks : at'[t] # "stored" /\ batch'[t] = {}
    BY <2>1 DEF Labels
  <2>3. QED
    BY <2>1, <2>2, DropStep
<1>4. ASSUME UNCHANGED <<lastSeq, outbox, at, batch, received, trimmed>> PROVE IInv'
  BY <1>4 DEF IInv, Shape, BatchIsPrefix, StoredBatch, NoEventLost
<1>5. ASSUME NEW e \in Events, TrimCount(e) PROVE IInv'
  BY <1>4, <1>5 DEF TrimCount, tickVars, serverVars
<1>6. CASE TimePasses \/ SavePolicy
  BY <1>4, <1>6 DEF TimePasses, SavePolicy, outboxVars, tickVars, serverVars
<1>7. CASE UNCHANGED vars
  BY <1>4, <1>7 DEF vars, outboxVars, tickVars, serverVars
<1>8. QED
  BY <1>1, <1>2, <1>3, <1>5, <1>6, <1>7, TickIInv DEF Next, OutboxStep

\* No event that was enqueued is lost on its way: it is queued, stored by the
\* collector, or was trimmed at the cap, however many ticks and trims overlap
\* and wherever the worker dies or an answer is lost.
THEOREM NothingIsLost == Spec => []NoEventLost
<1>1. IInv => NoEventLost
  BY DEF IInv
<1>2. QED
  BY InitIInv, NextIInv, <1>1, PTL DEF Spec
-----------------------------------------------------------------------------
(* The cap.  A trim counts in one transaction and drops in another, and any *)
(* number of trims overlap.  What makes the last one enough: while rows are *)
(* above the cap, some trim has yet to count, or will drop at least as many *)
(* as are too many now, since no row came after the last count.             *)

Excessive(e) == trimAt[e] = "drop" /\ Cardinality(outbox) <= Cap + excess[e]

WithinReach ==
    \/ Cardinality(outbox) <= Cap
    \/ \E e \in Events : trimAt[e] = "count" \/ Excessive(e)

Trims ==
    /\ trimAt \in [Events -> {"none", "count", "drop"}]
    /\ excess \in [Events -> Nat]
    /\ deaths \in Nat

Capped == Trims /\ (deaths = 0 => WithinReach)

LEMMA OutboxIsFinite == Shape => IsFiniteSet(outbox) /\ Cardinality(outbox) \in Nat
<1> SUFFICES ASSUME Shape PROVE IsFiniteSet(outbox) /\ Cardinality(outbox) \in Nat
  OBVIOUS
<1>1. IsFiniteSet(1..lastSeq) /\ outbox \subseteq 1..lastSeq
  BY FS_Interval DEF Shape
<1>2. IsFiniteSet(outbox)
  BY <1>1, FS_Subset
<1>3. QED
  BY <1>2, FS_CardinalityType

\* The drop leaves what n rows less leave: no more than the cap when at most n
\* rows were above it.
LEMMA DropFitsCap ==
    ASSUME Shape, NEW n \in Nat, Cardinality(outbox) <= Cap + n
    PROVE  Cardinality(outbox \ Oldest(n)) <= Cap
<1> DEFINE Below(x) == {c \in outbox : c < x}
           Rest == {e \in outbox : ~ (Cardinality(Below(e)) < n)}
<1>1. outbox \ Oldest(n) = Rest
  BY DEF Oldest
<1>2. IsFiniteSet(outbox) /\ Cardinality(outbox) \in Nat
  BY OutboxIsFinite
<1>3. Cap \in Nat
  BY BoundsAssumption DEF BoundsAssumption
<1>4. \A e \in outbox : e \in Nat
  BY DEF Shape
<1>5. CASE Rest = {}
  <2> HIDE DEF Rest
  <2>1. Cardinality(outbox \ Oldest(n)) = 0
    BY <1>1, <1>5, FS_EmptySet
  <2>2. QED
    BY <1>3, <2>1
<1>6. CASE Rest # {}
  <2>1. PICK m \in Rest : \A y \in Rest : ~ (<<y, m>> \in OpToRel(<, Nat))
    <3>1. Rest \subseteq Nat
      BY <1>4
    <3> HIDE DEF Rest
    <3>2. QED
      BY <1>6, <3>1, NatLessThanWellFounded, WFMin
  <2>2. m \in outbox /\ m \in Nat /\ ~ (Cardinality(Below(m)) < n)
    BY <1>4
  <2>3. Rest \subseteq outbox \ Below(m)
    <3>1. ASSUME NEW y \in Rest, y < m PROVE FALSE
      <4>1. y \in Nat
        BY <1>4
      <4>2. <<y, m>> \in OpToRel(<, Nat)
        BY <2>2, <3>1, <4>1 DEF OpToRel
      <4>3. QED
        BY <2>1, <4>2
    <3>2. QED
      BY <3>1
  <2>4. Below(m) \subseteq outbox
    OBVIOUS
  <2>5. IsFiniteSet(Below(m)) /\ Cardinality(Below(m)) \in Nat
    BY <1>2, <2>4, FS_Subset, FS_CardinalityType
  <2>6. /\ IsFiniteSet(outbox \ Below(m))
        /\ Cardinality(outbox \ Below(m)) = Cardinality(outbox) - Cardinality(outbox \cap Below(m))
    <3> HIDE DEF Below
    <3>1. QED
      BY <1>2, FS_Difference
  <2>7. outbox \cap Below(m) = Below(m)
    BY <2>4
  <2>8. Cardinality(Rest) <= Cardinality(outbox \ Below(m)) /\ Cardinality(Rest) \in Nat
    <3> HIDE DEF Rest, Below
    <3>1. QED
      BY <2>3, <2>6, FS_Subset, FS_CardinalityType
  <2>9. QED
    <3> HIDE DEF Rest, Below
    <3>1. QED
      BY <1>1, <1>2, <1>3, <2>2, <2>5, <2>6, <2>7, <2>8
<1>7. QED
  BY <1>5, <1>6

\* Rows that are taken away, while no trim moves, leave the rest in reach.
LEMMA FewerRows ==
    ASSUME Shape, Capped, NEW X, outbox' = outbox \ X,
           UNCHANGED <<trimAt, excess, deaths>>
    PROVE  Capped'
<1>1. /\ Cardinality(outbox') <= Cardinality(outbox)
      /\ Cardinality(outbox) \in Nat /\ Cardinality(outbox') \in Nat
  BY OutboxIsFinite, FS_Subset, FS_CardinalityType
<1>2. Cap \in Nat
  BY BoundsAssumption DEF BoundsAssumption
<1>3. ASSUME WithinReach PROVE WithinReach'
  <2>1. CASE Cardinality(outbox) <= Cap
    BY <1>1, <1>2, <2>1 DEF WithinReach
  <2>2. ASSUME NEW e \in Events, trimAt[e] = "count" PROVE WithinReach'
    BY <2>2 DEF WithinReach
  <2>3. ASSUME NEW e \in Events, Excessive(e) PROVE WithinReach'
    <3>1. excess[e] \in Nat
      BY DEF Capped, Trims
    <3>2. Excessive(e)'
      BY <1>1, <1>2, <2>3, <3>1 DEF Excessive
    <3>3. QED
      BY <3>2 DEF WithinReach
  <2>4. QED
    BY <1>3, <2>1, <2>2, <2>3 DEF WithinReach
<1>4. QED
  BY <1>3 DEF Capped, Trims

LEMMA EnqueueCapped == Capped /\ Enqueue => Capped'
<1> SUFFICES ASSUME Capped, Enqueue PROVE Capped'
  OBVIOUS
<1>1. PICK e \in Events :
        trimAt' = [trimAt EXCEPT ![e] = "count"] /\ UNCHANGED <<excess, deaths>>
  BY DEF Enqueue
<1>2. Trims' /\ trimAt'[e] = "count"
  BY <1>1 DEF Capped, Trims
<1>3. QED
  BY <1>2 DEF Capped, WithinReach

LEMMA TrimCountCapped ==
    ASSUME Shape, Capped, NEW e \in Events, TrimCount(e)
    PROVE  Capped'
<1>1. Cap \in Nat /\ Cardinality(outbox) \in Nat /\ outbox' = outbox /\ deaths' = deaths
  BY OutboxIsFinite, BoundsAssumption DEF BoundsAssumption, TrimCount
<1>2. CASE FitsCap(Cardinality(outbox))
  <2>1. Trims'
    BY <1>2 DEF TrimCount, Capped, Trims
  <2>2. QED
    BY <1>1, <1>2, <2>1 DEF Capped, WithinReach, FitsCap
<1>3. CASE ~ FitsCap(Cardinality(outbox))
  <2>1. /\ trimAt' = [trimAt EXCEPT ![e] = "drop"]
        /\ excess' = [excess EXCEPT ![e] = Cardinality(outbox) - Cap]
        /\ deaths' = deaths
    BY <1>3 DEF TrimCount
  <2>2. Cardinality(outbox) - Cap \in Nat
    BY <1>1, <1>3 DEF FitsCap
  <2>3. Trims' /\ trimAt'[e] = "drop" /\ excess'[e] = Cardinality(outbox) - Cap
    BY <2>1, <2>2 DEF Capped, Trims
  <2>4. Excessive(e)'
    BY <1>1, <2>3 DEF Excessive
  <2>5. QED
    BY <2>3, <2>4 DEF Capped, WithinReach
<1>4. QED
  BY <1>2, <1>3

\* The trim that drops may be the one that was owed: then the cap holds.
LEMMA TrimDropCapped ==
    ASSUME Shape, Capped, NEW e \in Events, TrimDrop(e)
    PROVE  Capped'
<1>1. /\ trimAt' = [trimAt EXCEPT ![e] = "none"]
      /\ excess' = [excess EXCEPT ![e] = 0]
      /\ outbox' = outbox \ Oldest(excess[e])
      /\ deaths' = deaths /\ trimAt[e] = "drop"
  BY DEF TrimDrop
<1>2. Trims'
  BY <1>1 DEF Capped, Trims
<1>3. /\ Cardinality(outbox') <= Cardinality(outbox)
      /\ Cardinality(outbox) \in Nat /\ Cardinality(outbox') \in Nat
  BY <1>1, OutboxIsFinite, FS_Subset, FS_CardinalityType
<1>4. Cap \in Nat
  BY BoundsAssumption DEF BoundsAssumption
<1>5. ASSUME WithinReach PROVE WithinReach'
  <2>1. CASE Cardinality(outbox) <= Cap
    BY <1>3, <1>4, <2>1 DEF WithinReach
  <2>2. CASE Excessive(e)
    <3>1. excess[e] \in Nat
      BY DEF Capped, Trims
    <3>2. Cardinality(outbox \ Oldest(excess[e])) <= Cap
      BY <2>2, <3>1, DropFitsCap DEF Excessive
    <3>3. QED
      BY <1>1, <3>2 DEF WithinReach
  <2>3. ASSUME NEW d \in Events \ {e}, trimAt[d] = "count" \/ Excessive(d) PROVE WithinReach'
    <3>1. trimAt'[d] = trimAt[d] /\ excess'[d] = excess[d] /\ excess[d] \in Nat
      BY <1>1 DEF Capped, Trims
    <3>2. trimAt'[d] = "count" \/ Excessive(d)'
      BY <1>3, <1>4, <2>3, <3>1 DEF Excessive
    <3>3. QED
      BY <3>2 DEF WithinReach
  <2>4. trimAt[e] # "count"
    BY <1>1
  <2>5. QED
    BY <1>5, <2>1, <2>2, <2>3, <2>4 DEF WithinReach
<1>6. QED
  BY <1>1, <1>2, <1>5 DEF Capped

LEMMA NextCapped == Shape /\ Capped /\ [Next]_vars => Capped'
<1> SUFFICES ASSUME Shape, Capped, [Next]_vars PROVE Capped'
  OBVIOUS
<1>1. ASSUME UNCHANGED <<outbox, trimAt, excess, deaths>> PROVE Capped'
  BY <1>1 DEF Capped, Trims, WithinReach, Excessive
<1>2. CASE OutboxStep
  BY <1>2, EnqueueCapped, TrimCountCapped, TrimDropCapped DEF OutboxStep
<1>3. ASSUME NEW t \in Ticks, TickStep(t) PROVE Capped'
  <2>1. CASE DeleteBatch(t)
    <3>1. outbox' = outbox \ Confirmed(t) /\ UNCHANGED <<trimAt, excess, deaths>>
      BY <2>1 DEF DeleteBatch
    <3>2. QED
      BY <3>1, FewerRows
  <2>2. CASE ~ DeleteBatch(t)
    <3>1. UNCHANGED <<outbox, trimAt, excess, deaths>>
      BY <1>3, <2>2 DEF TickStep, TickGoesOn, Start, Peek, NothingQueued, Resolved, ReadCache,
         WriteCache, Fail, Store, IngestFails, Reply, PolicyFails, outboxVars
    <3>2. QED
      BY <1>1, <3>1
  <2>3. QED
    BY <2>1, <2>2
<1>4. CASE WorkerDies
  <2>1. /\ trimAt' = [e \in Events |-> "none"] /\ excess' = [e \in Events |-> 0]
        /\ deaths' = deaths + 1
    BY <1>4 DEF WorkerDies
  <2>2. Trims' /\ deaths' # 0
    BY <2>1 DEF Capped, Trims
  <2>3. QED
    BY <2>2 DEF Capped
<1>5. CASE TimePasses \/ SavePolicy
  BY <1>1, <1>5 DEF TimePasses, SavePolicy, outboxVars
<1>6. CASE UNCHANGED vars
  BY <1>1, <1>6 DEF vars, outboxVars
<1>7. QED
  BY <1>2, <1>3, <1>4, <1>5, <1>6 DEF Next

\* With no worker dying, the outbox is within its cap whenever no trim is under
\* way, however many trims have counted and dropped across one another.
THEOREM TrimsKeepTheCap == Spec => []OutboxIsCapped
<1>1. Init => Capped
  <2>1. Init => Trims
    BY DEF Init, Trims
  <2>2. Init => Cardinality(outbox) <= Cap
    <3>1. Cardinality({}) = 0 /\ Cap \in Nat
      BY FS_EmptySet, BoundsAssumption DEF BoundsAssumption
    <3>2. QED
      BY <3>1 DEF Init
  <2>3. QED
    BY <2>1, <2>2 DEF Capped, WithinReach
<1>2. IInv => Shape
  BY DEF IInv
<1>3. Capped => OutboxIsCapped
  BY DEF Capped, WithinReach, Excessive, OutboxIsCapped
<1>4. QED
  BY InitIInv, NextIInv, NextCapped, <1>1, <1>2, <1>3, PTL DEF Spec

-----------------------------------------------------------------------------
(* Accounts.                                                               *)

Link == [email : Emails, expiresAt : Nat, consumedAt : Nat \cup {Nothing}]
LogRow == [change : Change, email : Emails]

JobShape(j) ==
    /\ DOMAIN j = {"at", "link", "cookie", "change"}
    /\ j.at \in {"idle", "issued", "verified", "allowed", "written"}
    /\ j.at \in {"issued", "verified"} => j.link \in DOMAIN links
    /\ j.at \in {"allowed", "written"} =>
           j.change \in Change /\ j.cookie.c \in cookies /\ j.cookie.at \in Nat

Tables ==
    /\ now \in 0..MaxTime
    /\ hits \in [Emails -> Seq(0..MaxTime)]
    /\ links \in Seq(Link) /\ Len(links) <= MaxLinks
    /\ mailed \subseteq DOMAIN links /\ cookies \subseteq Cookie
    /\ members \in [Emails -> Roles \cup {Nothing}]
    /\ secrets \in Seq(Nat) /\ secrets # <<>>
    /\ policy \in Nat /\ tokens \in Seq({"live", "revoked"})
    /\ rows \in Seq(LogRow)
    /\ faults \in 0..MaxFaults /\ disturbed \in BOOLEAN

JobsShaped ==
    /\ job = [r \in Requests |-> job[r]]
    /\ \A r \in Requests : JobShape(job[r])

Types == Tables /\ JobsShaped

-----------------------------------------------------------------------------
(* The operators.                                                          *)

\* What the store keeps begins at the first hit that is young enough.
LEMMA PrunedFrom ==
    ASSUME NEW e \in Emails, hits[e] \in Seq(Nat)
    PROVE  \/ Inside(e) = {} /\ Pruned(e) = <<>>
           \/ \E m \in Inside(e) : /\ \A j \in Inside(e) : m <= j
                                   /\ Pruned(e) = SubSeq(hits[e], m, Len(hits[e]))
<1> SUFFICES ASSUME Inside(e) # {}
             PROVE  \E m \in Inside(e) : /\ \A j \in Inside(e) : m <= j
                                         /\ Pruned(e) = SubSeq(hits[e], m, Len(hits[e]))
  BY DEF Pruned
<1>1. Inside(e) \subseteq Nat
  BY DEF Inside
<1>2. PICK x \in Inside(e) : \A y \in Inside(e) : ~ (<<y, x>> \in OpToRel(<, Nat))
  BY <1>1, NatLessThanWellFounded, WFMin
<1>3. ASSUME NEW y \in Inside(e) PROVE x <= y
  <2>1. ~ (y < x) /\ x \in Nat /\ y \in Nat
    BY <1>1, <1>2 DEF OpToRel
  <2>2. QED
    BY <2>1
<1> DEFINE m == CHOOSE i \in Inside(e) : \A j \in Inside(e) : i <= j
<1>4. m \in Inside(e) /\ \A j \in Inside(e) : m <= j
  BY <1>3
<1>5. Pruned(e) = SubSeq(hits[e], m, Len(hits[e]))
  BY DEF Pruned
<1>6. QED
  BY <1>4, <1>5

LEMMA PrunedTyped ==
    ASSUME NEW e \in Emails, NEW S, S \subseteq Nat, hits[e] \in Seq(S)
    PROVE  Pruned(e) \in Seq(S)
<1>1. CASE Pruned(e) = <<>>
  BY <1>1
<1>2. ASSUME NEW m \in Inside(e), Pruned(e) = SubSeq(hits[e], m, Len(hits[e])) PROVE Pruned(e) \in Seq(S)
  <2>1. m \in 1..Len(hits[e]) /\ Len(hits[e]) \in Nat
    BY DEF Inside
  <2>2. SubSeq(hits[e], m, Len(hits[e])) \in Seq(S)
    BY <2>1, SubSeqProperties
  <2>3. QED
    BY <1>2, <2>2
<1>3. hits[e] \in Seq(Nat)
  BY SeqMonotonic
<1>4. QED
  BY <1>1, <1>2, <1>3, PrunedFrom

LEMMA IdleShape == JobShape(Idle) /\ Idle.at = "idle"
BY DEF JobShape, Idle

LEMMA ExitMoves ==
    ASSUME JobsShaped, NEW r \in Requests, Exit(r)
    PROVE  /\ job' = [q \in Requests |-> job'[q]]
           /\ job'[r] = Idle /\ \A q \in Requests : q # r => job'[q] = job[q]
BY DEF Exit, JobsShaped

\* The tables a job refers to only grow.
LEMMA JobsShapedStep ==
    ASSUME JobsShaped, NEW r \in Requests, job' = [q \in Requests |-> job'[q]], JobShape(job[r])',
           \A q \in Requests : q # r => job'[q] = job[q],
           DOMAIN links \subseteq DOMAIN links', cookies \subseteq cookies'
    PROVE  JobsShaped'
<1>1. \A q \in Requests : q # r => JobShape(job[q])'
  BY DEF JobsShaped, JobShape
<1>2. QED
  BY DEF JobsShaped, JobShape

LEMMA ExitShaped ==
    ASSUME JobsShaped, NEW r \in Requests, Exit(r),
           DOMAIN links \subseteq DOMAIN links', cookies \subseteq cookies'
    PROVE  JobsShaped'
<1>1. JobShape(job[r])'
  BY ExitMoves DEF JobShape, Idle
<1>2. QED
  BY <1>1, ExitMoves, JobsShapedStep

-----------------------------------------------------------------------------
(* Types.                                                                  *)

LEMMA AccountsInitTypes == AccountsInit => Types
<1> SUFFICES ASSUME AccountsInit PROVE Types
  OBVIOUS
<1>1. members \in [Emails -> Roles \cup {Nothing}]
  BY DEF AccountsInit, Roles
<1>2. secrets \in Seq(Nat) /\ secrets # <<>>
  BY DEF AccountsInit
<1>3. links \in Seq(Link) /\ Len(links) = 0 /\ tokens \in Seq({"live", "revoked"}) /\ rows \in Seq(LogRow)
  BY DEF AccountsInit
<1>4. hits \in [Emails -> Seq(0..MaxTime)]
  BY DEF AccountsInit
<1>5. now \in 0..MaxTime /\ Len(links) <= MaxLinks /\ policy \in Nat /\ faults \in 0..MaxFaults
  BY <1>3, CountersAssumption DEF CountersAssumption, AccountsInit
<1>6. mailed \subseteq DOMAIN links /\ cookies \subseteq Cookie /\ disturbed \in BOOLEAN
  BY DEF AccountsInit
<1>7. Tables
  BY <1>1, <1>2, <1>3, <1>4, <1>5, <1>6 DEF Tables
<1>8. JobsShaped
  BY IdleShape DEF AccountsInit, JobsShaped
<1>9. QED
  BY <1>7, <1>8 DEF Types

LEMMA IssueTypes ==
    ASSUME Types, NEW r \in Requests, NEW e \in Emails, issue(r, e)
    PROVE  Types'
<1> DEFINE link == [email |-> e, expiresAt |-> now + LinkTtl, consumedAt |-> Nothing]
<1>1. /\ links' = Append(links, link) /\ Len(links) < MaxLinks
      /\ hits' = [hits EXCEPT ![e] = Append(Pruned(e), now)]
      /\ job' = [job EXCEPT ![r] = [Idle EXCEPT !.at = "issued", !.link = Len(links) + 1]]
      /\ UNCHANGED <<now, mailed, cookies, admin, config, bounds>>
  BY DEF issue
<1>2. /\ now \in 0..MaxTime /\ now \in Nat /\ links \in Seq(Link)
      /\ hits \in [Emails -> Seq(0..MaxTime)] /\ mailed \subseteq DOMAIN links
  BY CountersAssumption DEF CountersAssumption, Types, Tables
<1>3. link \in Link
  BY <1>2, LifetimesAssumption DEF LifetimesAssumption, Link
<1> HIDE DEF link
<1>4. /\ links' \in Seq(Link) /\ Len(links') = Len(links) + 1 /\ Len(links) \in Nat
      /\ DOMAIN links = 1..Len(links) /\ DOMAIN links' = 1..(Len(links) + 1)
  BY <1>1, <1>2, <1>3
<1>5. Pruned(e) \in Seq(0..MaxTime)
  <2>1. 0..MaxTime \subseteq Nat
    OBVIOUS
  <2>2. QED
    BY <1>2, <2>1, PrunedTyped
<1>6. hits' \in [Emails -> Seq(0..MaxTime)]
  BY <1>1, <1>2, <1>5
<1>7. Len(links') <= MaxLinks
  BY <1>1, <1>4, CountersAssumption DEF CountersAssumption
<1>8. Tables'
  BY <1>1, <1>2, <1>4, <1>6, <1>7 DEF Types, Tables, admin, config, bounds
<1>9. job'[r].at = "issued" /\ job'[r].link = Len(links) + 1
      /\ DOMAIN job'[r] = {"at", "link", "cookie", "change"}
      /\ job' = [q \in Requests |-> job'[q]] /\ \A q \in Requests : q # r => job'[q] = job[q]
  BY <1>1 DEF Types, JobsShaped, Idle
<1>10. JobShape(job[r])'
  BY <1>4, <1>9 DEF JobShape
<1>11. DOMAIN links \subseteq DOMAIN links' /\ cookies \subseteq cookies'
  BY <1>1, <1>4
<1>12. JobsShaped
  BY DEF Types
<1>13. JobsShaped'
  BY <1>9, <1>10, <1>11, <1>12, JobsShapedStep
<1>14. QED
  BY <1>8, <1>13 DEF Types

LEMMA DeniedTypes ==
    ASSUME Types, NEW e \in Emails, Denied(e)
    PROVE  Types'
<1>1. hits' = [hits EXCEPT ![e] = Pruned(e)]
      /\ UNCHANGED <<now, links, mailed, cookies, admin, config, job, bounds>>
  BY DEF Denied
<1>2. Pruned(e) \in Seq(0..MaxTime)
  <2>1. 0..MaxTime \subseteq Nat /\ hits[e] \in Seq(0..MaxTime)
    BY DEF Types, Tables
  <2>2. QED
    BY <2>1, PrunedTyped
<1>3. QED
  BY <1>1, <1>2 DEF Types, Tables, JobsShaped, JobShape, admin, config, bounds

LEMMA SendTypes ==
    ASSUME Types, NEW r \in Requests, send(r)
    PROVE  Types'
<1>1. mailed' = mailed \cup {job[r].link} /\ Exit(r)
      /\ UNCHANGED <<now, hits, links, cookies, admin, config, bounds>>
  BY DEF send
<1>2. job[r].link \in DOMAIN links
  BY DEF send, At, Types, JobsShaped, JobShape
<1>3. Tables'
  BY <1>1, <1>2 DEF Types, Tables, admin, config, bounds
<1>4. QED
  BY <1>1, <1>3, ExitShaped DEF Types

LEMMA VerifyTypes ==
    ASSUME Types, NEW r \in Requests, NEW l \in DOMAIN links, verify(r, l)
    PROVE  Types'
<1>1. /\ links' = [links EXCEPT ![l].consumedAt = now]
      /\ job' = [job EXCEPT ![r] = [Idle EXCEPT !.at = "verified", !.link = l]]
      /\ UNCHANGED <<now, hits, mailed, cookies, admin, config, bounds>>
  BY DEF verify
<1>2. now \in Nat /\ links \in Seq(Link) /\ links[l] \in Link
  BY DEF Types, Tables
<1>3. [links[l] EXCEPT !.consumedAt = now] \in Link
  BY <1>2 DEF Link
<1>4. links' \in Seq(Link) /\ Len(links') = Len(links) /\ DOMAIN links' = DOMAIN links
  BY <1>1, <1>2, <1>3
<1>5. Tables'
  BY <1>1, <1>4 DEF Types, Tables, admin, config, bounds
<1>6. job'[r].at = "verified" /\ job'[r].link = l
      /\ DOMAIN job'[r] = {"at", "link", "cookie", "change"}
      /\ job' = [q \in Requests |-> job'[q]] /\ \A q \in Requests : q # r => job'[q] = job[q]
  BY <1>1 DEF Types, JobsShaped, Idle
<1>7. JobShape(job[r])'
  BY <1>4, <1>6 DEF JobShape
<1>8. QED
  BY <1>1, <1>4, <1>5, <1>6, <1>7, JobsShapedStep DEF Types

LEMMA MintTypes ==
    ASSUME Types, NEW r \in Requests, mintSession(r)
    PROVE  Types'
<1> DEFINE l == job[r].link
           e == links[l].email
           c == [link |-> l, email |-> e, role |-> members[e],
                 exp |-> now + SessionTtl, secret |-> Head(secrets)]
<1>1. cookies' = cookies \cup {c} /\ Exit(r)
      /\ UNCHANGED <<now, hits, links, mailed, admin, config, bounds>>
  BY DEF mintSession
<1>2. l \in DOMAIN links
  BY DEF mintSession, At, Types, JobsShaped, JobShape
<1>3. l \in 1..MaxLinks /\ e \in Emails
  <2>1. links \in Seq(Link) /\ Len(links) <= MaxLinks
    BY DEF Types, Tables
  <2> HIDE DEF l
  <2>2. l \in 1..Len(links) /\ Len(links) \in Nat /\ links[l] \in Link
    BY <1>2, <2>1
  <2>3. QED
    BY <2>1, <2>2, CountersAssumption DEF CountersAssumption, Link, e
<1>4. now + SessionTtl \in Nat /\ Head(secrets) \in Nat /\ members[e] \in Roles \cup {Nothing}
  BY <1>3, LifetimesAssumption DEF LifetimesAssumption, Types, Tables
<1> HIDE DEF l, e
<1>5. c \in Cookie
  BY <1>3, <1>4 DEF Cookie
<1> HIDE DEF c
<1>6. Tables'
  BY <1>1, <1>5 DEF Types, Tables, admin, config, bounds
<1>7. QED
  BY <1>1, <1>6, ExitShaped DEF Types

LEMMA BeginTypes ==
    ASSUME Types, NEW r \in Requests, NEW c \in cookies, NEW a \in Actions, NEW n \in Nat,
           Begin(r, c, a, n)
    PROVE  Types'
<1> DEFINE change == [action |-> a, target |-> n]
<1>1. /\ job' = [job EXCEPT ![r] = [Idle EXCEPT !.at = "allowed", !.cookie = [c |-> c, at |-> now],
                                              !.change = change]]
      /\ UNCHANGED <<now, auth, admin, config, bounds>>
  BY DEF Begin
<1>2. change \in Change /\ now \in Nat
  BY DEF Change, Types, Tables
<1> HIDE DEF change
<1>3. /\ job'[r].at = "allowed" /\ job'[r].cookie.c = c /\ job'[r].cookie.at = now
      /\ job'[r].change = change
      /\ DOMAIN job'[r] = {"at", "link", "cookie", "change"}
      /\ job' = [q \in Requests |-> job'[q]] /\ \A q \in Requests : q # r => job'[q] = job[q]
  BY <1>1 DEF Types, JobsShaped, Idle
<1>4. JobShape(job[r])'
  BY <1>1, <1>2, <1>3 DEF JobShape, auth
<1>5. Tables'
  BY <1>1 DEF Types, Tables, auth, admin, config, bounds
<1>6. QED
  BY <1>1, <1>3, <1>4, <1>5, JobsShapedStep DEF Types, auth

LEMMA Retarget ==
    ASSUME NEW k \in Change, NEW n \in Nat
    PROVE  [k EXCEPT !.target = n] = [action |-> k.action, target |-> n]
BY DEF Change

\* What a write does to its request, the policy, the tokens and the history.
LEMMA ApplyIs ==
    ASSUME Types, NEW r \in Requests, Write(r)
    PROVE  \E n \in Nat :
               LET a == job[r].change.action
                   k == [action |-> a, target |-> n]
               IN /\ a \in Actions /\ k \in Change
                  /\ a = "policy.save" => n = policy + 1 /\ policy' = n /\ tokens' = tokens
                  /\ a = "token.issue" => n = Len(tokens) + 1 /\ tokens' = Append(tokens, "live")
                                          /\ policy' = policy
                  /\ a = "token.revoke" => tokens' = [tokens EXCEPT ![n] = "revoked"]
                                           /\ policy' = policy
                  /\ writes' = writes \cup {[change |-> k, cookie |-> job[r].cookie.c,
                                             at |-> job[r].cookie.at]}
                  /\ job' = [q \in Requests |-> job'[q]]
                  /\ \A q \in Requests : q # r => job'[q] = job[q]
                  /\ job'[r].at = "written" /\ job'[r].change = k
                  /\ job'[r].cookie = job[r].cookie
                  /\ DOMAIN job'[r] = {"at", "link", "cookie", "change"}
<1> DEFINE a == job[r].change.action
           n == CASE a = "policy.save" -> policy + 1
                  [] a = "token.issue" -> Len(tokens) + 1
                  [] a = "token.revoke" -> job[r].change.target
           k == [action |-> a, target |-> n]
<1>1. job[r].change \in Change /\ JobShape(job[r]) /\ job = [q \in Requests |-> job[q]]
  BY DEF Types, JobsShaped, JobShape, Write, At
<1>2. a \in Actions /\ job[r].change.target \in Nat
  BY <1>1 DEF Change
<1>3. n \in Nat
  BY <1>2 DEF Actions, Types, Tables
<1>4. k \in Change
  BY <1>2, <1>3 DEF Change
<1>5. [job[r].change EXCEPT !.target = n] = k
  BY <1>1, <1>3, Retarget
<1>6. /\ policy' = IF a = "policy.save" THEN n ELSE policy
      /\ tokens' = CASE a = "policy.save" -> tokens
                     [] a = "token.issue" -> Append(tokens, "live")
                     [] a = "token.revoke" -> [tokens EXCEPT ![n] = "revoked"]
      /\ job' = [job EXCEPT ![r].at = "written", ![r].change.target = n]
      /\ writes' = writes \cup {[change |-> k, cookie |-> job[r].cookie.c, at |-> job[r].cookie.at]}
  BY DEF Write, Apply
<1>7. /\ a = "policy.save" => n = policy + 1
      /\ a = "token.issue" => n = Len(tokens) + 1
  OBVIOUS
<1> HIDE DEF n, k
<1>8. /\ job' = [q \in Requests |-> job'[q]]
      /\ \A q \in Requests : q # r => job'[q] = job[q]
      /\ job'[r].at = "written" /\ job'[r].cookie = job[r].cookie
      /\ job'[r].change = [job[r].change EXCEPT !.target = n]
      /\ DOMAIN job'[r] = {"at", "link", "cookie", "change"}
  BY <1>1, <1>6 DEF JobShape
<1>9. /\ a = "policy.save" => policy' = n /\ tokens' = tokens
      /\ a = "token.issue" => tokens' = Append(tokens, "live") /\ policy' = policy
      /\ a = "token.revoke" => tokens' = [tokens EXCEPT ![n] = "revoked"] /\ policy' = policy
  BY <1>6
<1>10. QED
  BY <1>2, <1>3, <1>4, <1>5, <1>6, <1>7, <1>8, <1>9 DEF k

LEMMA RowReplaced ==
    ASSUME NEW S, NEW s \in Seq(S), NEW n \in Nat, NEW x \in S
    PROVE  [s EXCEPT ![n] = x] \in Seq(S)
<1>1. CASE n \in 1..Len(s)
  BY <1>1
<1>2. CASE n \notin 1..Len(s)
  <2>1. DOMAIN s = 1..Len(s) /\ s = [i \in DOMAIN s |-> s[i]]
    OBVIOUS
  <2>2. [s EXCEPT ![n] = x] = [i \in DOMAIN s |-> s[i]]
    BY <1>2, <2>1
  <2>3. QED
    BY <2>1, <2>2
<1>3. QED
  BY <1>1, <1>2

LEMMA WriteTypes ==
    ASSUME Types, NEW r \in Requests, Write(r)
    PROVE  Types'
<1>1. UNCHANGED <<now, auth, rows, lost, config, bounds>>
  BY DEF Write
<1>2. JobShape(job[r]) /\ job[r].at = "allowed"
  BY DEF Types, JobsShaped, Write, At
<1>3. PICK n \in Nat :
          LET a == job[r].change.action
              k == [action |-> a, target |-> n]
          IN /\ a \in Actions /\ k \in Change
             /\ a = "policy.save" => n = policy + 1 /\ policy' = n /\ tokens' = tokens
             /\ a = "token.issue" => n = Len(tokens) + 1 /\ tokens' = Append(tokens, "live")
                                     /\ policy' = policy
             /\ a = "token.revoke" => tokens' = [tokens EXCEPT ![n] = "revoked"]
                                      /\ policy' = policy
             /\ job' = [q \in Requests |-> job'[q]]
             /\ \A q \in Requests : q # r => job'[q] = job[q]
             /\ job'[r].at = "written" /\ job'[r].change = k
             /\ job'[r].cookie = job[r].cookie
             /\ DOMAIN job'[r] = {"at", "link", "cookie", "change"}
  BY ApplyIs
<1>4. policy \in Nat /\ tokens \in Seq({"live", "revoked"})
  BY DEF Types, Tables
<1>5. job[r].change.action \in {"policy.save", "token.issue", "token.revoke"}
  BY <1>3 DEF Actions
<1>6. policy' \in Nat
  BY <1>3, <1>4, <1>5
<1>7. tokens' \in Seq({"live", "revoked"})
  <2>1. Append(tokens, "live") \in Seq({"live", "revoked"})
    BY <1>4
  <2>2. [tokens EXCEPT ![n] = "revoked"] \in Seq({"live", "revoked"})
    BY <1>4, RowReplaced
  <2>3. QED
    BY <1>3, <1>4, <1>5, <2>1, <2>2
<1>8. Tables'
  BY <1>1, <1>6, <1>7 DEF Types, Tables, auth, config, bounds
<1>9. JobShape(job[r])'
  BY <1>1, <1>2, <1>3 DEF JobShape, auth
<1>10. JobsShaped'
  <2>1. UNCHANGED <<links, cookies>> /\ JobsShaped
    BY <1>1 DEF Types, auth
  <2>2. job' = [q \in Requests |-> job'[q]] /\ \A q \in Requests : q # r => job'[q] = job[q]
    BY <1>3
  <2>3. QED
    BY <1>9, <2>1, <2>2, JobsShapedStep
<1>11. QED
  BY <1>8, <1>10 DEF Types

LEMMA LogTypes ==
    ASSUME Types, NEW r \in Requests, logAdminAction(r)
    PROVE  Types'
<1>1. rows' = Append(rows, Row(r)) /\ Exit(r)
      /\ UNCHANGED <<now, auth, policy, tokens, config, bounds>>
  BY DEF logAdminAction
<1>2. job[r].change \in Change /\ job[r].cookie.c \in cookies
  BY DEF Types, JobsShaped, JobShape, logAdminAction, At
<1>3. Row(r) \in LogRow
  BY <1>2 DEF Row, LogRow, Types, Tables, Cookie
<1>4. rows' \in Seq(LogRow)
  BY <1>1, <1>3 DEF Types, Tables
<1>5. Tables'
  BY <1>1, <1>4 DEF Types, Tables, auth, config, bounds
<1>6. QED
  BY <1>1, <1>5, ExitShaped DEF Types, auth

LEMMA FaultTypes ==
    ASSUME Types, Fault
    PROVE  faults' \in 0..MaxFaults
BY CountersAssumption DEF CountersAssumption, Fault, Types, Tables

LEMMA FailTypes ==
    ASSUME Types, NEW r \in Requests, FailRequest(r)
    PROVE  Types'
<1>1. Exit(r) /\ UNCHANGED <<now, auth, policy, tokens, rows, config, disturbed>>
  BY DEF FailRequest
<1>2. Tables'
  BY <1>1, FaultTypes DEF FailRequest, Types, Tables, auth, config
<1>3. QED
  BY <1>1, <1>2, ExitShaped DEF Types, auth

LEMMA OperatorTypes ==
    ASSUME Types, \/ Restart \/ RotateSecret \/ Tick \/ SetBack \/ UNCHANGED accountsVars
                  \/ \E e \in Emails : \E role \in Roles \cup {Nothing} : SetRole(e, role)
    PROVE  Types'
<1>1. CASE Restart
  <2>1. hits' = [e \in Emails |-> <<>>] /\ disturbed' = TRUE /\ job' = [r \in Requests |-> Idle]
        /\ UNCHANGED <<now, links, mailed, cookies, policy, tokens, rows, config>>
    BY <1>1 DEF Restart
  <2>2. hits' \in [Emails -> Seq(0..MaxTime)]
    BY <2>1
  <2>3. Tables'
    BY <1>1, <2>1, <2>2, FaultTypes DEF Restart, Types, Tables, config
  <2>4. JobsShaped'
    BY <2>1 DEF JobsShaped, JobShape, Idle
  <2>5. QED
    BY <2>3, <2>4 DEF Types
<1>2. CASE RotateSecret
  <2>1. secrets' = <<secrets[1] + 1, secrets[1]>>
        /\ UNCHANGED <<now, auth, admin, members, job, disturbed>>
    BY <1>2 DEF RotateSecret
  <2>2. secrets[1] \in Nat
    BY DEF Types, Tables
  <2>3. secrets' \in Seq(Nat) /\ secrets' # <<>>
    BY <2>1, <2>2
  <2>4. QED
    BY <1>2, <2>1, <2>3, FaultTypes DEF RotateSecret, Types, Tables, JobsShaped, JobShape, auth, admin
<1>3. CASE Tick
  BY <1>3, CountersAssumption DEF CountersAssumption, Tick, Types, Tables, JobsShaped, JobShape, auth,
     admin, config, bounds
<1>4. CASE SetBack
  <2>1. now' \in 0..MaxTime
    BY <1>4, CountersAssumption DEF CountersAssumption, SetBack, Types, Tables
  <2>2. QED
    BY <1>4, <2>1, FaultTypes DEF SetBack, Types, Tables, JobsShaped, JobShape, auth, admin, config
<1>5. CASE UNCHANGED accountsVars
  BY <1>5 DEF accountsVars, Types, Tables, JobsShaped, JobShape, auth, admin, config, bounds
<1>6. ASSUME NEW e \in Emails, NEW role \in Roles \cup {Nothing}, SetRole(e, role) PROVE Types'
  BY <1>6, FaultTypes DEF SetRole, Types, Tables, JobsShaped, JobShape, auth, admin
<1>7. QED
  BY <1>1, <1>2, <1>3, <1>4, <1>5, <1>6

\* The three ways a write begins.
LEMMA Begins ==
    ASSUME Types
    PROVE  /\ \A r \in Requests, c \in cookies, a \in {"policy.save", "token.issue"} :
                  Begin(r, c, a, 0) => \E b \in Actions, n \in Nat : Begin(r, c, b, n)
           /\ \A r \in Requests, c \in cookies, n \in DOMAIN tokens :
                  Begin(r, c, "token.revoke", n) => \E b \in Actions, m \in Nat : Begin(r, c, b, m)
<1>1. DOMAIN tokens \subseteq Nat
  BY DEF Types, Tables
<1>2. {"policy.save", "token.issue", "token.revoke"} \subseteq Actions
  BY DEF Actions
<1>3. QED
  BY <1>1, <1>2

\* The steps of Next, for the proofs that go through them.
Operates ==
    \/ Restart \/ RotateSecret \/ Tick \/ SetBack \/ UNCHANGED accountsVars
    \/ \E e \in Emails : \E role \in Roles \cup {Nothing} : SetRole(e, role)

LEMMA Steps ==
    ASSUME Types, [AccountsNext]_accountsVars
    PROVE  \/ \E r \in Requests : Step(r)
           \/ \E r \in Requests, e \in Emails : issue(r, e)
           \/ \E e \in Emails : Denied(e)
           \/ \E r \in Requests, l \in DOMAIN links : verify(r, l)
           \/ \E r \in Requests, c \in cookies, a \in Actions, n \in Nat : Begin(r, c, a, n)
           \/ Operates
BY Begins DEF AccountsNext, Operates

LEMMA AccountsTypesStep == Types /\ [AccountsNext]_accountsVars => Types'
BY Steps, IssueTypes, DeniedTypes, SendTypes, VerifyTypes, MintTypes, BeginTypes, WriteTypes,
   LogTypes, FailTypes, OperatorTypes DEF Step, Operates

-----------------------------------------------------------------------------
(* Sessions.  A link is marked in the step that hands it out, so it is in   *)
(* one hand, and then behind one cookie.                                   *)

Followed(l) ==
    /\ l \in mailed /\ links[l].consumedAt \in Nat
    /\ links[l].consumedAt < links[l].expiresAt

Verified(r) == job[r].at = "verified"

Sessions ==
    /\ \A c \in cookies : Followed(c.link) /\ links[c.link].email = c.email
    /\ \A c, d \in cookies : c.link = d.link => c = d
    /\ \A r \in Requests : Verified(r) =>
           Followed(job[r].link) /\ \A c \in cookies : c.link # job[r].link
    /\ \A r, q \in Requests : Verified(r) /\ Verified(q) /\ r # q => job[r].link # job[q].link

\* A step that mints nothing and hands out no link.
LEMMA SessionsKept ==
    ASSUME Types, Sessions, UNCHANGED cookies, mailed \subseteq mailed',
           \A l \in mailed : links'[l] = links[l],
           \A q \in Requests : Verified(q)' => Verified(q) /\ job'[q].link = job[q].link
    PROVE  Sessions'
<1>1. \A l : Followed(l) => Followed(l)'
  BY DEF Followed
<1>2. \A c \in cookies : links'[c.link].email = c.email
  BY DEF Sessions, Followed
<1>3. QED
  BY <1>1, <1>2 DEF Sessions

LEMMA VerifySessions ==
    ASSUME Types, Sessions, NEW r \in Requests, NEW l \in DOMAIN links, verify(r, l)
    PROVE  Sessions'
<1>1. /\ links' = [links EXCEPT ![l].consumedAt = now]
      /\ job' = [job EXCEPT ![r] = [Idle EXCEPT !.at = "verified", !.link = l]]
      /\ l \in mailed /\ links[l].consumedAt = Nothing /\ now < links[l].expiresAt
      /\ UNCHANGED <<now, hits, mailed, cookies, admin, config, bounds>>
  BY DEF verify, Consumable
<1>2. now \in Nat /\ links \in Seq(Link) /\ links[l] \in Link
  BY DEF Types, Tables
<1>3. ~ Followed(l)
  BY <1>1, NothingAssumption DEF NothingAssumption, Followed
<1>4. links'[l] = [links[l] EXCEPT !.consumedAt = now] /\ \A k \in mailed : k # l => links'[k] = links[k]
  BY <1>1, <1>2 DEF Types, Tables
<1>5. links'[l].consumedAt = now /\ links'[l].expiresAt = links[l].expiresAt
  BY <1>2, <1>4 DEF Link
<1>6. Followed(l)'
  BY <1>1, <1>2, <1>5 DEF Followed
<1>7. \A k : Followed(k) => k # l /\ Followed(k)' /\ links'[k] = links[k]
  BY <1>1, <1>3, <1>4 DEF Followed
<1>8. /\ job'[r].at = "verified" /\ job'[r].link = l
      /\ \A q \in Requests : q # r => job'[q] = job[q]
  BY <1>1 DEF Types, JobsShaped, Idle
<1>9. /\ \A c \in cookies' : Followed(c.link)' /\ links'[c.link].email = c.email
      /\ \A c, d \in cookies' : c.link = d.link => c = d
  BY <1>1, <1>7 DEF Sessions
<1>10. \A q \in Requests : Verified(q)' =>
           Followed(job[q].link)' /\ \A c \in cookies' : c.link # job'[q].link
  BY <1>1, <1>6, <1>7, <1>8 DEF Sessions, Verified
<1>11. \A p, q \in Requests : Verified(p)' /\ Verified(q)' /\ p # q => job'[p].link # job'[q].link
  BY <1>7, <1>8 DEF Sessions, Verified
<1>12. QED
  BY <1>9, <1>10, <1>11 DEF Sessions

LEMMA MintSessions ==
    ASSUME Types, Sessions, NEW r \in Requests, mintSession(r)
    PROVE  Sessions'
<1> DEFINE l == job[r].link
           e == links[l].email
           c == [link |-> l, email |-> e, role |-> members[e],
                 exp |-> now + SessionTtl, secret |-> Head(secrets)]
<1>1. cookies' = cookies \cup {c} /\ Exit(r) /\ Verified(r)
      /\ UNCHANGED <<now, hits, links, mailed, admin, config, bounds>>
  BY DEF mintSession, At, Verified
<1>2. c.link = l /\ c.email = e
  OBVIOUS
<1> HIDE DEF c
<1>3. Followed(l) /\ \A d \in cookies : d.link # l
  BY <1>1 DEF Sessions
<1>4. \A k : Followed(k)' <=> Followed(k)
  BY <1>1 DEF Followed
<1>5. ~ Verified(r)' /\ \A q \in Requests : q # r => job'[q] = job[q]
  BY <1>1, ExitMoves DEF Types, Verified, Idle
<1>6. \A d \in cookies' : Followed(d.link)' /\ links'[d.link].email = d.email
  BY <1>1, <1>2, <1>3, <1>4 DEF Sessions
<1>7. \A d, f \in cookies' : d.link = f.link => d = f
  BY <1>1, <1>2, <1>3 DEF Sessions
<1>8. \A q \in Requests : Verified(q)' => q # r /\ Verified(q) /\ job'[q].link = job[q].link
  BY <1>5 DEF Verified
<1>9. \A q \in Requests : Verified(q)' =>
          Followed(job[q].link)' /\ \A d \in cookies' : d.link # job'[q].link
  BY <1>1, <1>2, <1>4, <1>8 DEF Sessions
<1>10. QED
  BY <1>6, <1>7, <1>8, <1>9 DEF Sessions

LEMMA SessionsStep ==
    ASSUME Types, Sessions, [AccountsNext]_accountsVars
    PROVE  Sessions'
<1>1. ASSUME NEW r \in Requests, NEW e \in Emails, issue(r, e) PROVE Sessions'
  <2>1. links' = Append(links, [email |-> e, expiresAt |-> now + LinkTtl, consumedAt |-> Nothing])
        /\ job' = [job EXCEPT ![r] = [Idle EXCEPT !.at = "issued", !.link = Len(links) + 1]]
        /\ UNCHANGED <<mailed, cookies>>
    BY <1>1 DEF issue
  <2>2. links \in Seq(Link) /\ mailed \subseteq DOMAIN links
    BY DEF Types, Tables
  <2>3. \A l \in mailed : links'[l] = links[l]
    BY <2>1, <2>2
  <2>4. \A q \in Requests : Verified(q)' => Verified(q) /\ job'[q].link = job[q].link
    BY <2>1 DEF Types, JobsShaped, Idle, Verified
  <2>5. QED
    BY <2>1, <2>3, <2>4, SessionsKept
<1>2. ASSUME NEW r \in Requests, send(r) \/ logAdminAction(r) \/ FailRequest(r) PROVE Sessions'
  <2>1. Exit(r) /\ mailed \subseteq mailed' /\ UNCHANGED <<links, cookies>>
    BY <1>2 DEF send, logAdminAction, FailRequest, auth
  <2>2. \A q \in Requests : Verified(q)' => Verified(q) /\ job'[q].link = job[q].link
    BY <2>1, ExitMoves DEF Types, Verified, Idle
  <2>3. QED
    BY <2>1, <2>2, SessionsKept
<1>3. ASSUME NEW r \in Requests, NEW c \in cookies, NEW a \in Actions, NEW n \in Nat, Begin(r, c, a, n)
      PROVE  Sessions'
  <2>1. UNCHANGED <<mailed, links, cookies>>
        /\ job' = [job EXCEPT ![r] = [Idle EXCEPT !.at = "allowed", !.cookie = [c |-> c, at |-> now],
                                              !.change = [action |-> a, target |-> n]]]
    BY <1>3 DEF Begin, auth
  <2>2. \A q \in Requests : Verified(q)' => Verified(q) /\ job'[q].link = job[q].link
    BY <2>1 DEF Types, JobsShaped, Idle, Verified
  <2>3. QED
    BY <2>1, <2>2, SessionsKept
<1>4. ASSUME NEW r \in Requests, Write(r) PROVE Sessions'
  <2>1. UNCHANGED <<mailed, links, cookies>>
    BY <1>4 DEF Write, auth
  <2>2. job'[r].at = "written" /\ \A q \in Requests : q # r => job'[q] = job[q]
    BY <1>4, ApplyIs
  <2>3. \A q \in Requests : Verified(q)' => Verified(q) /\ job'[q].link = job[q].link
    BY <2>2 DEF Verified
  <2>4. QED
    BY <2>1, <2>3, SessionsKept
<1>5. CASE Restart
  BY <1>5, SessionsKept DEF Restart, Verified, Idle
<1>6. CASE (Operates /\ ~ Restart) \/ \E e \in Emails : Denied(e)
  <2>1. UNCHANGED <<mailed, links, cookies, job>>
    BY <1>6 DEF Operates, RotateSecret, Tick, SetBack, SetRole, Denied, accountsVars, auth, admin
  <2>2. QED
    BY <2>1, SessionsKept DEF Verified
<1>7. QED
  BY <1>1, <1>2, <1>3, <1>4, <1>5, <1>6, Steps, VerifySessions, MintSessions DEF Step

-----------------------------------------------------------------------------
(* Admin writes.                                                           *)

\* A cookie entitled its bearer to an action at a time.
Entitles(c, t, a) == t < c.exp /\ can(c.role, Permission(a))

Entitled ==
    /\ \A w \in writes : w.cookie \in cookies /\ Entitles(w.cookie, w.at, w.change.action)
    /\ \A r \in Requests : job[r].at = "allowed" =>
           Entitles(job[r].cookie.c, job[r].cookie.at, job[r].change.action)

LEMMA EntitledKept ==
    ASSUME Entitled, UNCHANGED writes, cookies \subseteq cookies',
           \A q \in Requests : job'[q].at = "allowed" => job'[q] = job[q]
    PROVE  Entitled'
BY DEF Entitled

LEMMA BeginEntitled ==
    ASSUME Types, Entitled, NEW r \in Requests, NEW c \in cookies, NEW a \in Actions, NEW n \in Nat,
           Begin(r, c, a, n)
    PROVE  Entitled'
<1> DEFINE change == [action |-> a, target |-> n]
<1>1. /\ job' = [job EXCEPT ![r] = [Idle EXCEPT !.at = "allowed", !.cookie = [c |-> c, at |-> now],
                                              !.change = change]]
      /\ UNCHANGED <<cookies, writes>> /\ c.exp > now /\ can(c.role, Permission(a))
  BY DEF Begin, verifyPayload, auth, admin
<1>2. now \in Nat /\ c.exp \in Nat /\ change.action = a
  BY DEF Types, Tables, Cookie
<1> HIDE DEF change
<1>3. /\ job'[r].cookie.c = c /\ job'[r].cookie.at = now /\ job'[r].change = change
      /\ \A q \in Requests : q # r => job'[q] = job[q]
  BY <1>1 DEF Types, JobsShaped, Idle
<1>4. Entitles(c, now, a)
  BY <1>1, <1>2 DEF Entitles
<1>5. QED
  BY <1>1, <1>2, <1>3, <1>4 DEF Entitled

LEMMA WriteEntitled ==
    ASSUME Types, Entitled, NEW r \in Requests, Write(r)
    PROVE  Entitled'
<1> DEFINE a == job[r].change.action
<1>1. PICK n \in Nat :
          LET k == [action |-> a, target |-> n]
          IN /\ writes' = writes \cup {[change |-> k, cookie |-> job[r].cookie.c,
                                        at |-> job[r].cookie.at]}
             /\ job'[r].at = "written" /\ \A q \in Requests : q # r => job'[q] = job[q]
  BY ApplyIs
<1>2. UNCHANGED cookies /\ job[r].at = "allowed"
  BY DEF Write, At, auth
<1>3. job[r].cookie.c \in cookies /\ Entitles(job[r].cookie.c, job[r].cookie.at, a)
  BY <1>2 DEF Entitled, Types, JobsShaped, JobShape
<1>4. \A w \in writes' : w \in writes \/ (/\ w.cookie = job[r].cookie.c /\ w.at = job[r].cookie.at
                                        /\ w.change.action = a)
  BY <1>1
<1> HIDE DEF a
<1>5. \A w \in writes' : w.cookie \in cookies /\ Entitles(w.cookie, w.at, w.change.action)
  BY <1>3, <1>4 DEF Entitled
<1>6. QED
  BY <1>1, <1>2, <1>5 DEF Entitled

LEMMA EntitledStep ==
    ASSUME Types, Entitled, [AccountsNext]_accountsVars
    PROVE  Entitled'
<1>1. ASSUME NEW r \in Requests, send(r) \/ mintSession(r) \/ logAdminAction(r) \/ FailRequest(r)
      PROVE  Entitled'
  <2>1. Exit(r) /\ UNCHANGED writes /\ cookies \subseteq cookies'
    BY <1>1 DEF send, mintSession, logAdminAction, FailRequest, auth, admin
  <2>2. \A q \in Requests : job'[q].at = "allowed" => job'[q] = job[q]
    BY <2>1, ExitMoves DEF Types, Idle
  <2>3. QED
    BY <2>1, <2>2, EntitledKept
<1>2. ASSUME NEW r \in Requests, NEW e \in Emails, issue(r, e) PROVE Entitled'
  <2>1. job' = [job EXCEPT ![r] = [Idle EXCEPT !.at = "issued", !.link = Len(links) + 1]]
        /\ UNCHANGED <<writes, cookies>>
    BY <1>2 DEF issue, admin
  <2>2. \A q \in Requests : job'[q].at = "allowed" => job'[q] = job[q]
    BY <2>1 DEF Types, JobsShaped, Idle
  <2>3. QED
    BY <2>1, <2>2, EntitledKept
<1>3. ASSUME NEW r \in Requests, NEW l \in DOMAIN links, verify(r, l) PROVE Entitled'
  <2>1. job' = [job EXCEPT ![r] = [Idle EXCEPT !.at = "verified", !.link = l]]
        /\ UNCHANGED <<writes, cookies>>
    BY <1>3 DEF verify, admin
  <2>2. \A q \in Requests : job'[q].at = "allowed" => job'[q] = job[q]
    BY <2>1 DEF Types, JobsShaped, Idle
  <2>3. QED
    BY <2>1, <2>2, EntitledKept
<1>4. CASE Restart
  BY <1>4, EntitledKept DEF Restart, Idle
<1>5. CASE (Operates /\ ~ Restart) \/ \E e \in Emails : Denied(e)
  <2>1. UNCHANGED <<writes, cookies, job>>
    BY <1>5 DEF Operates, RotateSecret, Tick, SetBack, SetRole, Denied, accountsVars, auth, admin
  <2>2. QED
    BY <2>1, EntitledKept
<1>6. QED
  BY <1>1, <1>2, <1>3, <1>4, <1>5, Steps, BeginEntitled, WriteEntitled DEF Step

-----------------------------------------------------------------------------
(* The log.  A policy version and a token number are given once, so two      *)
(* writes, two rows, or a row and a request at its row name the same change *)
(* only if it is a revoke.                                                 *)

Numbered(k) ==
    /\ k \in Change
    /\ k.action = "policy.save" => k.target <= policy
    /\ k.action = "token.issue" => k.target <= Len(tokens)

AtItsRow(r) == job[r].at = "written"

Differ(k, m) == k # m \/ k.action = "token.revoke"

RowsTrue ==
    \A i \in DOMAIN rows : \E w \in writes : w.change = rows[i].change /\ w.cookie.email = rows[i].email

RowsDiffer ==
    /\ \A i, j \in DOMAIN rows : i # j => Differ(rows[i].change, rows[j].change)
    /\ \A r \in Requests : AtItsRow(r) =>
           /\ \A i \in DOMAIN rows : Differ(rows[i].change, job[r].change)
           /\ \A q \in Requests : AtItsRow(q) /\ q # r => Differ(job[r].change, job[q].change)

HasRow(w) == \E i \in DOMAIN rows : rows[i].change = w.change /\ rows[i].email = w.cookie.email

RowsComplete == \A w \in writes \ lost : (\E r \in Requests : w \in Unlogged(r)) \/ HasRow(w)

Logging ==
    /\ lost \subseteq writes /\ \A w \in writes : Numbered(w.change)
    /\ \A r \in Requests : AtItsRow(r) =>
           \E w \in writes : w.change = job[r].change /\ w.cookie = job[r].cookie.c
    /\ RowsTrue /\ RowsDiffer /\ RowsComplete

\* A step that neither writes nor logs, nor ends a request at its row.
LEMMA LoggingKept ==
    ASSUME Logging, UNCHANGED <<writes, rows, lost, policy, tokens>>,
           \A q \in Requests : AtItsRow(q)' <=> AtItsRow(q),
           \A q \in Requests : AtItsRow(q) => job'[q] = job[q]
    PROVE  Logging'
<1>1. \A q \in Requests : Unlogged(q)' = Unlogged(q)
  BY DEF Unlogged, At, AtItsRow
<1>2. RowsTrue' /\ RowsDiffer'
  BY DEF Logging, RowsTrue, RowsDiffer
<1>3. RowsComplete'
  BY <1>1 DEF Logging, RowsComplete, HasRow
<1>4. QED
  BY <1>2, <1>3 DEF Logging, Numbered

\* What a write is numbered, no write before was.
LEMMA WriteIsNew ==
    ASSUME Types, Logging, NEW r \in Requests, Write(r)
    PROVE  \E k \in Change :
               /\ \A w \in writes : Differ(k, w.change) /\ Differ(w.change, k)
               /\ \A w \in writes : Numbered(w.change)'
               /\ Numbered(k)'
               /\ writes' = writes \cup {[change |-> k, cookie |-> job[r].cookie.c,
                                          at |-> job[r].cookie.at]}
               /\ job'[r].at = "written" /\ job'[r].change = k /\ job'[r].cookie = job[r].cookie
               /\ \A q \in Requests : q # r => job'[q] = job[q]
<1> DEFINE a == job[r].change.action
<1>1. PICK n \in Nat :
          LET k == [action |-> a, target |-> n]
          IN /\ a \in Actions /\ k \in Change
             /\ a = "policy.save" => n = policy + 1 /\ policy' = n /\ tokens' = tokens
             /\ a = "token.issue" => n = Len(tokens) + 1 /\ tokens' = Append(tokens, "live")
                                     /\ policy' = policy
             /\ a = "token.revoke" => tokens' = [tokens EXCEPT ![n] = "revoked"]
                                      /\ policy' = policy
             /\ writes' = writes \cup {[change |-> k, cookie |-> job[r].cookie.c,
                                        at |-> job[r].cookie.at]}
             /\ job' = [q \in Requests |-> job'[q]]
             /\ \A q \in Requests : q # r => job'[q] = job[q]
             /\ job'[r].at = "written" /\ job'[r].change = k
             /\ job'[r].cookie = job[r].cookie
             /\ DOMAIN job'[r] = {"at", "link", "cookie", "change"}
  BY ApplyIs
<1>2. PICK k \in Change : k = [action |-> a, target |-> n] /\ k.action = a /\ k.target = n
  BY <1>1
<1>3. policy \in Nat /\ tokens \in Seq({"live", "revoked"}) /\ Len(tokens) \in Nat
  BY DEF Types, Tables
<1>4. a \in {"policy.save", "token.issue", "token.revoke"}
  BY <1>1 DEF Actions
<1> HIDE DEF a
<1>5. policy' \in Nat /\ policy' >= policy /\ (a = "policy.save" => n <= policy')
  BY <1>1, <1>3, <1>4
<1>6. Len(tokens') \in Nat /\ Len(tokens') >= Len(tokens) /\ (a = "token.issue" => n <= Len(tokens'))
  <2>1. CASE a = "policy.save"
    BY <1>1, <1>3, <2>1
  <2>2. CASE a = "token.issue"
    <3>1. tokens' = Append(tokens, "live") /\ n = Len(tokens) + 1
      BY <1>1, <2>2
    <3>2. Len(Append(tokens, "live")) = Len(tokens) + 1
      BY <1>3
    <3>3. QED
      BY <1>3, <3>1, <3>2
  <2>3. CASE a = "token.revoke"
    <3>1. tokens' = [tokens EXCEPT ![n] = "revoked"]
      BY <1>1, <2>3
    <3>2. tokens' \in Seq({"live", "revoked"}) /\ DOMAIN tokens' = DOMAIN tokens
      BY <1>3, <3>1, RowReplaced
    <3>3. Len(tokens') = Len(tokens)
      BY <1>3, <3>2
    <3>4. QED
      BY <1>3, <2>3, <3>3
  <2>4. QED
    BY <1>4, <2>1, <2>2, <2>3
<1>7. Numbered(k)'
  BY <1>2, <1>5, <1>6 DEF Numbered
<1>8. ASSUME NEW w \in writes
      PROVE  Differ(k, w.change) /\ Differ(w.change, k) /\ Numbered(w.change)'
  <2>1. Numbered(w.change)
    BY DEF Logging
  <2>2. w.change.target \in Nat
    BY <2>1 DEF Numbered, Change
  <2>3. Numbered(w.change)'
    BY <1>3, <1>5, <1>6, <2>1, <2>2 DEF Numbered
  <2>4. k = w.change => a = "token.revoke"
    <3> SUFFICES ASSUME k = w.change, a # "token.revoke" PROVE FALSE
      OBVIOUS
    <3>1. CASE a = "policy.save"
      BY <1>1, <1>2, <1>3, <2>1, <3>1 DEF Numbered
    <3>2. CASE a = "token.issue"
      BY <1>1, <1>2, <1>3, <2>1, <3>2 DEF Numbered
    <3>3. QED
      BY <1>4, <3>1, <3>2
  <2>5. QED
    BY <1>2, <2>3, <2>4 DEF Differ
<1>9. /\ job'[r].change = k
      /\ writes' = writes \cup {[change |-> k, cookie |-> job[r].cookie.c, at |-> job[r].cookie.at]}
  BY <1>1, <1>2
<1>10. QED
  BY <1>1, <1>7, <1>8, <1>9

LEMMA WriteLogs ==
    ASSUME Types, Logging, NEW r \in Requests, Write(r)
    PROVE  Logging'
<1>1. PICK k \in Change :
          /\ \A w \in writes : Differ(k, w.change) /\ Differ(w.change, k)
          /\ \A w \in writes : Numbered(w.change)'
          /\ Numbered(k)'
          /\ writes' = writes \cup {[change |-> k, cookie |-> job[r].cookie.c,
                                     at |-> job[r].cookie.at]}
          /\ job'[r].at = "written" /\ job'[r].change = k /\ job'[r].cookie = job[r].cookie
          /\ \A q \in Requests : q # r => job'[q] = job[q]
  BY WriteIsNew
<1> DEFINE new == [change |-> k, cookie |-> job[r].cookie.c, at |-> job[r].cookie.at]
<1>2. UNCHANGED <<rows, lost>> /\ ~ AtItsRow(r)
  BY DEF Write, At, AtItsRow
<1>3. new.change = k /\ new.cookie = job[r].cookie.c /\ writes' = writes \cup {new}
  BY <1>1
<1> HIDE DEF new
<1>4. \A q \in Requests : AtItsRow(q)' => q = r \/ (AtItsRow(q) /\ q # r /\ job'[q] = job[q])
  BY <1>1 DEF AtItsRow
<1>5. lost' \subseteq writes' /\ \A w \in writes' : Numbered(w.change)'
  BY <1>1, <1>2, <1>3 DEF Logging
<1>6. \A q \in Requests : AtItsRow(q)' =>
          \E w \in writes' : w.change = job'[q].change /\ w.cookie = job'[q].cookie.c
  BY <1>1, <1>3, <1>4 DEF Logging
<1>7. RowsTrue'
  BY <1>2, <1>3 DEF Logging, RowsTrue
<1>8. RowsDiffer'
  <2>1. \A i \in DOMAIN rows : Differ(rows[i].change, k)
    BY <1>1 DEF Logging, RowsTrue
  <2>2. \A q \in Requests : AtItsRow(q) => Differ(k, job[q].change) /\ Differ(job[q].change, k)
    BY <1>1 DEF Logging
  <2>3. \A q \in Requests : AtItsRow(q)' => \A i \in DOMAIN rows' : Differ(rows'[i].change, job'[q].change)
    BY <1>1, <1>2, <1>4, <2>1 DEF Logging, RowsDiffer
  <2>4. ASSUME NEW q \in Requests, NEW p \in Requests, AtItsRow(q)', AtItsRow(p)', p # q
        PROVE  Differ(job'[q].change, job'[p].change)
    <3>1. CASE q = r
      BY <1>1, <1>4, <2>2, <2>4, <3>1
    <3>2. CASE p = r
      BY <1>1, <1>4, <2>2, <2>4, <3>2
    <3>3. CASE q # r /\ p # r
      BY <1>4, <2>4, <3>3 DEF Logging, RowsDiffer
    <3>4. QED
      BY <3>1, <3>2, <3>3
  <2>5. \A i, j \in DOMAIN rows' : i # j => Differ(rows'[i].change, rows'[j].change)
    BY <1>2 DEF Logging, RowsDiffer
  <2>6. QED
    BY <2>3, <2>4, <2>5 DEF RowsDiffer
<1>9. RowsComplete'
  <2>1. \A q \in Requests : \A w \in Unlogged(q) : w \in Unlogged(q)'
    BY <1>1, <1>2, <1>3 DEF Unlogged, At, AtItsRow
  <2>2. new \in Unlogged(r)'
    BY <1>1, <1>3 DEF Unlogged, At
  <2>3. \A w : HasRow(w) => HasRow(w)'
    BY <1>2 DEF HasRow
  <2>4. QED
    BY <1>2, <1>3, <2>1, <2>2, <2>3 DEF Logging, RowsComplete
<1>10. QED
  BY <1>5, <1>6, <1>7, <1>8, <1>9 DEF Logging

LEMMA LogLogs ==
    ASSUME Types, Logging, NEW r \in Requests, logAdminAction(r)
    PROVE  Logging'
<1> DEFINE n == Len(rows) + 1
<1>1. rows' = Append(rows, Row(r)) /\ Exit(r) /\ AtItsRow(r)
      /\ UNCHANGED <<policy, tokens, writes, lost>>
  BY DEF logAdminAction, At, AtItsRow
<1>2. Row(r).change = job[r].change /\ Row(r).email = job[r].cookie.c.email
  BY DEF Row
<1>3. rows \in Seq(LogRow)
  BY DEF Types, Tables
<1>4. /\ DOMAIN rows' = DOMAIN rows \cup {n} /\ n \notin DOMAIN rows /\ rows'[n] = Row(r)
      /\ \A i \in DOMAIN rows : rows'[i] = rows[i]
  BY <1>1, <1>3
<1> HIDE DEF n
<1>5. \A q \in Requests : AtItsRow(q)' => q # r /\ AtItsRow(q) /\ job'[q] = job[q]
  BY <1>1, ExitMoves DEF Types, AtItsRow, Idle
<1>6. lost' \subseteq writes' /\ \A w \in writes' : Numbered(w.change)'
  BY <1>1 DEF Logging, Numbered
<1>7. \A q \in Requests : AtItsRow(q)' =>
          \E w \in writes' : w.change = job'[q].change /\ w.cookie = job'[q].cookie.c
  BY <1>1, <1>5 DEF Logging
<1>8. RowsTrue'
  BY <1>1, <1>2, <1>4 DEF Logging, RowsTrue
<1>9. RowsDiffer'
  <2>1. ASSUME NEW i \in DOMAIN rows', NEW j \in DOMAIN rows', i # j
        PROVE  Differ(rows'[i].change, rows'[j].change)
    <3>1. CASE i \in DOMAIN rows /\ j \in DOMAIN rows
      BY <1>4, <2>1, <3>1 DEF Logging, RowsDiffer
    <3>2. CASE i \in DOMAIN rows /\ j = n
      BY <1>1, <1>2, <1>4, <3>2 DEF Logging, RowsDiffer
    <3>3. CASE i = n /\ j \in DOMAIN rows
      <4>1. Differ(rows[j].change, job[r].change)
        BY <1>1, <3>3 DEF Logging, RowsDiffer
      <4>2. QED
        BY <1>2, <1>4, <3>3, <4>1 DEF Differ
    <3>4. QED
      BY <1>4, <2>1, <3>1, <3>2, <3>3
  <2>2. ASSUME NEW q \in Requests, AtItsRow(q)', NEW i \in DOMAIN rows'
        PROVE  Differ(rows'[i].change, job'[q].change)
    <3>1. q # r /\ AtItsRow(q) /\ job'[q] = job[q]
      BY <1>5, <2>2
    <3>2. CASE i \in DOMAIN rows
      BY <1>4, <3>1, <3>2 DEF Logging, RowsDiffer
    <3>3. CASE i = n
      BY <1>1, <1>2, <1>4, <3>1, <3>3 DEF Logging, RowsDiffer
    <3>4. QED
      BY <1>4, <3>2, <3>3
  <2>3. \A p, q \in Requests : AtItsRow(p)' /\ AtItsRow(q)' /\ q # p => Differ(job'[p].change, job'[q].change)
    BY <1>5 DEF Logging, RowsDiffer
  <2>4. QED
    BY <2>1, <2>2, <2>3 DEF RowsDiffer
<1>10. RowsComplete'
  <2>1. \A q \in Requests : q # r => Unlogged(q)' = Unlogged(q)
    BY <1>1, ExitMoves DEF Types, Unlogged, At
  <2>2. \A w \in Unlogged(r) : HasRow(w)'
    BY <1>2, <1>4 DEF Unlogged, HasRow
  <2>3. \A w : HasRow(w) => HasRow(w)'
    BY <1>4 DEF HasRow
  <2>4. QED
    BY <1>1, <2>1, <2>2, <2>3 DEF Logging, RowsComplete
<1>11. QED
  BY <1>6, <1>7, <1>8, <1>9, <1>10 DEF Logging

\* Requests end, and the writes of those at their row are lost to the log.
LEMMA EndsLog ==
    ASSUME Logging, NEW R \in SUBSET Requests, UNCHANGED <<writes, rows, policy, tokens>>,
           lost' = lost \cup UNION {Unlogged(r) : r \in R},
           \A q \in Requests : q \notin R => job'[q] = job[q],
           \A q \in R : ~ AtItsRow(q)'
    PROVE  Logging'
<1>1. \A q \in Requests : AtItsRow(q)' => AtItsRow(q) /\ job'[q] = job[q] /\ q \notin R
  BY DEF AtItsRow
<1>2. lost' \subseteq writes'
  BY DEF Logging, Unlogged
<1>3. RowsTrue' /\ RowsDiffer'
  BY <1>1 DEF Logging, RowsTrue, RowsDiffer
<1>4. \A q \in Requests \ R : Unlogged(q)' = Unlogged(q)
  BY DEF Unlogged, At
<1>5. RowsComplete'
  BY <1>4 DEF Logging, RowsComplete, HasRow
<1>6. QED
  BY <1>1, <1>2, <1>3, <1>5 DEF Logging, Numbered

LEMMA LoggingStep ==
    ASSUME Types, Logging, [AccountsNext]_accountsVars
    PROVE  Logging'
<1>1. ASSUME NEW r \in Requests, send(r) \/ mintSession(r) PROVE Logging'
  <2>1. Exit(r) /\ ~ AtItsRow(r) /\ UNCHANGED <<writes, rows, lost, policy, tokens>>
    BY <1>1 DEF send, mintSession, admin, AtItsRow, At
  <2>2. QED
    BY <2>1, ExitMoves, LoggingKept DEF Types, AtItsRow, Idle
<1>2. ASSUME NEW r \in Requests, NEW e \in Emails, issue(r, e) PROVE Logging'
  <2>1. job' = [job EXCEPT ![r] = [Idle EXCEPT !.at = "issued", !.link = Len(links) + 1]]
        /\ ~ AtItsRow(r) /\ UNCHANGED <<writes, rows, lost, policy, tokens>>
    BY <1>2 DEF issue, admin, AtItsRow, At
  <2>2. job'[r].at = "issued" /\ \A q \in Requests : q # r => job'[q] = job[q]
    BY <2>1 DEF Types, JobsShaped, Idle
  <2>3. QED
    BY <2>1, <2>2, LoggingKept DEF AtItsRow
<1>3. ASSUME NEW r \in Requests, NEW l \in DOMAIN links, verify(r, l) PROVE Logging'
  <2>1. job' = [job EXCEPT ![r] = [Idle EXCEPT !.at = "verified", !.link = l]]
        /\ ~ AtItsRow(r) /\ UNCHANGED <<writes, rows, lost, policy, tokens>>
    BY <1>3 DEF verify, admin, AtItsRow, At
  <2>2. job'[r].at = "verified" /\ \A q \in Requests : q # r => job'[q] = job[q]
    BY <2>1 DEF Types, JobsShaped, Idle
  <2>3. QED
    BY <2>1, <2>2, LoggingKept DEF AtItsRow
<1>4. ASSUME NEW r \in Requests, NEW c \in cookies, NEW a \in Actions, NEW n \in Nat, Begin(r, c, a, n)
      PROVE  Logging'
  <2>1. job' = [job EXCEPT ![r] = [Idle EXCEPT !.at = "allowed", !.cookie = [c |-> c, at |-> now],
                                              !.change = [action |-> a, target |-> n]]]
        /\ ~ AtItsRow(r) /\ UNCHANGED <<writes, rows, lost, policy, tokens>>
    BY <1>4 DEF Begin, admin, AtItsRow, At
  <2>2. job'[r].at = "allowed" /\ \A q \in Requests : q # r => job'[q] = job[q]
    BY <2>1 DEF Types, JobsShaped, Idle
  <2>3. QED
    BY <2>1, <2>2, LoggingKept DEF AtItsRow
<1>5. ASSUME NEW r \in Requests, FailRequest(r) PROVE Logging'
  <2>1. Exit(r) /\ lost' = lost \cup Unlogged(r) /\ UNCHANGED <<policy, tokens, rows, writes>>
    BY <1>5 DEF FailRequest
  <2>2. lost' = lost \cup UNION {Unlogged(q) : q \in {r}}
    BY <2>1
  <2>3. ~ AtItsRow(r)' /\ \A q \in Requests : q # r => job'[q] = job[q]
    BY <2>1, ExitMoves DEF Types, AtItsRow, Idle
  <2>4. {r} \in SUBSET Requests
    OBVIOUS
  <2>5. (\A q \in Requests : q \notin {r} => job'[q] = job[q]) /\ \A q \in {r} : ~ AtItsRow(q)'
    BY <2>3
  <2>6. QED
    BY <2>1, <2>2, <2>4, <2>5, EndsLog
<1>6. CASE Restart
  <2>1. lost' = lost \cup UNION {Unlogged(r) : r \in Requests} /\ job' = [r \in Requests |-> Idle]
        /\ UNCHANGED <<policy, tokens, rows, writes>>
    BY <1>6 DEF Restart
  <2>2. \A q \in Requests : ~ AtItsRow(q)'
    BY <2>1 DEF AtItsRow, Idle
  <2>3. Requests \in SUBSET Requests
    OBVIOUS
  <2>4. QED
    BY <2>1, <2>2, <2>3, EndsLog
<1>7. CASE (Operates /\ ~ Restart) \/ \E e \in Emails : Denied(e)
  <2>1. UNCHANGED <<writes, rows, lost, policy, tokens, job>>
    BY <1>7 DEF Operates, RotateSecret, Tick, SetBack, SetRole, Denied, accountsVars, admin
  <2>2. QED
    BY <2>1, LoggingKept DEF AtItsRow
<1>8. QED
  BY <1>1, <1>2, <1>3, <1>4, <1>5, <1>6, <1>7, Steps, WriteLogs, LogLogs DEF Step

-----------------------------------------------------------------------------
(* The limiter.  What it keeps of an email are the times of the links that  *)
(* are young enough, one hit for each, in the order they were issued.       *)

LinksOf(e) == {l \in DOMAIN links : links[l].email = e}
Within(e, t) == {l \in DOMAIN links : links[l].email = e /\ Issued(l) <= t /\ t <= Issued(l) + Window}

\* f names the link of each hit.
Names(f, h, e) ==
    /\ f \in [1..Len(h) -> LinksOf(e)]
    /\ \A i, j \in 1..Len(h) : f[i] = f[j] => i = j
    /\ \A i \in 1..Len(h) : Issued(f[i]) = h[i]
    /\ \A l \in LinksOf(e) : Issued(l) + Window >= now => \E i \in 1..Len(h) : f[i] = l

Sorted(h) == \A i, j \in 1..Len(h) : i <= j => h[i] <= h[j]

Records(h, e) == h \in Seq(Nat) /\ Sorted(h) /\ \E f : Names(f, h, e)

Limited ==
    /\ \A l \in DOMAIN links : Issued(l) \in Nat
    /\ ~ disturbed =>
           /\ \A l \in DOMAIN links : Issued(l) <= now
           /\ \A e \in Emails : Records(hits[e], e)
           /\ \A e \in Emails : \A t \in 0..now : IssuedWithin(e, t) <= Max

LEMMA LinksFinite ==
    ASSUME Types, NEW e, NEW t
    PROVE  IsFiniteSet(Within(e, t)) /\ Cardinality(Within(e, t)) \in Nat
           /\ IssuedWithin(e, t) = Cardinality(Within(e, t))
<1>1. Within(e, t) \subseteq 1..Len(links) /\ Len(links) \in Nat
  BY DEF Within, Types, Tables
<1>2. IsFiniteSet(1..Len(links))
  BY <1>1, FS_Interval
<1>3. IssuedWithin(e, t) = Cardinality(Within(e, t))
  BY DEF IssuedWithin, Within
<1>4. IsFiniteSet(Within(e, t))
  BY <1>1, <1>2, FS_Subset
<1>5. QED
  BY <1>3, <1>4, FS_CardinalityType

\* The hits that are young enough are the last ones.
LEMMA InsideIsSuffix ==
    ASSUME now \in Nat, NEW e \in Emails, hits[e] \in Seq(Nat), Sorted(hits[e]),
           NEW m \in Inside(e), \A j \in Inside(e) : m <= j
    PROVE  m \in 1..Len(hits[e]) /\ Inside(e) = m..Len(hits[e])
<1>1. DOMAIN hits[e] = 1..Len(hits[e]) /\ Len(hits[e]) \in Nat
  OBVIOUS
<1>2. \A i \in 1..Len(hits[e]) : hits[e][i] \in Nat
  BY <1>1
<1>3. m \in 1..Len(hits[e]) /\ hits[e][m] + Window >= now
  BY <1>1 DEF Inside
<1>4. ASSUME NEW i \in m..Len(hits[e]) PROVE i \in Inside(e)
  <2>1. i \in 1..Len(hits[e]) /\ hits[e][m] <= hits[e][i]
    BY <1>1, <1>3 DEF Sorted
  <2>2. hits[e][i] + Window >= now
    BY <1>2, <1>3, <2>1, LimitAssumption DEF LimitAssumption
  <2>3. QED
    BY <1>1, <2>1, <2>2 DEF Inside
<1>5. Inside(e) \subseteq m..Len(hits[e])
  BY <1>1 DEF Inside
<1>6. m..Len(hits[e]) \subseteq Inside(e)
  BY <1>4
<1>7. Inside(e) = m..Len(hits[e])
  BY <1>5, <1>6, Zenon
<1>8. QED
  BY <1>3, <1>7

LEMMA PrunedIs ==
    ASSUME NEW e \in Emails, hits[e] \in Seq(Nat), NEW m \in 1..Len(hits[e]),
           Pruned(e) = SubSeq(hits[e], m, Len(hits[e]))
    PROVE  /\ Pruned(e) \in Seq(Nat) /\ Len(Pruned(e)) = Len(hits[e]) - m + 1
           /\ \A i \in 1..Len(Pruned(e)) : m + i - 1 \in m..Len(hits[e])
                                           /\ Pruned(e)[i] = hits[e][m + i - 1]
<1> DEFINE h == hits[e]
<1>1. h \in Seq(Nat) /\ Len(h) \in Nat
  OBVIOUS
<1> HIDE DEF h
<1>2. m \in Int /\ m <= Len(h) /\ m \in 1..Len(h) /\ \A i \in m..Len(h) : h[i] \in Nat
  BY <1>1 DEF h
<1>3. /\ SubSeq(h, m, Len(h)) \in Seq(Nat) /\ Len(SubSeq(h, m, Len(h))) = Len(h) - m + 1
      /\ \A i \in 1..(Len(h) - m + 1) : SubSeq(h, m, Len(h))[i] = h[m + i - 1]
  BY <1>1, <1>2, SubSeqProperties
<1>4. \A i \in 1..(Len(h) - m + 1) : m + i - 1 \in m..Len(h)
  BY <1>1, <1>2
<1>5. QED
  BY <1>3, <1>4 DEF h

\* As many hits are young enough as links were issued in the window up to now.
LEMMA PrunedCounts ==
    ASSUME Types, Limited, ~ disturbed, NEW e \in Emails
    PROVE  Len(Pruned(e)) = IssuedWithin(e, now)
<1> DEFINE h == hits[e]
<1>1. Records(h, e)
  BY DEF Limited
<1>2. PICK f : Names(f, h, e)
  BY <1>1 DEF Records
<1>3. h \in Seq(Nat) /\ Sorted(h) /\ now \in Nat /\ DOMAIN h = 1..Len(h) /\ Len(h) \in Nat
  BY <1>1 DEF Records, Types, Tables
<1>4. \A l \in LinksOf(e) : Issued(l) <= now /\ l \in DOMAIN links /\ links[l].email = e
  BY DEF Limited, LinksOf
<1>5. ASSUME NEW l \in Within(e, now) PROVE \E i \in Inside(e) : f[i] = l
  <2>1. l \in LinksOf(e) /\ Issued(l) + Window >= now
    <3>1. Issued(l) \in Nat /\ now <= Issued(l) + Window
      BY DEF Within, Limited
    <3>2. QED
      BY <1>3, <3>1, LimitAssumption DEF LimitAssumption, Within, LinksOf
  <2>2. PICK i \in 1..Len(h) : f[i] = l
    BY <1>2, <2>1 DEF Names
  <2>3. h[i] = Issued(l)
    BY <1>2, <2>2 DEF Names
  <2>4. i \in Inside(e)
    BY <1>3, <2>1, <2>3 DEF Inside
  <2>5. QED
    BY <2>2, <2>4
<1>6. ASSUME NEW i \in Inside(e) PROVE i \in 1..Len(h) /\ f[i] \in Within(e, now)
  <2>1. i \in 1..Len(h) /\ h[i] + Window >= now /\ h[i] \in Nat
    BY <1>3 DEF Inside
  <2>2. f[i] \in LinksOf(e) /\ Issued(f[i]) = h[i]
    BY <1>2, <2>1 DEF Names
  <2>3. Issued(f[i]) <= now /\ now <= Issued(f[i]) + Window
    BY <1>3, <1>4, <2>1, <2>2, LimitAssumption DEF LimitAssumption
  <2>4. QED
    BY <1>4, <2>1, <2>2, <2>3 DEF Within
<1>7. CASE Inside(e) = {} /\ Pruned(e) = <<>>
  <2>1. Within(e, now) = {}
    BY <1>5, <1>7
  <2>2. QED
    BY <1>7, <2>1, FS_EmptySet, LinksFinite
<1>8. ASSUME NEW m \in Inside(e), \A j \in Inside(e) : m <= j, Pruned(e) = SubSeq(h, m, Len(h))
      PROVE  Len(Pruned(e)) = IssuedWithin(e, now)
  <2>1. m \in 1..Len(h) /\ Inside(e) = m..Len(h)
    BY <1>3, <1>8, InsideIsSuffix
  <2>2. Len(Pruned(e)) = Len(h) - m + 1
    BY <1>3, <1>8, <2>1, PrunedIs
  <2> DEFINE g == [i \in Inside(e) |-> f[i]]
  <2>3. g \in [Inside(e) -> Within(e, now)]
    BY <1>6
  <2>4. \A i, j \in Inside(e) : g[i] = g[j] => i = j
    BY <1>2, <1>6 DEF Names
  <2>5. \A l \in Within(e, now) : \E i \in Inside(e) : g[i] = l
    BY <1>5
  <2>6. DOMAIN g = Inside(e)
    OBVIOUS
  <2> HIDE DEF g
  <2>7. g \in Bijection(Inside(e), Within(e, now))
    BY <2>3, <2>4, <2>5, <2>6 DEF Bijection, Injection, Surjection, IsInjective
  <2>8. ExistsBijection(Inside(e), Within(e, now))
    BY <2>7 DEF ExistsBijection
  <2>9. IsFiniteSet(Inside(e)) /\ Cardinality(Inside(e)) = Len(h) - m + 1
    <3>1. m \in Int /\ Len(h) \in Int /\ m <= Len(h)
      BY <1>3, <2>1
    <3>2. IsFiniteSet(m..Len(h)) /\ Cardinality(m..Len(h)) = IF m > Len(h) THEN 0 ELSE Len(h) - m + 1
      BY <3>1, FS_Interval
    <3>3. QED
      BY <2>1, <3>1, <3>2
  <2>10. Cardinality(Within(e, now)) = Cardinality(Inside(e))
    BY <2>8, <2>9, FS_Bijection
  <2>11. QED
    BY <2>2, <2>9, <2>10, LinksFinite
<1>9. QED
  BY <1>3, <1>7, <1>8, PrunedFrom

\* Pruning forgets no link that is young enough.
LEMMA PrunedRecords ==
    ASSUME Types, NEW e \in Emails, Records(hits[e], e)
    PROVE  Records(Pruned(e), e)
<1> DEFINE h == hits[e]
<1>1. h \in Seq(Nat) /\ Sorted(h) /\ now \in Nat /\ DOMAIN h = 1..Len(h) /\ Len(h) \in Nat
  BY DEF Records, Types, Tables
<1>2. PICK f : Names(f, h, e)
  BY DEF Records
<1>3. ASSUME NEW l \in LinksOf(e), Issued(l) + Window >= now PROVE \E i \in Inside(e) : f[i] = l
  <2>1. PICK i \in 1..Len(h) : f[i] = l
    BY <1>2, <1>3 DEF Names
  <2>2. h[i] = Issued(l)
    BY <1>2, <2>1 DEF Names
  <2>3. i \in Inside(e)
    BY <1>1, <1>3, <2>2 DEF Inside
  <2>4. QED
    BY <2>1, <2>3
<1>4. CASE Inside(e) = {} /\ Pruned(e) = <<>>
  <2>1. \A l \in LinksOf(e) : ~ (Issued(l) + Window >= now)
    BY <1>3, <1>4
  <2>2. <<>> \in Seq(Nat) /\ Len(<<>>) = 0 /\ 1..0 = {}
    OBVIOUS
  <2>3. Names([i \in {} |-> e], <<>>, e)
    BY <2>1, <2>2 DEF Names
  <2>4. QED
    BY <1>4, <2>2, <2>3 DEF Records, Sorted
<1>5. ASSUME NEW m \in Inside(e), \A j \in Inside(e) : m <= j, Pruned(e) = SubSeq(h, m, Len(h))
      PROVE  Records(Pruned(e), e)
  <2> DEFINE p == Pruned(e)
             g == [i \in 1..Len(p) |-> f[m + i - 1]]
  <2>1. m \in 1..Len(h) /\ Inside(e) = m..Len(h)
    BY <1>1, <1>5, InsideIsSuffix
  <2>2. /\ p \in Seq(Nat) /\ Len(p) = Len(h) - m + 1
        /\ \A i \in 1..Len(p) : m + i - 1 \in m..Len(h) /\ p[i] = h[m + i - 1]
    BY <1>1, <1>5, <2>1, PrunedIs
  <2> HIDE DEF p, h
  <2>3. \A i \in 1..Len(p) : m + i - 1 \in 1..Len(h)
    BY <1>1, <2>1, <2>2
  <2>4. Sorted(p)
    <3> SUFFICES ASSUME NEW i \in 1..Len(p), NEW j \in 1..Len(p), i <= j PROVE p[i] <= p[j]
      BY DEF Sorted
    <3>1. m + i - 1 <= m + j - 1
      BY <2>1
    <3>2. QED
      BY <1>1, <2>2, <2>3, <3>1 DEF Sorted
  <2>5. g \in [1..Len(p) -> LinksOf(e)]
    BY <1>2, <2>3 DEF Names
  <2>6. \A i \in 1..Len(p) : Issued(g[i]) = p[i]
    BY <1>2, <2>2, <2>3 DEF Names
  <2>7. ASSUME NEW i \in 1..Len(p), NEW j \in 1..Len(p), g[i] = g[j] PROVE i = j
    <3>1. m + i - 1 = m + j - 1
      BY <1>2, <2>3, <2>7 DEF Names
    <3>2. QED
      BY <2>1, <3>1
  <2>8. ASSUME NEW l \in LinksOf(e), Issued(l) + Window >= now PROVE \E i \in 1..Len(p) : g[i] = l
    <3>1. PICK k \in m..Len(h) : f[k] = l
      BY <1>3, <2>1, <2>8
    <3>2. k - m + 1 \in 1..Len(p) /\ m + (k - m + 1) - 1 = k
      BY <1>1, <2>1, <2>2, <3>1
    <3>3. g[k - m + 1] = l
      BY <3>1, <3>2
    <3>4. QED
      BY <3>2, <3>3
  <2> HIDE DEF g
  <2>9. Names(g, p, e)
    BY <2>5, <2>6, <2>7, <2>8 DEF Names
  <2>10. QED
    BY <2>2, <2>4, <2>9 DEF Records, p
<1>6. QED
  BY <1>1, <1>4, <1>5, PrunedFrom

\* What is recorded stays recorded as long as the links are there and the clock is
\* not set back.
LEMMA RecordsKept ==
    ASSUME now \in Nat, now' \in Nat, now <= now', NEW e, NEW h, Records(h, e),
           LinksOf(e)' = LinksOf(e), \A l \in LinksOf(e) : Issued(l)' = Issued(l) /\ Issued(l) \in Nat
    PROVE  Records(h, e)'
<1>1. PICK f : Names(f, h, e)
  BY DEF Records
<1>2. \A l \in LinksOf(e) : Issued(l) + Window >= now' => Issued(l) + Window >= now
  BY LimitAssumption DEF LimitAssumption
<1>3. Names(f, h, e)'
  <2>1. f \in [1..Len(h) -> LinksOf(e)'] /\ \A i, j \in 1..Len(h) : f[i] = f[j] => i = j
    BY <1>1 DEF Names
  <2>2. \A i \in 1..Len(h) : Issued(f[i])' = h[i]
    BY <1>1 DEF Names
  <2>3. \A l \in LinksOf(e)' : Issued(l)' + Window >= now' => \E i \in 1..Len(h) : f[i] = l
    BY <1>1, <1>2 DEF Names
  <2>4. QED
    BY <2>1, <2>2, <2>3 DEF Names
<1>4. QED
  BY <1>3 DEF Records, Sorted

\* The same links at the same or a later time.
LEMMA LimitedKept ==
    ASSUME Types, Types', Limited, disturbed' = disturbed, now <= now', DOMAIN links' = DOMAIN links,
           \A l \in DOMAIN links : links'[l].email = links[l].email /\ Issued(l)' = Issued(l),
           \A e \in Emails : Records(hits[e], e) => Records(hits'[e], e),
           now' = now \/ now' = now + 1
    PROVE  Limited'
<1>1. \A e : LinksOf(e)' = LinksOf(e) /\ \A l \in LinksOf(e) : Issued(l)' = Issued(l) /\ Issued(l) \in Nat
  BY DEF LinksOf, Limited
<1>2. now \in Nat /\ now' \in Nat
  BY DEF Types, Tables
<1>3. \A e, t : Within(e, t)' = Within(e, t)
  BY DEF Within
<1> SUFFICES ASSUME ~ disturbed
             PROVE  /\ \A l \in DOMAIN links' : Issued(l)' <= now'
                    /\ \A e \in Emails : Records(hits[e], e)'
                    /\ \A e \in Emails : \A t \in 0..now' : IssuedWithin(e, t)' <= Max
  BY DEF Limited
<1>4. \A l \in DOMAIN links' : Issued(l)' <= now'
  BY <1>2 DEF Limited
<1>5. ASSUME NEW e \in Emails PROVE Records(hits[e], e)'
  <2>1. Records(hits'[e], e)
    BY DEF Limited
  <2>2. \A h : Records(h, e) => Records(h, e)'
    BY <1>1, <1>2, RecordsKept
  <2>3. PICK h : h = hits'[e]
    OBVIOUS
  <2>4. Records(h, e)'
    BY <2>1, <2>2, <2>3
  <2>5. QED
    BY <2>3, <2>4
<1>6. ASSUME NEW e \in Emails, NEW t \in 0..now' PROVE IssuedWithin(e, t)' <= Max
  <2>1. IssuedWithin(e, t)' = IssuedWithin(e, t)
    BY <1>3 DEF IssuedWithin, Within
  <2>2. CASE t \in 0..now
    BY <2>1, <2>2 DEF Limited
  <2>3. CASE t = now + 1
    <3>1. Within(e, t) \subseteq Within(e, now)
      <4> SUFFICES ASSUME NEW l \in Within(e, t) PROVE l \in Within(e, now)
        OBVIOUS
      <4>1. l \in DOMAIN links /\ links[l].email = e /\ t <= Issued(l) + Window
        BY DEF Within
      <4>2. Issued(l) \in Nat /\ Issued(l) <= now
        BY <4>1 DEF Limited
      <4>3. now <= Issued(l) + Window
        BY <1>2, <2>3, <4>1, <4>2, LimitAssumption DEF LimitAssumption
      <4>4. QED
        BY <4>1, <4>2, <4>3 DEF Within
    <3>2. Cardinality(Within(e, t)) <= Cardinality(Within(e, now))
      BY <3>1, LinksFinite, FS_Subset
    <3>3. now \in 0..now
      BY <1>2
    <3>4. IssuedWithin(e, now) <= Max
      BY <3>3 DEF Limited
    <3>5. Cardinality(Within(e, t)) \in Nat /\ Cardinality(Within(e, now)) \in Nat
          /\ IssuedWithin(e, t) = Cardinality(Within(e, t))
          /\ IssuedWithin(e, now) = Cardinality(Within(e, now))
      BY LinksFinite
    <3>6. QED
      BY <2>1, <3>2, <3>4, <3>5, LimitAssumption DEF LimitAssumption
  <2>4. QED
    BY <1>2, <2>2, <2>3
<1>7. QED
  BY <1>4, <1>5, <1>6

\* A link more: it takes a hit of its own, and there was room for it.
LEMMA IssueLimited ==
    ASSUME Types, Limited, NEW r \in Requests, NEW e \in Emails, issue(r, e)
    PROVE  Limited'
<1>0. PICK n : n = Len(links) + 1
  OBVIOUS
<1> DEFINE link == [email |-> e, expiresAt |-> now + LinkTtl, consumedAt |-> Nothing]
           p == Pruned(e)
<1>1. /\ links' = Append(links, link) /\ hits' = [hits EXCEPT ![e] = Append(p, now)]
      /\ Len(p) < Max /\ UNCHANGED <<now, disturbed>>
  BY DEF issue, check, bounds
<1>2. now \in Nat /\ links \in Seq(Link) /\ hits \in [Emails -> Seq(0..MaxTime)]
  BY DEF Types, Tables
<1>3. link \in Link /\ link.email = e /\ link.expiresAt - LinkTtl = now
  BY <1>2, LifetimesAssumption DEF LifetimesAssumption, Link
<1> HIDE DEF link
<1>4. /\ DOMAIN links' = DOMAIN links \cup {n} /\ n \notin DOMAIN links
      /\ \A l \in DOMAIN links : links'[l] = links[l] /\ l # n
      /\ links'[n] = link
  BY <1>0, <1>1, <1>2, <1>3
<1> HIDE DEF p
<1>5. Issued(n)' = now /\ \A l \in DOMAIN links : Issued(l)' = Issued(l)
  BY <1>3, <1>4 DEF Issued
<1>6. \A l \in DOMAIN links' : Issued(l)' \in Nat
  BY <1>2, <1>4, <1>5 DEF Limited
<1> SUFFICES ASSUME ~ disturbed
             PROVE  /\ \A l \in DOMAIN links' : Issued(l)' <= now
                    /\ \A d \in Emails : Records(hits[d], d)'
                    /\ \A d \in Emails : \A t \in 0..now : IssuedWithin(d, t)' <= Max
  BY <1>1, <1>6 DEF Limited
<1>7. \A l \in DOMAIN links' : Issued(l)' <= now
  BY <1>2, <1>4, <1>5 DEF Limited
<1>8. ASSUME NEW d \in Emails, d # e PROVE Records(hits[d], d)'
  <2>1. LinksOf(d)' = LinksOf(d) /\ \A l \in LinksOf(d) : Issued(l)' = Issued(l) /\ Issued(l) \in Nat
    BY <1>3, <1>4, <1>5, <1>8 DEF LinksOf, Limited
  <2>2. PICK h : h = hits[d]
    OBVIOUS
  <2>3. Records(h, d) /\ hits'[d] = h
    BY <1>1, <1>2, <1>8, <2>2 DEF Limited
  <2>4. Records(h, d)'
    BY <1>1, <1>2, <2>1, <2>3, RecordsKept
  <2>5. QED
    BY <2>3, <2>4
<1>9. Records(hits[e], e)'
  <2>1. Records(p, e)
    BY PrunedRecords DEF Limited, p
  <2>2. PICK f : Names(f, p, e)
    BY <2>1 DEF Records
  <2>3. PICK h : h = p
    OBVIOUS
  <2>4. PICK x : x = n
    OBVIOUS
  <2>5. PICK t : t = now
    OBVIOUS
  <2>6. h \in Seq(Nat) /\ Sorted(h) /\ t \in Nat /\ Len(h) \in Nat
    BY <1>2, <2>1, <2>3, <2>5 DEF Records
  <2> DEFINE q == Append(h, t)
             g == [i \in 1..Len(q) |-> IF i = Len(h) + 1 THEN x ELSE f[i]]
  <2>7. /\ q \in Seq(Nat) /\ Len(q) = Len(h) + 1 /\ q[Len(h) + 1] = t
        /\ \A i \in 1..Len(h) : q[i] = h[i]
    BY <2>6
  <2>8. \A i \in 1..Len(q) : i = Len(h) + 1 \/ i \in 1..Len(h)
    BY <2>6, <2>7
  <2>9. Len(h) + 1 \in 1..Len(q) /\ \A i \in 1..Len(h) : i # Len(h) + 1 /\ i \in 1..Len(q)
    BY <2>6, <2>7
  <2> HIDE DEF q
  <2>10. LinksOf(e)' = LinksOf(e) \cup {x} /\ x \notin LinksOf(e) /\ Issued(x)' = t
    BY <1>3, <1>4, <1>5, <2>4, <2>5 DEF LinksOf
  <2>11. /\ \A i \in 1..Len(h) : f[i] \in LinksOf(e) /\ Issued(f[i]) = h[i] /\ h[i] <= t
         /\ \A i, j \in 1..Len(h) : f[i] = f[j] => i = j
    BY <2>2, <2>3, <2>5 DEF Names, LinksOf, Limited
  <2>12. Sorted(q)
    <3> SUFFICES ASSUME NEW i \in 1..Len(q), NEW j \in 1..Len(q), i <= j PROVE q[i] <= q[j]
      BY DEF Sorted
    <3>1. CASE i \in 1..Len(h) /\ j \in 1..Len(h)
      BY <2>6, <2>7, <3>1 DEF Sorted
    <3>2. CASE i \in 1..Len(h) /\ j = Len(h) + 1
      BY <2>7, <2>11, <3>2
    <3>3. CASE i = Len(h) + 1 /\ j = Len(h) + 1
      BY <2>6, <2>7, <3>3
    <3>4. CASE i = Len(h) + 1 /\ j \in 1..Len(h)
      BY <2>6, <3>4
    <3>5. QED
      BY <2>8, <3>1, <3>2, <3>3, <3>4
  <2>13. /\ g[Len(h) + 1] = x /\ \A i \in 1..Len(h) : g[i] = f[i]
         /\ DOMAIN g = 1..Len(q) /\ g = [i \in 1..Len(q) |-> g[i]]
    BY <2>9
  <2> HIDE DEF g
  <2>14. \A i \in 1..Len(q) : g[i] \in LinksOf(e)'
    BY <2>8, <2>10, <2>11, <2>13
  <2>15. g \in [1..Len(q) -> LinksOf(e)']
    BY <2>13, <2>14
  <2>16. \A i, j \in 1..Len(q) : g[i] = g[j] => i = j
    BY <2>8, <2>10, <2>11, <2>13
  <2>17. \A i \in 1..Len(q) : Issued(g[i])' = q[i]
    <3> SUFFICES ASSUME NEW i \in 1..Len(q) PROVE Issued(g[i])' = q[i]
      OBVIOUS
    <3>1. CASE i = Len(h) + 1
      BY <2>7, <2>10, <2>13, <3>1
    <3>2. CASE i \in 1..Len(h)
      <4>1. Issued(f[i])' = Issued(f[i])
        BY <1>5, <2>11, <3>2 DEF LinksOf
      <4>2. QED
        BY <2>7, <2>11, <2>13, <3>2, <4>1
    <3>3. QED
      BY <2>8, <3>1, <3>2
  <2>18. \A l \in LinksOf(e)' : Issued(l)' + Window >= now' => \E i \in 1..Len(q) : g[i] = l
    <3> SUFFICES ASSUME NEW l \in LinksOf(e)', Issued(l)' + Window >= now'
                 PROVE  \E i \in 1..Len(q) : g[i] = l
      OBVIOUS
    <3>1. CASE l = x
      BY <2>9, <2>13, <3>1
    <3>2. CASE l \in LinksOf(e)
      <4>1. Issued(l) + Window >= now
        BY <1>1, <1>5, <3>2 DEF LinksOf
      <4>2. \E i \in 1..Len(h) : f[i] = l
        BY <2>2, <2>3, <3>2, <4>1 DEF Names
      <4>3. QED
        BY <2>9, <2>13, <4>2
    <3>3. QED
      BY <2>10, <3>1, <3>2
  <2>19. Names(g, q, e)'
    BY <2>15, <2>16, <2>17, <2>18 DEF Names
  <2>20. hits'[e] = q
    BY <1>1, <1>2, <2>3, <2>5 DEF q
  <2>21. Records(q, e)'
    BY <2>7, <2>12, <2>19 DEF Records, Sorted
  <2>22. QED
    BY <2>20, <2>21
<1>10. ASSUME NEW d \in Emails, NEW t \in 0..now PROVE IssuedWithin(d, t)' <= Max
  <2>1. IssuedWithin(d, t)' = Cardinality(Within(d, t)')
    BY DEF IssuedWithin, Within
  <2>2. IssuedWithin(d, t) <= Max /\ IssuedWithin(d, t) = Cardinality(Within(d, t))
        /\ Cardinality(Within(d, t)) \in Nat /\ IsFiniteSet(Within(d, t))
    BY LinksFinite DEF Limited
  <2>3. \A l : l # n => (l \in Within(d, t)' <=> l \in Within(d, t))
    BY <1>4, <1>5 DEF Within
  <2>4. CASE n \notin Within(d, t)'
    <3>1. n \notin Within(d, t)
      BY <1>4 DEF Within
    <3>2. Within(d, t)' = Within(d, t)
      BY <2>3, <2>4, <3>1
    <3>3. QED
      BY <2>1, <2>2, <3>2
  <2>5. CASE n \in Within(d, t)'
    <3>1. d = e /\ t = now
      <4>1. links'[n].email = d /\ Issued(n)' <= t
        BY <2>5 DEF Within
      <4>2. QED
        BY <1>2, <1>3, <1>4, <1>5, <4>1
    <3>2. Within(d, t)' = Within(d, t) \cup {n}
      BY <2>3, <2>5
    <3>3. n \notin Within(d, t)
      BY <1>4 DEF Within
    <3>4. Cardinality(Within(d, t) \cup {n}) = Cardinality(Within(d, t)) + 1
      BY <2>2, <3>3, FS_AddElement
    <3>5. Cardinality(Within(d, t)) < Max
      BY <1>1, <2>2, <3>1, PrunedCounts DEF p
    <3>6. QED
      BY <2>1, <2>2, <3>2, <3>4, <3>5, LimitAssumption DEF LimitAssumption
  <2>6. QED
    BY <2>4, <2>5
<1>11. QED
  BY <1>7, <1>8, <1>9, <1>10

LEMMA LimitedStep ==
    ASSUME Types, Types', Limited, [AccountsNext]_accountsVars
    PROVE  Limited'
<1>1. now \in Nat /\ hits \in [Emails -> Seq(0..MaxTime)]
  BY DEF Types, Tables
<1>2. ASSUME UNCHANGED <<links, disturbed>>, now' = now \/ now' = now + 1,
             \A e \in Emails : Records(hits[e], e) => Records(hits'[e], e)
      PROVE  Limited'
  <2>1. \A l \in DOMAIN links : links'[l].email = links[l].email /\ Issued(l)' = Issued(l)
    BY <1>2 DEF Issued
  <2>2. now <= now' /\ disturbed' = disturbed /\ DOMAIN links' = DOMAIN links
    BY <1>1, <1>2
  <2>3. QED
    BY <1>2, <2>1, <2>2, LimitedKept
<1>3. ASSUME NEW e \in Emails, Denied(e) PROVE Limited'
  <2>1. hits' = [hits EXCEPT ![e] = Pruned(e)] /\ UNCHANGED <<now, links, disturbed>>
    BY <1>3 DEF Denied, bounds
  <2>2. \A d \in Emails : Records(hits[d], d) => Records(hits'[d], d)
    BY <1>1, <2>1, PrunedRecords
  <2>3. QED
    BY <1>2, <2>1, <2>2
<1>4. ASSUME NEW r \in Requests, NEW l \in DOMAIN links, verify(r, l) PROVE Limited'
  <2>1. links' = [links EXCEPT ![l].consumedAt = now] /\ UNCHANGED <<now, hits, disturbed>>
    BY <1>4 DEF verify, bounds
  <2>2. links \in Seq(Link)
    BY DEF Types, Tables
  <2>3. DOMAIN links' = DOMAIN links
    BY <2>1, <2>2
  <2>4. \A k \in DOMAIN links : /\ links'[k].email = links[k].email
                                /\ links'[k].expiresAt = links[k].expiresAt
    BY <2>1, <2>2 DEF Link
  <2>5. \A k \in DOMAIN links : links'[k].email = links[k].email /\ Issued(k)' = Issued(k)
    BY <2>4 DEF Issued
  <2>6. now <= now' /\ disturbed' = disturbed /\ now' = now
        /\ \A e \in Emails : Records(hits[e], e) => Records(hits'[e], e)
    BY <1>1, <2>1
  <2>7. QED
    BY <2>3, <2>5, <2>6, LimitedKept
<1>5. CASE Restart \/ SetBack
  <2>1. UNCHANGED links /\ disturbed' = TRUE
    BY <1>5 DEF Restart, SetBack, auth
  <2>2. QED
    BY <2>1 DEF Limited, Issued
<1>6. CASE Operates /\ ~ Restart /\ ~ SetBack
  <2>1. UNCHANGED <<links, hits, disturbed>> /\ (now' = now \/ now' = now + 1)
    BY <1>6 DEF Operates, RotateSecret, Tick, SetRole, accountsVars, auth, bounds
  <2>2. QED
    BY <1>2, <2>1
<1>7. ASSUME NEW r \in Requests, Step(r) PROVE Limited'
  <2>1. UNCHANGED <<now, links, hits, disturbed>>
    BY <1>7 DEF Step, send, mintSession, Write, logAdminAction, FailRequest, auth, bounds
  <2>2. QED
    BY <1>2, <2>1
<1>8. ASSUME NEW r \in Requests, NEW c \in cookies, NEW a \in Actions, NEW n \in Nat, Begin(r, c, a, n)
      PROVE  Limited'
  <2>1. UNCHANGED <<now, links, hits, disturbed>>
    BY <1>8 DEF Begin, auth, bounds
  <2>2. QED
    BY <1>2, <2>1
<1>9. QED
  BY <1>3, <1>4, <1>5, <1>6, <1>7, <1>8, Steps, IssueLimited

-----------------------------------------------------------------------------
(* The inductive invariant and the theorems.                               *)

AccountsInv == Types /\ Sessions /\ Entitled /\ Logging /\ Limited

LEMMA AccountsStart == AccountsInit => AccountsInv
<1> SUFFICES ASSUME AccountsInit PROVE AccountsInv
  OBVIOUS
<1>1. Types
  BY AccountsInitTypes
<1>2. Sessions /\ Entitled /\ Logging
  BY <1>1 DEF AccountsInit, Idle, Sessions, Entitled, Logging, Verified, Numbered, AtItsRow, Differ,
     RowsTrue, RowsDiffer, HasRow, RowsComplete
<1>3. DOMAIN links = {} /\ now = 0
  BY DEF AccountsInit
<1>4. ASSUME NEW e \in Emails PROVE Records(hits[e], e)
  <2>1. LinksOf(e) = {} /\ hits[e] = <<>>
    BY <1>3, <1>4 DEF LinksOf, AccountsInit
  <2>2. Names([i \in {} |-> e], <<>>, e)
    BY <2>1 DEF Names
  <2>3. QED
    BY <2>1, <2>2 DEF Records, Sorted
<1>5. ASSUME NEW e \in Emails, NEW t \in 0..now PROVE IssuedWithin(e, t) <= Max
  <2>1. IssuedWithin(e, t) = Cardinality({})
    BY <1>3 DEF IssuedWithin
  <2>2. QED
    BY <2>1, FS_EmptySet, LimitAssumption DEF LimitAssumption
<1>6. Limited
  BY <1>3, <1>4, <1>5 DEF Limited
<1>7. QED
  BY <1>1, <1>2, <1>6 DEF AccountsInv

LEMMA AccountsKeep == AccountsInv /\ [AccountsNext]_accountsVars => AccountsInv'
BY AccountsTypesStep, SessionsStep, EntitledStep, LoggingStep, LimitedStep DEF AccountsInv

LEMMA AccountsAlways == AccountsSpec => []AccountsInv
BY AccountsStart, AccountsKeep, PTL DEF AccountsSpec

LEMMA EntryTyped ==
    ASSUME NEW S, NEW s \in Seq(S)
    PROVE  \A i \in DOMAIN s : s[i] \in S
OBVIOUS

\* Every table and every request in progress is well formed: rows name changes, a
\* verified request holds a link that is marked, what was lost was written.
THEOREM AccountsTypes == AccountsSpec => []AccountsTypeOK
<1>1. AccountsInv => AccountsTypeOK
  <2> SUFFICES ASSUME AccountsInv PROVE AccountsTypeOK
    OBVIOUS
  <2>1. Tables /\ Sessions /\ lost \subseteq writes
    BY DEF AccountsInv, Types, Logging
  <2>2. \A e \in Emails : \A i \in DOMAIN hits[e] : hits[e][i] \in 0..MaxTime
    <3>1. \A e \in Emails : hits[e] \in Seq(0..MaxTime)
      BY <2>1 DEF Tables
    <3>2. QED
      BY <3>1, EntryTyped
  <2>3. \A l \in DOMAIN links : links[l].email \in Emails /\ links[l].consumedAt \in Nat \cup {Nothing}
    <3>1. \A l \in DOMAIN links : links[l] \in Link
      BY <2>1, EntryTyped DEF Tables
    <3>2. QED
      BY <3>1 DEF Link
  <2>4. \A n \in DOMAIN tokens : tokens[n] \in {"live", "revoked"}
    BY <2>1, EntryTyped DEF Tables
  <2>5. \A i \in DOMAIN rows : rows[i].change \in Change
    <3>1. \A i \in DOMAIN rows : rows[i] \in LogRow
      BY <2>1, EntryTyped DEF Tables
    <3>2. QED
      BY <3>1 DEF LogRow
  <2>6. \A r \in Requests :
            /\ job[r].at \in {"idle", "issued", "verified", "allowed", "written"}
            /\ job[r].at = "written" => job[r].change \in Change
            /\ job[r].at = "verified" => links[job[r].link].consumedAt \in Nat
    BY <2>1 DEF AccountsInv, Types, JobsShaped, JobShape, Sessions, Verified, Followed
  <2>7. QED
    BY <2>1, <2>2, <2>3, <2>4, <2>5, <2>6 DEF AccountsTypeOK, Tables
<1>2. QED
  BY <1>1, AccountsAlways, PTL

\* Every admin write was made with the only session of a link that its user was
\* sent and followed in time, before the session ended and with a role that may.
THEOREM WritesTrace == AccountsSpec => []WritesTraceToALink
<1>1. AccountsInv => WritesTraceToALink
  <2> SUFFICES ASSUME Types, Sessions, Entitled, NEW w \in writes
               PROVE  LET c == w.cookie  l == links[c.link] IN
                      /\ c \in cookies /\ \A d \in cookies : d.link = c.link => d = c
                      /\ c.link \in mailed /\ l.email = c.email
                      /\ l.consumedAt # Nothing /\ l.consumedAt < l.expiresAt
                      /\ w.at < c.exp /\ can(c.role, Permission(w.change.action))
    BY DEF AccountsInv, WritesTraceToALink
  <2>1. w.cookie \in cookies /\ Entitles(w.cookie, w.at, w.change.action)
    BY DEF Entitled
  <2>2. Followed(w.cookie.link) /\ links[w.cookie.link].email = w.cookie.email
        /\ \A d \in cookies : d.link = w.cookie.link => d = w.cookie
    BY <2>1 DEF Sessions
  <2>3. links[w.cookie.link].consumedAt # Nothing
    BY <2>2, NothingAssumption DEF NothingAssumption, Followed
  <2>4. QED
    BY <2>1, <2>2, <2>3 DEF Entitles, Followed
<1>2. QED
  BY <1>1, AccountsAlways, PTL

\* Every row of the log stands for a write of its user, only a repeated revoke has
\* two, and a write without a row is one whose request is at it or failed.
THEOREM LogTrue == AccountsSpec => []LogIsTrue
<1>1. AccountsInv => LogIsTrue
  <2> SUFFICES ASSUME Logging PROVE LogIsTrue
    BY DEF AccountsInv
  <2>1. RowsTrue /\ RowsDiffer /\ RowsComplete
    BY DEF Logging
  <2>2. QED
    BY <2>1 DEF LogIsTrue, RowsTrue, RowsDiffer, RowsComplete, Differ, HasRow
<1>2. QED
  BY <1>1, AccountsAlways, PTL

\* While the server runs and its clock is not set back, no window of any email holds
\* more than Max links, and what the limiter counts is what was issued.
THEOREM LimitKept == AccountsSpec => []LimitHolds
<1>1. AccountsInv => LimitHolds
  BY PrunedCounts DEF AccountsInv, Limited, LimitHolds
<1>2. QED
  BY <1>1, AccountsAlways, PTL
=============================================================================
