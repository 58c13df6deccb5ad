-------------------- MODULE ConcurrencyController_proofs --------------------
(***************************************************************************)
(* The counting invariants of the controller hold for every finite set of  *)
(* callers, every limit and every queue bound.                             *)
(***************************************************************************)
EXTENDS ConcurrencyController, SequenceLemmas, FiniteSetTheorems, TLAPS

(* The inductive invariant: the counters, and what the waiters' list holds.  *)
WaitersAreSuspended == Range(waiters) = Suspended /\ IsInjective(waiters)

Inv == /\ TypeOK
       /\ SlotConservation
       /\ PendingExact
       /\ BoundedAdmission
       /\ WaitersAreSuspended
       /\ NoLostWakeup

-----------------------------------------------------------------------------
(* Sets of callers are finite, so their cardinalities are natural numbers. *)
LEMMA CallerSetsFinite ==
    \A S : S \subseteq Callers => IsFiniteSet(S) /\ Cardinality(S) \in Nat
BY CallersAssumption, FS_Subset, FS_CardinalityType

-----------------------------------------------------------------------------
(* The stage change and the wake-ups of HandOn, read as sets of callers. *)
LEMMA HandOnSets ==
    ASSUME TypeOK,
           NEW c \in Callers, task[c] # "waiting",
           NEW stage \in {"out", "holding"},
           NEW G \in SUBSET Waiting,
           task' = [d \in Callers |-> IF d = c THEN stage
                                      ELSE IF d \in G THEN "granted"
                                      ELSE task[d]]
    PROVE  /\ task' \in [Callers -> Stages]
           /\ Waiting' = Waiting \ G
           /\ Slotted' = IF stage = "out" THEN (Slotted \ {c}) \cup G
                                          ELSE (Slotted \cup {c}) \cup G
           /\ Slotted \cap G = {}
           /\ c \notin G
           /\ Suspended' = Suspended \ {c}
           /\ G \subseteq In({"granted", "grantCancelled"})'
           /\ task[c] \notin {"out", "refused"} =>
                 Inside' = IF stage = "out" THEN Inside \ {c} ELSE Inside
BY DEF TypeOK, Stages, Waiting, Slotted, Suspended, Inside, In

(* Whatever HandOn wakes, no unit appears or disappears, and the wake-ups it
   makes are enough for the waiters it leaves behind.                        *)
LEMMA HandOnCounts ==
    ASSUME TypeOK, SlotConservation,
           NEW c \in Callers, task[c] \notin {"out", "refused", "waiting"},
           NEW stage \in {"out", "holding"}, stage = "holding" => c \in Slotted,
           NEW free,
           free = value + (IF stage = "out" /\ c \in Slotted THEN 1 ELSE 0),
           NEW n \in 0 .. free, n \in {1, free},
           HandOn(c, stage, free, n)
    PROVE  /\ task' \in [Callers -> Stages]
           /\ value' \in 0 .. Limit
           /\ SlotConservation'
           /\ NoLostWakeup'
           /\ Suspended' = Suspended \ {c}
           /\ Inside' = IF stage = "out" THEN Inside \ {c} ELSE Inside
<1>1. PICK G \in SUBSET Waiting :
          /\ Cardinality(G) = Least(n, Cardinality(Waiting))
          /\ value' = free - Cardinality(G)
          /\ task' = [d \in Callers |-> IF d = c THEN stage
                                        ELSE IF d \in G THEN "granted"
                                        ELSE task[d]]
  BY DEF HandOn, WakesFirst
<1>2. /\ task' \in [Callers -> Stages]
      /\ Waiting' = Waiting \ G
      /\ Slotted' = IF stage = "out" THEN (Slotted \ {c}) \cup G
                                     ELSE (Slotted \cup {c}) \cup G
      /\ Slotted \cap G = {}
      /\ c \notin G
      /\ Suspended' = Suspended \ {c}
      /\ G \subseteq In({"granted", "grantCancelled"})'
      /\ Inside' = IF stage = "out" THEN Inside \ {c} ELSE Inside
  BY <1>1, HandOnSets
<1>3. /\ IsFiniteSet(G) /\ Cardinality(G) \in Nat
      /\ IsFiniteSet(Waiting) /\ Cardinality(Waiting) \in Nat
      /\ IsFiniteSet(Slotted) /\ Cardinality(Slotted) \in Nat
  <2>1. G \subseteq Callers /\ Waiting \subseteq Callers /\ Slotted \subseteq Callers
    BY DEF Waiting, Slotted, In
  <2> QED
    BY <2>1, CallerSetsFinite
<1>4. value \in Nat /\ Limit \in Nat /\ free \in Nat /\ n \in Nat
  BY LimitAssumption DEF TypeOK
<1>5. Cardinality(G) <= n /\ Cardinality(G) <= free
  BY <1>1, <1>3, <1>4 DEF Least
<1>6. value' + Cardinality(Slotted') = Limit
  <2> DEFINE rest == IF stage = "out" THEN Slotted \ {c} ELSE Slotted \cup {c}
  <2>1. /\ IsFiniteSet(rest)
        /\ Cardinality(rest) = Cardinality(Slotted)
                                - (IF stage = "out" /\ c \in Slotted THEN 1 ELSE 0)
    <3>1. CASE stage = "out"
      BY <3>1, <1>3, FS_RemoveElement
    <3>2. CASE stage = "holding"
      <4>1. rest = Slotted
        BY <3>2
      <4> HIDE DEF rest
      <4> QED
        BY <4>1, <3>2, <1>3
    <3> QED
      BY <3>1, <3>2
  <2>2. rest \cap G = {} /\ Slotted' = rest \cup G
    BY <1>2
  <2> HIDE DEF rest
  <2>3. Cardinality(Slotted') = Cardinality(rest) + Cardinality(G)
    <3>1. Cardinality(rest) \in Nat
      BY <2>1, FS_CardinalityType
    <3>2. Cardinality(rest \cup G)
            = Cardinality(rest) + Cardinality(G) - Cardinality(rest \cap G)
      BY <2>1, <1>3, FS_Union
    <3>3. Cardinality(rest \cap G) = 0
      BY <2>2, FS_EmptySet
    <3> QED
      BY <3>1, <3>2, <3>3, <2>2, <1>3
  <2> QED
    BY <1>1, <1>3, <1>4, <2>1, <2>3 DEF SlotConservation
<1>7. value' \in 0 .. Limit
  <2>1. Cardinality(Slotted') \in Nat
    <3>1. Slotted' \subseteq Callers
      BY DEF Slotted, In
    <3> QED
      BY <3>1, CallerSetsFinite
  <2> QED
    BY <1>1, <1>3, <1>4, <1>5, <1>6, <2>1
<1>8. NoLostWakeup'
  <2> SUFFICES ASSUME value' > 0, Waiting' # {}
               PROVE  In({"granted", "grantCancelled"})' # {}
    BY DEF NoLostWakeup
  <2>1. G # Waiting /\ Waiting # {}
    BY <1>2
  <2>2. Cardinality(Waiting) # 0
    BY <2>1, <1>3, FS_EmptySet
  <2>3. Cardinality(G) # Cardinality(Waiting)
    BY <2>1, <1>3, FS_Subset
  <2>4. Cardinality(G) = n /\ n # free
    BY <1>1, <1>3, <1>4, <2>3 DEF Least
  <2>5. G # {}
    BY <2>4, <1>3, FS_EmptySet
  <2> QED
    BY <2>5, <1>2
<1> QED
  BY <1>2, <1>6, <1>7, <1>8 DEF SlotConservation

-----------------------------------------------------------------------------
LEMMA InitInv == Init => Inv
<1> SUFFICES ASSUME Init PROVE Inv
  OBVIOUS
<1>1. Slotted = {} /\ Inside = {} /\ Waiting = {}
  BY DEF Init, Slotted, Inside, Waiting, In
<1>2. Cardinality({}) = 0 /\ Inside \ Unbounded = {}
  BY <1>1, FS_EmptySet
<1>3. Limit \in Nat \ {0} /\ MaxQueueDepth \in Int
  BY LimitAssumption, DepthAssumption
<1>4. TypeOK
  BY <1>3 DEF Init, TypeOK, Stages
<1>5. WaitersAreSuspended
  <2>1. Suspended = {} /\ waiters = <<>>
    BY DEF Init, Suspended, In
  <2> QED
    BY <2>1 DEF WaitersAreSuspended, Range, IsInjective
<1> QED
  BY <1>1, <1>2, <1>3, <1>4, <1>5
     DEF Init, Inv, SlotConservation, PendingExact, BoundedAdmission, NoLostWakeup

(* A caller that goes in: who is inside, and how many of them. *)
LEMMA Entering ==
    ASSUME Inv, NEW c \in Callers, Idle(c), Admits(c),
           NEW stage \in {"holding", "waiting"},
           task' = [task EXCEPT ![c] = stage],
           pending' = pending + 1
    PROVE  /\ task' \in [Callers -> Stages]
           /\ pending' \in Nat
           /\ PendingExact'
           /\ BoundedAdmission'
<1>1. /\ c \notin Inside /\ Inside' = Inside \cup {c}
      /\ task' \in [Callers -> Stages]
  BY DEF Inv, TypeOK, Stages, Idle, Inside, In
<1>2. IsFiniteSet(Inside) /\ IsFiniteSet(Inside \ Unbounded)
  <2>1. Inside \subseteq Callers /\ Inside \ Unbounded \subseteq Callers
    BY DEF Inside
  <2> QED
    BY <2>1, CallerSetsFinite
<1>3. pending \in Nat /\ pending = Cardinality(Inside)
  BY DEF Inv, TypeOK, PendingExact
<1>4. Cardinality(Inside') = Cardinality(Inside) + 1
  BY <1>1, <1>2, FS_AddElement
<1>5. BoundedAdmission'
  <2> DEFINE b == IF MaxQueueDepth < 0 THEN 0 ELSE Limit + MaxQueueDepth
  <2>1. Limit \in Nat /\ MaxQueueDepth \in Int
    BY LimitAssumption, DepthAssumption
  <2>2. CASE c \in Unbounded
    <3>1. Inside' \ Unbounded = Inside \ Unbounded
      BY <1>1, <2>2
    <3> QED
      BY <3>1 DEF Inv, BoundedAdmission
  <2>3. CASE c \notin Unbounded
    <3>1. pending + 1 <= b
      BY <1>3, <2>1, <2>3 DEF Admits, ProjectedQueue, Clip
    <3>2. Cardinality(Inside' \ Unbounded) <= Cardinality(Inside')
      <4>1. IsFiniteSet(Inside')
        BY <1>1, <1>2, FS_AddElement
      <4> QED
        BY <4>1, FS_Subset
    <3>3. Cardinality(Inside' \ Unbounded) \in Nat
      <4>1. Inside' \ Unbounded \subseteq Callers
        BY DEF Inside
      <4> QED
        BY <4>1, CallerSetsFinite
    <3> QED
      BY <1>3, <1>4, <2>1, <3>1, <3>2, <3>3 DEF BoundedAdmission
  <2> QED
    BY <2>2, <2>3
<1> QED
  BY <1>1, <1>3, <1>4, <1>5 DEF PendingExact

(* A caller that goes out. *)
LEMMA Exiting ==
    ASSUME Inv, NEW c \in Inside, Inside' = Inside \ {c}, pending' = pending - 1
    PROVE  /\ pending' \in Nat
           /\ PendingExact'
           /\ BoundedAdmission'
<1>1. IsFiniteSet(Inside) /\ IsFiniteSet(Inside \ Unbounded)
  <2>1. Inside \subseteq Callers /\ Inside \ Unbounded \subseteq Callers
    BY DEF Inside
  <2> QED
    BY <2>1, CallerSetsFinite
<1>2. /\ IsFiniteSet(Inside')
      /\ Cardinality(Inside') = Cardinality(Inside) - 1
  BY <1>1, FS_RemoveElement
<1>3. Cardinality(Inside') \in Nat
  BY <1>2, FS_CardinalityType
<1>4. Cardinality(Inside' \ Unbounded) <= Cardinality(Inside \ Unbounded)
  <2>1. Inside' \ Unbounded \in SUBSET (Inside \ Unbounded)
    OBVIOUS
  <2> QED
    BY <2>1, <1>1, FS_Subset
<1>5. Cardinality(Inside' \ Unbounded) \in Nat /\ Cardinality(Inside \ Unbounded) \in Nat
  <2>1. Inside' \ Unbounded \subseteq Callers /\ Inside \ Unbounded \subseteq Callers
    BY DEF Inside
  <2> QED
    BY <2>1, CallerSetsFinite
<1> QED
  BY <1>2, <1>3, <1>4, <1>5, LimitAssumption, DepthAssumption
     DEF Inv, TypeOK, PendingExact, BoundedAdmission

(* A resumed caller leaves the list, and the others stay in it. *)
LEMMA Dequeuing ==
    ASSUME Inv, NEW c \in Callers, Dequeue(c), Suspended' = Suspended \ {c}
    PROVE  waiters' \in Seq(Callers) /\ WaitersAreSuspended'
<1>1. PICK i \in DOMAIN waiters : waiters[i] = c /\ waiters' = RemoveAt(waiters, i)
  BY DEF Dequeue
<1>2. /\ waiters' \in Seq(Callers)
      /\ IsInjective(waiters')
      /\ Range(waiters') = Range(waiters) \ {c}
  BY <1>1, QueueRemoveAt DEF Inv, TypeOK, WaitersAreSuspended
<1> QED
  BY <1>2 DEF Inv, WaitersAreSuspended

(* The last caller of the list is a new one. *)
LEMMA Enqueuing ==
    ASSUME Inv, NEW c \in Callers, Idle(c),
           waiters' = Append(waiters, c), task' = [task EXCEPT ![c] = "waiting"]
    PROVE  waiters' \in Seq(Callers) /\ WaitersAreSuspended'
<1>1. c \notin Suspended /\ Suspended' = Suspended \cup {c}
  BY DEF Inv, TypeOK, Stages, Idle, Suspended, In
<1>2. /\ waiters \in Seq(Callers) /\ IsInjective(waiters)
      /\ Range(waiters) = Suspended
  BY DEF Inv, TypeOK, WaitersAreSuspended
<1>3. /\ waiters' \in Seq(Callers)
      /\ IsInjective(waiters')
      /\ Range(waiters') = Range(waiters) \cup {c}
  BY <1>1, <1>2, QueueAppend
<1> QED
  BY <1>1, <1>2, <1>3 DEF WaitersAreSuspended

-----------------------------------------------------------------------------
LEMMA RefuseInv == ASSUME Inv, NEW c \in Callers, Refuse(c) PROVE Inv'
<1>1. /\ task' \in [Callers -> Stages]
      /\ Slotted' = Slotted /\ Inside' = Inside /\ Suspended' = Suspended
      /\ Waiting' = Waiting
      /\ In({"granted", "grantCancelled"})' = In({"granted", "grantCancelled"})
  BY DEF Inv, TypeOK, Stages, Refuse, Idle, Slotted, Inside, Suspended, Waiting, In
<1> QED
  BY <1>1 DEF Inv, TypeOK, SlotConservation, PendingExact, BoundedAdmission,
              WaitersAreSuspended, NoLostWakeup, Refuse

LEMMA AcquireAtOnceInv == ASSUME Inv, NEW c \in Callers, AcquireAtOnce(c) PROVE Inv'
<1>1. task' \in [Callers -> Stages] /\ pending' \in Nat /\ PendingExact' /\ BoundedAdmission'
  BY Entering DEF AcquireAtOnce
<1>2. /\ c \notin Slotted /\ Slotted' = Slotted \cup {c}
      /\ Suspended' = Suspended /\ Waiting' = Waiting
      /\ In({"granted", "grantCancelled"})' = In({"granted", "grantCancelled"})
  BY DEF Inv, TypeOK, Stages, AcquireAtOnce, Idle, Slotted, Suspended, Waiting, In
<1>3. value' = value - 1 /\ value \in 1 .. Limit
  BY LimitAssumption DEF Inv, TypeOK, AcquireAtOnce, Locked
<1>4. SlotConservation'
  <2>1. IsFiniteSet(Slotted) /\ Cardinality(Slotted) \in Nat
    <3>1. Slotted \subseteq Callers
      BY DEF Slotted, In
    <3> QED
      BY <3>1, CallerSetsFinite
  <2>2. Cardinality(Slotted') = Cardinality(Slotted) + 1
    BY <1>2, <2>1, FS_AddElement
  <2> QED
    BY <1>3, <2>1, <2>2, LimitAssumption DEF Inv, SlotConservation
<1>5. NoLostWakeup'
  BY <1>2, <1>3 DEF Inv, NoLostWakeup
<1> QED
  BY <1>1, <1>2, <1>3, <1>4, <1>5, LimitAssumption
     DEF Inv, TypeOK, WaitersAreSuspended, AcquireAtOnce

(* The one step that puts a waiter beside a free slot: it does so only when a
   future in the list is not cancelled, and then some caller is on its way.   *)
LEMMA AcquireWaitsInv == ASSUME Inv, NEW c \in Callers, AcquireWaits(c) PROVE Inv'
<1>1. task' \in [Callers -> Stages] /\ pending' \in Nat /\ PendingExact' /\ BoundedAdmission'
  BY Entering DEF AcquireWaits
<1>2. waiters' \in Seq(Callers) /\ WaitersAreSuspended'
  BY Enqueuing DEF AcquireWaits
<1>3. /\ Slotted' = Slotted
      /\ In({"granted", "grantCancelled"})' = In({"granted", "grantCancelled"})
  BY DEF Inv, TypeOK, Stages, AcquireWaits, Idle, Slotted, In
<1>4. NoLostWakeup'
  <2> SUFFICES ASSUME value > 0 PROVE In({"granted", "grantCancelled"}) # {}
    BY <1>3 DEF NoLostWakeup, AcquireWaits
  <2>1. PICK i \in DOMAIN waiters : task[waiters[i]] # "cancelled"
    BY DEF AcquireWaits, Locked
  <2>2. waiters[i] \in Waiting \/ waiters[i] \in In({"granted", "grantCancelled"})
    BY <2>1 DEF Inv, WaitersAreSuspended, Range, Suspended, Waiting, In
  <2> QED
    BY <2>2 DEF Inv, NoLostWakeup
<1> QED
  BY <1>1, <1>2, <1>3, <1>4 DEF Inv, TypeOK, SlotConservation, AcquireWaits

LEMMA ResumeInv == ASSUME Inv, NEW c \in Callers, Resume(c) PROVE Inv'
<1>1. value \in Nat /\ value \in {1, value} /\ TypeOK /\ SlotConservation
  BY LimitAssumption DEF Inv, TypeOK
<1>2. c \in Slotted /\ task[c] \notin {"out", "refused", "waiting"}
  BY DEF Resume, Slotted, In
<1>3. HandOn(c, "holding", value, value)
  BY DEF Resume
<1>4. /\ task' \in [Callers -> Stages] /\ value' \in 0 .. Limit
      /\ SlotConservation' /\ NoLostWakeup'
      /\ Suspended' = Suspended \ {c} /\ Inside' = Inside
  BY <1>1, <1>2, <1>3, HandOnCounts
<1>5. waiters' \in Seq(Callers) /\ WaitersAreSuspended'
  BY <1>4, Dequeuing DEF Resume
<1> QED
  BY <1>4, <1>5 DEF Inv, TypeOK, PendingExact, BoundedAdmission, Resume

LEMMA CancelInv == ASSUME Inv, NEW c \in Callers, Cancel(c) PROVE Inv'
<1>1. /\ task' \in [Callers -> Stages]
      /\ Slotted' = Slotted /\ Inside' = Inside /\ Suspended' = Suspended
      /\ Waiting' \subseteq Waiting
      /\ In({"granted", "grantCancelled"})' = In({"granted", "grantCancelled"})
  BY DEF Inv, TypeOK, Stages, Cancel, Slotted, Inside, Suspended, Waiting, In
<1> QED
  BY <1>1 DEF Inv, TypeOK, SlotConservation, PendingExact, BoundedAdmission,
              WaitersAreSuspended, NoLostWakeup, Cancel

LEMMA UnwindInv == ASSUME Inv, NEW c \in Callers, Unwind(c) PROVE Inv'
<1> DEFINE free == IF task[c] = "grantCancelled" THEN value + 1 ELSE value
<1>1. value \in Nat /\ free \in Nat /\ free \in {1, free} /\ TypeOK /\ SlotConservation
  BY LimitAssumption DEF Inv, TypeOK
<1>2. /\ c \in Inside /\ task[c] \notin {"out", "refused", "waiting"}
      /\ c \in Slotted <=> task[c] = "grantCancelled"
  BY DEF Unwind, Slotted, Inside, In
<1>3. HandOn(c, "out", free, free)
  BY DEF Unwind
<1>4. free = value + (IF "out" = "out" /\ c \in Slotted THEN 1 ELSE 0)
  BY <1>1, <1>2
<1> HIDE DEF free
<1>5. /\ task' \in [Callers -> Stages] /\ value' \in 0 .. Limit
      /\ SlotConservation' /\ NoLostWakeup'
      /\ Suspended' = Suspended \ {c} /\ Inside' = Inside \ {c}
  BY <1>1, <1>2, <1>3, <1>4, HandOnCounts
<1>6. waiters' \in Seq(Callers) /\ WaitersAreSuspended'
  BY <1>5, Dequeuing DEF Unwind
<1>7. pending' \in Nat /\ PendingExact' /\ BoundedAdmission'
  BY <1>2, <1>5, Exiting DEF Unwind, PendingOnCancel
<1> QED
  BY <1>5, <1>6, <1>7 DEF Inv, TypeOK

LEMMA ReleaseInv == ASSUME Inv, NEW c \in Callers, Release(c) PROVE Inv'
<1>1. value \in Nat /\ 1 \in 0 .. (value + 1) /\ TypeOK /\ SlotConservation
  BY LimitAssumption DEF Inv, TypeOK
<1>2. /\ c \in Inside /\ c \in Slotted /\ c \notin Suspended
      /\ task[c] \notin {"out", "refused", "waiting"}
  BY DEF Release, Slotted, Inside, Suspended, In
<1>3. HandOn(c, "out", value + 1, 1)
  BY DEF Release
<1>4. value + 1 = value + (IF "out" = "out" /\ c \in Slotted THEN 1 ELSE 0)
  BY <1>1, <1>2
<1>5. /\ task' \in [Callers -> Stages] /\ value' \in 0 .. Limit
      /\ SlotConservation' /\ NoLostWakeup'
      /\ Suspended' = Suspended \ {c} /\ Inside' = Inside \ {c}
  BY <1>1, <1>2, <1>3, <1>4, HandOnCounts
<1>6. pending' \in Nat /\ PendingExact' /\ BoundedAdmission'
  BY <1>2, <1>5, Exiting DEF Release, PendingOnRelease
<1> QED
  BY <1>2, <1>5, <1>6 DEF Inv, TypeOK, WaitersAreSuspended, Release

(* Every step of the controller, and every stutter, preserves the invariant. *)
LEMMA NextInv == Inv /\ [Next]_vars => Inv'
<1> SUFFICES ASSUME Inv, [Next]_vars PROVE Inv'
  OBVIOUS
<1>1. CASE UNCHANGED vars
  BY <1>1 DEF vars, Inv, TypeOK, SlotConservation, PendingExact, BoundedAdmission,
              WaitersAreSuspended, NoLostWakeup, Slotted, Inside, Suspended, Waiting, In
<1>2. ASSUME NEW c \in Callers, Acquire(c) PROVE Inv'
  BY <1>2, RefuseInv, AcquireAtOnceInv, AcquireWaitsInv DEF Acquire
<1>3. ASSUME NEW c \in Callers, Resume(c) PROVE Inv'
  BY <1>3, ResumeInv
<1>4. ASSUME NEW c \in Callers, Cancel(c) PROVE Inv'
  BY <1>4, CancelInv
<1>5. ASSUME NEW c \in Callers, Unwind(c) PROVE Inv'
  BY <1>5, UnwindInv
<1>6. ASSUME NEW c \in Callers, Release(c) PROVE Inv'
  BY <1>6, ReleaseInv
<1> QED
  BY <1>1, <1>2, <1>3, <1>4, <1>5, <1>6 DEF Next

-----------------------------------------------------------------------------
THEOREM InvHolds == Spec => []Inv
<1>1. Init => Inv
  BY InitInv
<1>2. Inv /\ [Next]_vars => Inv'
  BY NextInv
<1> QED
  BY <1>1, <1>2, PTL DEF Spec

(* The state of the controller is always well formed: the semaphore is never
   over-released and the counter never negative (core/concurrency.py:73-78).  *)
THEOREM TypeCorrect == Spec => []TypeOK
<1>1. Inv => TypeOK
  BY DEF Inv
<1> QED
  BY <1>1, InvHolds, PTL

(* No slot of the semaphore is lost or invented, cancellations included. *)
THEOREM SlotsConserved == Spec => []SlotConservation
<1>1. Inv => SlotConservation
  BY DEF Inv
<1> QED
  BY <1>1, InvHolds, PTL

(* _pending counts exactly the callers inside (core/concurrency.py:65-70, 78). *)
THEOREM PendingCounts == Spec => []PendingExact
<1>1. Inv => PendingExact
  BY DEF Inv
<1> QED
  BY <1>1, InvHolds, PTL

(* acquire() admits no caller beyond limit + max_queue_depth
   (core/concurrency.py:49-57).                                                *)
THEOREM AdmissionBounded == Spec => []BoundedAdmission
<1>1. Inv => BoundedAdmission
  BY DEF Inv
<1> QED
  BY <1>1, InvHolds, PTL

(* A free slot beside a waiter always has a woken task about to hand it on. *)
THEOREM WakeupsNotLost == Spec => []NoLostWakeup
<1>1. Inv => NoLostWakeup
  BY DEF Inv
<1> QED
  BY <1>1, InvHolds, PTL

(* Once no wake-up is in flight, queue_depth() and in_flight() are the numbers
   of callers that wait and that hold (core/concurrency.py:33-42): this needs
   the slot count, the caller count and the absence of lost wake-ups at once.  *)
THEOREM ReportsCorrect == Spec => []ReportsExact
<1>1. Inv => ReportsExact
  <2> DEFINE holding == In({"holding"})
  <2> SUFFICES ASSUME Inv, In({"granted", "cancelled", "grantCancelled"}) = {}
               PROVE  /\ QueueDepth = Cardinality(Waiting)
                      /\ InFlight = Cardinality(holding)
    BY DEF ReportsExact
  <2>1. /\ Slotted = holding /\ In({"granted", "grantCancelled"}) = {}
        /\ Inside = Waiting \cup holding /\ Waiting \cap holding = {}
    BY DEF Inv, TypeOK, Stages, Slotted, Inside, Waiting, In
  <2>2. /\ IsFiniteSet(Waiting) /\ Cardinality(Waiting) \in Nat
        /\ IsFiniteSet(holding) /\ Cardinality(holding) \in Nat
    <3>1. Waiting \subseteq Callers /\ holding \subseteq Callers
      BY DEF Waiting, In
    <3> QED
      BY <3>1, CallerSetsFinite
  <2> HIDE DEF holding
  <2>3. pending = Cardinality(Waiting) + Cardinality(holding)
    <3>1. Cardinality(Waiting \cap holding) = 0
      BY <2>1, FS_EmptySet
    <3>2. Cardinality(Waiting \cup holding)
            = Cardinality(Waiting) + Cardinality(holding) - Cardinality(Waiting \cap holding)
      BY <2>2, FS_Union
    <3> QED
      BY <2>1, <2>2, <3>1, <3>2 DEF Inv, PendingExact
  <2>4. value + Cardinality(holding) = Limit /\ value \in Nat /\ Limit \in Nat
    BY <2>1, LimitAssumption DEF Inv, TypeOK, SlotConservation
  <2>5. CASE Waiting = {}
    <3>1. Cardinality(Waiting) = 0
      BY <2>5, FS_EmptySet
    <3> QED
      BY <2>2, <2>3, <2>4, <3>1 DEF QueueDepth, InFlight, Clip, Least
  <2>6. CASE Waiting # {}
    <3>1. value = 0
      BY <2>1, <2>4, <2>6 DEF Inv, NoLostWakeup
    <3> QED
      BY <2>2, <2>3, <2>4, <3>1 DEF QueueDepth, InFlight, Clip, Least
  <2> QED
    BY <2>5, <2>6
<1> QED
  BY <1>1, InvHolds, PTL
-----------------------------------------------------------------------------
(* The refinement of AdmissionControl: who is served, who waits, in which order,
   and who is on the way out, as the abstract specification sees them.          *)
Serving == In({"granted", "holding"})
Leaving == In({"cancelled", "grantCancelled"})
Refused == In({"refused"})
Order   == {p \in Waiting \X Waiting : Ahead(p[1], p[2])}

(* Both specifications count with the same operator. *)
LEMMA SameCardinality == \A S : Admission!Cardinality(S) = Cardinality(S)
BY DEF Admission!Cardinality, Cardinality

(* "Ahead" is the order of the waiters' list. *)
LEMMA AheadIsPrecedes == \A a, b : Ahead(a, b) <=> Precedes(waiters, a, b)
BY DEF Ahead, Precedes

(* Whoever is present to the abstract specification is counted by _pending. *)
LEMMA PresentIsInside ==
    ASSUME TypeOK
    PROVE  /\ Serving \cup Waiting \cup Leaving = Inside
           /\ \A c \in Callers : Idle(c) <=> c \notin Inside
BY DEF TypeOK, Stages, Serving, Waiting, Leaving, Inside, Idle, In

(* The abstract capacity is what the projected queue depth is compared with. *)
LEMMA AdmitsIsMayEnter ==
    ASSUME Inv, NEW c \in Callers
    PROVE  Admits(c) <=> c \in Unbounded \/ Cardinality(Inside) < Admission!Capacity
<1>1. pending = Cardinality(Inside) /\ pending \in Nat
  BY DEF Inv, TypeOK, PendingExact
<1> QED
  BY <1>1, LimitAssumption, DepthAssumption
     DEF Admits, ProjectedQueue, Clip, Admission!Capacity

(* A resumed caller was not waiting, so its removal keeps the order of those
   that do.                                                                   *)
LEMMA DequeueKeepsOrder ==
    ASSUME Inv, NEW c \in Callers, Dequeue(c), NEW a, NEW b, a # c, b # c
    PROVE  Ahead(a, b)' <=> Ahead(a, b)
<1>1. PICK i \in DOMAIN waiters : waiters[i] = c /\ waiters' = RemoveAt(waiters, i)
  BY DEF Dequeue
<1>2. Precedes(RemoveAt(waiters, i), a, b) <=> Precedes(waiters, a, b)
  BY <1>1, PrecedesRemoveAt DEF Inv, TypeOK
<1> QED
  BY <1>1, <1>2, AheadIsPrecedes DEF Ahead, Precedes

(* HandOn hands slots to the first waiting callers, one each, and to no more
   than are free.                                                             *)
LEMMA HandOnIsHandOver ==
    ASSUME Inv, Inv', NEW c \in Callers, task[c] # "waiting",
           NEW stage \in {"out", "holding"}, NEW free, NEW n,
           HandOn(c, stage, free, n),
           \A a, b \in Waiting' : Ahead(a, b)' <=> Ahead(a, b)
    PROVE  /\ \E chosen \in SUBSET Waiting :
                 Admission!HandOver((Serving \ {c}) \cup (IF stage = "holding" THEN {c} ELSE {}),
                                    chosen)
           /\ Leaving' = Leaving \ {c}
           /\ Refused' = Refused \ {c}
<1>1. PICK G \in SUBSET Waiting :
          /\ \A g \in G, w \in Waiting \ G : Ahead(g, w)
          /\ task' = [d \in Callers |-> IF d = c THEN stage
                                        ELSE IF d \in G THEN "granted"
                                        ELSE task[d]]
  BY DEF HandOn, WakesFirst
<1>2. /\ c \notin G
      /\ Waiting' = Waiting \ G
      /\ Serving' = (Serving \ {c}) \cup (IF stage = "holding" THEN {c} ELSE {}) \cup G
      /\ Leaving' = Leaving \ {c}
      /\ Refused' = Refused \ {c}
  BY <1>1 DEF Inv, TypeOK, Stages, Waiting, Serving, Leaving, Refused, In
<1>3. Order' = {p \in Order : p[1] \notin G /\ p[2] \notin G}
  <2>1. \A a, b \in Callers : <<a, b>> \in Order' <=> /\ <<a, b>> \in Order
                                                      /\ a \notin G /\ b \notin G
    BY <1>2 DEF Order
  <2>2. Order \subseteq Callers \X Callers /\ Order' \subseteq Callers \X Callers
    BY DEF Order, Waiting, In
  <2> QED
    BY <2>1, <2>2
<1>4. \A g \in G, w \in Waiting \ G : <<g, w>> \in Order
  BY <1>1 DEF Order
<1>5. Cardinality(Serving') <= Limit
  <2>1. Serving' \in SUBSET Slotted' /\ Slotted' \subseteq Callers
    BY DEF Serving, Slotted, In
  <2>2. Cardinality(Serving') <= Cardinality(Slotted') /\ Cardinality(Slotted') \in Nat
        /\ Cardinality(Serving') \in Nat
    BY <2>1, CallerSetsFinite, FS_Subset
  <2>3. value' \in Nat /\ value' + Cardinality(Slotted') = Limit /\ Limit \in Nat
    BY LimitAssumption DEF Inv, TypeOK, SlotConservation
  <2> QED
    BY <2>2, <2>3
<1> QED
  BY <1>1, <1>2, <1>3, <1>4, <1>5, SameCardinality
     DEF Admission!HandOver, Admission!Dequeue, Serving, Order

LEMMA InitRefines == Init => Admission!Init
<1> SUFFICES ASSUME Init PROVE Admission!Init
  OBVIOUS
<1>1. Serving = {} /\ Waiting = {} /\ Leaving = {} /\ Refused = {}
  BY DEF Init, Serving, Waiting, Leaving, Refused, In
<1>2. Order = {}
  BY <1>1 DEF Order
<1> QED
  BY <1>1, <1>2 DEF Admission!Init, Serving, Leaving, Refused, Order

(* When neither the waiters nor the list's order of them changes, neither does
   the abstract order.                                                       *)
LEMMA SameOrder ==
    ASSUME Waiting' = Waiting, waiters' = waiters
    PROVE  Order' = Order
BY DEF Order, Ahead

LEMMA RefuseRefines == ASSUME Inv, NEW c \in Callers, Refuse(c) PROVE Admission!TurnAway(c)
<1>1. c \notin Inside /\ Serving \cup Waiting \cup Leaving = Inside
  BY PresentIsInside DEF Inv, Refuse
<1>2. ~ Admission!MayEnter(c)
  BY <1>1, AdmitsIsMayEnter, SameCardinality
     DEF Refuse, Admission!MayEnter, Admission!Present, Serving, Leaving
<1>3. /\ Serving' = Serving /\ Waiting' = Waiting /\ Leaving' = Leaving
      /\ Refused' = Refused \cup {c}
  BY DEF Inv, TypeOK, Stages, Refuse, Idle, Serving, Waiting, Leaving, Refused, In
<1>4. Order' = Order
  BY <1>3, SameOrder DEF Refuse
<1> QED
  BY <1>1, <1>2, <1>3, <1>4
     DEF Admission!TurnAway, Admission!Present, Serving, Leaving, Refused, Order

(* A free slot and a list of nothing but cancelled futures: nobody waits, so
   nobody is overtaken.                                                      *)
LEMMA AcquireAtOnceRefines ==
    ASSUME Inv, Inv', NEW c \in Callers, AcquireAtOnce(c)
    PROVE  Admission!Start(c)
<1>1. c \notin Inside /\ Serving \cup Waiting \cup Leaving = Inside
  BY PresentIsInside DEF Inv, AcquireAtOnce
<1>2. Admission!MayEnter(c)
  BY <1>1, AdmitsIsMayEnter, SameCardinality
     DEF AcquireAtOnce, Admission!MayEnter, Admission!Present, Serving, Leaving
<1>3. Waiting = {}
  <2> SUFFICES ASSUME NEW w \in Waiting PROVE FALSE
    OBVIOUS
  <2>1. w \in Range(waiters) /\ task[w] = "waiting"
    BY DEF Inv, WaitersAreSuspended, Suspended, Waiting, In
  <2> QED
    BY <2>1 DEF Range, AcquireAtOnce, Locked
<1>4. Cardinality(Serving) < Limit
  <2>1. Serving \in SUBSET Slotted /\ Slotted \subseteq Callers
    BY DEF Serving, Slotted, In
  <2>2. /\ Cardinality(Serving) <= Cardinality(Slotted)
        /\ Cardinality(Slotted) \in Nat /\ Cardinality(Serving) \in Nat
    BY <2>1, CallerSetsFinite, FS_Subset
  <2>3. value \in Nat /\ value # 0 /\ value + Cardinality(Slotted) = Limit /\ Limit \in Nat
    BY LimitAssumption DEF Inv, TypeOK, SlotConservation, AcquireAtOnce, Locked
  <2> QED
    BY <2>2, <2>3
<1>5. /\ Serving' = Serving \cup {c} /\ Waiting' = Waiting /\ Leaving' = Leaving
      /\ Refused' = Refused \ {c}
  BY DEF Inv, TypeOK, Stages, AcquireAtOnce, Idle, Serving, Waiting, Leaving, Refused, In
<1>6. Order' = Order
  BY <1>5, SameOrder DEF AcquireAtOnce
<1> QED
  BY <1>1, <1>2, <1>3, <1>4, <1>5, <1>6, SameCardinality
     DEF Admission!Start, Admission!Present, Serving, Leaving, Refused, Order

LEMMA AcquireWaitsRefines ==
    ASSUME Inv, NEW c \in Callers, AcquireWaits(c)
    PROVE  Admission!Join(c)
<1>1. c \notin Inside /\ Serving \cup Waiting \cup Leaving = Inside
  BY PresentIsInside DEF Inv, AcquireWaits
<1>2. Admission!MayEnter(c)
  BY <1>1, AdmitsIsMayEnter, SameCardinality
     DEF AcquireWaits, Admission!MayEnter, Admission!Present, Serving, Leaving
<1>3. /\ Serving' = Serving /\ Waiting' = Waiting \cup {c} /\ Leaving' = Leaving
      /\ Refused' = Refused \ {c} /\ c \notin Suspended /\ Waiting \subseteq Suspended
  BY DEF Inv, TypeOK, Stages, AcquireWaits, Idle, Serving, Waiting, Leaving, Refused,
         Suspended, In
<1>4. Order' = Order \cup (Waiting \X {c})
  <2>1. \A a, b : Ahead(a, b)' <=> Ahead(a, b) \/ (a \in Range(waiters) /\ b = c)
    <3> SUFFICES ASSUME NEW a, NEW b
                 PROVE  Ahead(a, b)' <=> Ahead(a, b) \/ (a \in Range(waiters) /\ b = c)
      OBVIOUS
    <3>1. waiters \in Seq(Callers) /\ c \notin Range(waiters)
          /\ waiters' = Append(waiters, c)
      BY <1>3 DEF Inv, TypeOK, WaitersAreSuspended, AcquireWaits
    <3>2. Precedes(Append(waiters, c), a, b)
             <=> Precedes(waiters, a, b) \/ (a \in Range(waiters) /\ b = c)
      BY <3>1, PrecedesAppend
    <3> QED
      BY <3>1, <3>2 DEF Ahead, Precedes
  <2>2. ~ \E a : Ahead(a, c) \/ Ahead(c, a)
    BY <1>3 DEF Ahead, Inv, WaitersAreSuspended, Range
  <2>3. Range(waiters) = Suspended
    BY DEF Inv, WaitersAreSuspended
  <2>4. \A a, b : <<a, b>> \in Order' <=> <<a, b>> \in Order \cup (Waiting \X {c})
    BY <1>3, <2>1, <2>2, <2>3 DEF Order
  <2>5. /\ Order' \subseteq Waiting' \X Waiting'
        /\ Order \cup (Waiting \X {c}) \subseteq Waiting' \X Waiting'
    BY <1>3 DEF Order
  <2> QED
    BY <2>4, <2>5
<1> QED
  BY <1>1, <1>2, <1>3, <1>4
     DEF Admission!Join, Admission!Present, Serving, Leaving, Refused, Order

(* A resumed caller keeps its place; the callers it wakes get theirs. *)
LEMMA ResumeRefines ==
    ASSUME Inv, Inv', NEW c \in Callers, Resume(c)
    PROVE  Admission!Promote
<1>1. /\ HandOn(c, "holding", value, value) /\ Dequeue(c) /\ task[c] = "granted"
      /\ task[c] # "waiting"
  BY DEF Resume
<1>2. c \notin Waiting'
  BY <1>1 DEF HandOn, Inv, TypeOK, Waiting, In
<1>3. \A a, b \in Waiting' : Ahead(a, b)' <=> Ahead(a, b)
  BY <1>1, <1>2, DequeueKeepsOrder
<1>4. /\ \E chosen \in SUBSET Waiting :
            Admission!HandOver((Serving \ {c}) \cup (IF "holding" = "holding" THEN {c} ELSE {}),
                               chosen)
      /\ Leaving' = Leaving \ {c}
      /\ Refused' = Refused \ {c}
  BY <1>1, <1>3, HandOnIsHandOver
<1>5. c \in Serving /\ c \notin Leaving /\ c \notin Refused
  BY <1>1 DEF Serving, Leaving, Refused, In
<1>6. (Serving \ {c}) \cup (IF "holding" = "holding" THEN {c} ELSE {}) = Serving
  BY <1>5
<1> QED
  BY <1>4, <1>5, <1>6 DEF Admission!Promote, Serving, Leaving, Refused

(* A slot that a woken caller gives up is free for the abstract service at once,
   although the semaphore gets it back only when the caller unwinds.          *)
LEMMA CancelRefines ==
    ASSUME Inv, NEW c \in Callers, Cancel(c)
    PROVE  Admission!GiveUp(c)
<1>1. /\ c \in Serving \cup Waiting
      /\ Serving' = Serving \ {c} /\ Waiting' = Waiting \ {c}
      /\ Leaving' = Leaving \cup {c} /\ Refused' = Refused
  BY DEF Inv, TypeOK, Stages, Cancel, Serving, Waiting, Leaving, Refused, In
<1>2. \A a, b : Ahead(a, b)' <=> Ahead(a, b)
  BY DEF Ahead, Cancel
<1>3. Order' = {p \in Order : p[1] \notin {c} /\ p[2] \notin {c}}
  BY <1>1, <1>2 DEF Order
<1> QED
  BY <1>1, <1>3 DEF Admission!GiveUp, Admission!Dequeue, Serving, Leaving, Refused, Order

LEMMA UnwindRefines ==
    ASSUME Inv, Inv', NEW c \in Callers, Unwind(c)
    PROVE  Admission!Leave(c)
<1> DEFINE free == IF task[c] = "grantCancelled" THEN value + 1 ELSE value
<1>1. /\ HandOn(c, "out", free, free) /\ Dequeue(c)
      /\ task[c] \in {"cancelled", "grantCancelled"} /\ task[c] # "waiting"
  BY DEF Unwind
<1> HIDE DEF free
<1>2. c \notin Waiting'
  BY <1>1 DEF HandOn, Inv, TypeOK, Waiting, In
<1>3. \A a, b \in Waiting' : Ahead(a, b)' <=> Ahead(a, b)
  BY <1>1, <1>2, DequeueKeepsOrder
<1>4. /\ \E chosen \in SUBSET Waiting :
            Admission!HandOver((Serving \ {c}) \cup (IF "out" = "holding" THEN {c} ELSE {}),
                               chosen)
      /\ Leaving' = Leaving \ {c}
      /\ Refused' = Refused \ {c}
  BY <1>1, <1>3, HandOnIsHandOver
<1>5. c \notin Serving /\ c \in Leaving /\ c \notin Refused
  BY <1>1 DEF Serving, Leaving, Refused, In
<1>6. (Serving \ {c}) \cup (IF "out" = "holding" THEN {c} ELSE {}) = Serving
  BY <1>5
<1> QED
  BY <1>4, <1>5, <1>6 DEF Admission!Leave, Serving, Leaving, Refused

LEMMA ReleaseRefines ==
    ASSUME Inv, Inv', NEW c \in Callers, Release(c)
    PROVE  Admission!Finish(c)
<1>1. /\ HandOn(c, "out", value + 1, 1) /\ task[c] = "holding" /\ task[c] # "waiting"
      /\ waiters' = waiters
  BY DEF Release
<1>2. \A a, b \in Waiting' : Ahead(a, b)' <=> Ahead(a, b)
  BY <1>1 DEF Ahead
<1>3. /\ \E chosen \in SUBSET Waiting :
            Admission!HandOver((Serving \ {c}) \cup (IF "out" = "holding" THEN {c} ELSE {}),
                               chosen)
      /\ Leaving' = Leaving \ {c}
      /\ Refused' = Refused \ {c}
  BY <1>1, <1>2, HandOnIsHandOver
<1>4. c \in Serving /\ c \notin Leaving /\ c \notin Refused
  BY <1>1 DEF Serving, Leaving, Refused, In
<1>5. (Serving \ {c}) \cup (IF "out" = "holding" THEN {c} ELSE {}) = Serving \ {c}
  OBVIOUS
<1> QED
  BY <1>3, <1>4, <1>5 DEF Admission!Finish, Serving, Leaving, Refused

LEMMA NextRefines == Inv /\ Inv' /\ [Next]_vars => [Admission!Next]_(Admission!vars)
<1> SUFFICES ASSUME Inv, Inv', [Next]_vars PROVE [Admission!Next]_(Admission!vars)
  OBVIOUS
<1>1. CASE UNCHANGED vars
  <2>1. /\ Serving' = Serving /\ Waiting' = Waiting /\ Leaving' = Leaving
        /\ Refused' = Refused /\ waiters' = waiters
    BY <1>1 DEF vars, Serving, Waiting, Leaving, Refused, In
  <2>2. Order' = Order
    BY <2>1, SameOrder
  <2> QED
    BY <2>1, <2>2 DEF Admission!vars, Serving, Leaving, Refused, Order
<1>2. ASSUME NEW c \in Callers, Acquire(c) PROVE Admission!Next
  BY <1>2, RefuseRefines, AcquireAtOnceRefines, AcquireWaitsRefines DEF Acquire, Admission!Next
<1>3. ASSUME NEW c \in Callers, Resume(c) PROVE Admission!Next
  BY <1>3, ResumeRefines DEF Admission!Next
<1>4. ASSUME NEW c \in Callers, Cancel(c) PROVE Admission!Next
  BY <1>4, CancelRefines DEF Admission!Next
<1>5. ASSUME NEW c \in Callers, Unwind(c) PROVE Admission!Next
  BY <1>5, UnwindRefines DEF Admission!Next
<1>6. ASSUME NEW c \in Callers, Release(c) PROVE Admission!Next
  BY <1>6, ReleaseRefines DEF Admission!Next
<1> QED
  BY <1>1, <1>2, <1>3, <1>4, <1>5, <1>6 DEF Next

(* The semaphore and the counter keep the promise of AdmissionControl, for every
   set of callers and every limit: places are given in arrival order, at most
   Limit at once, and a caller is turned away only when limit + max_queue_depth
   others are present (core/concurrency.py:44-80).                              *)
THEOREM KeepsThePromise == Spec => ImplementsAdmission
<1>1. Init => Admission!Init
  BY InitRefines
<1>2. Inv /\ Inv' /\ [Next]_vars => [Admission!Next]_(Admission!vars)
  BY NextRefines
<1>3. Spec => []Inv
  BY InvHolds
<1> QED
  BY <1>1, <1>2, <1>3, PTL DEF Spec, ImplementsAdmission, Admission!Spec
=============================================================================
