----------------------- MODULE ConcurrencyController -----------------------
(***************************************************************************)
(* core/concurrency.py: the per-provider gate in front of synthesis.  It   *)
(* wraps an asyncio.Semaphore (external: CPython 3.12, the version the     *)
(* project requires) and keeps a counter of the callers inside, in order   *)
(* to refuse a caller instead of queueing it without bound.                *)
(*                                                                         *)
(* Everything between two awaits is one action: that is asyncio's          *)
(* scheduling.  A semaphore waiter is woken by one task (its future gets a *)
(* result) and resumes in a later step of its own; it can be cancelled     *)
(* before or after it was woken, which is where slots and counts get lost. *)
(***************************************************************************)
EXTENDS Integers, FiniteSets, Sequences, SequencesExt

CONSTANTS
    Callers,        \* the coroutines that use this controller
    Unbounded,      \* those of them that use `async with`, which never refuses
    Limit,          \* provider concurrency
    MaxQueueDepth   \* settings.server.max_queue_depth

ASSUME CallersAssumption == IsFiniteSet(Callers) /\ Unbounded \subseteq Callers
ASSUME LimitAssumption == Limit \in Nat \ {0}
ASSUME DepthAssumption == MaxQueueDepth \in Int

VARIABLES
    task,      \* where each caller stands with respect to the controller
    waiters,   \* Semaphore._waiters: callers suspended in Semaphore.acquire
    value,     \* Semaphore._value
    pending    \* ConcurrencyController._pending

vars == <<task, waiters, value, pending>>

(* "granted": woken, not resumed.  "cancelled" and "grantCancelled": told to
   stop, before or after the wake-up, and not resumed.                      *)
Stages == {"out", "refused", "waiting", "granted",
           "cancelled", "grantCancelled", "holding"}

In(S) == {c \in Callers : task[c] \in S}

Waiting  == In({"waiting"})
Suspended == In({"waiting", "granted", "cancelled", "grantCancelled"})
Slotted  == In({"granted", "grantCancelled", "holding"})
Inside   == Callers \ In({"out", "refused"})

Clip(n) == IF n < 0 THEN 0 ELSE n
Least(m, n) == IF m < n THEN m ELSE n

-----------------------------------------------------------------------------
(* asyncio.Semaphore *)

Locked == \/ value = 0
          \/ \E i \in DOMAIN waiters : task[waiters[i]] # "cancelled"

Ahead(c, d) == \E i, j \in DOMAIN waiters :
                  i < j /\ waiters[i] = c /\ waiters[j] = d

(* G is the set of callers that n calls of _wake_up_next() wake. *)
WakesFirst(n, G) ==
    /\ G \subseteq Waiting
    /\ Cardinality(G) = Least(n, Cardinality(Waiting))
    /\ \A g \in G, w \in Waiting \ G : Ahead(g, w)

(* Caller c moves to a stage outside the waiters' list, leaving `free` units
   of which at most n go to waiters.                                        *)
HandOn(c, stage, free, n) ==
    \E G \in SUBSET Waiting :
        /\ WakesFirst(n, G)
        /\ value' = free - Cardinality(G)
        /\ task' = [d \in Callers |-> IF d = c THEN stage
                                      ELSE IF d \in G THEN "granted"
                                      ELSE task[d]]

-----------------------------------------------------------------------------
(* ConcurrencyController *)

Init == /\ task = [c \in Callers |-> "out"]
        /\ waiters = <<>>
        /\ value = Limit
        /\ pending = 0

(* queue_depth() and in_flight() *)
QueueDepth == Clip(pending - Limit)
InFlight == Least(pending, Limit)

(* max(0, (self._pending + 1) - self._limit) *)
ProjectedQueue_Late == Clip(pending - Limit)
ProjectedQueue_Early == Clip(pending + 2 - Limit)
ProjectedQueue == Clip(pending + 1 - Limit)

Admits(c) == c \in Unbounded \/ ProjectedQueue <= MaxQueueDepth

Idle(c) == task[c] \in {"out", "refused"}

Refuse(c) ==
    /\ Idle(c)
    /\ ~ Admits(c)
    /\ task' = [task EXCEPT ![c] = "refused"]
    /\ UNCHANGED <<waiters, value, pending>>

AcquireAtOnce(c) ==
    /\ Idle(c)
    /\ Admits(c)
    /\ ~ Locked
    /\ pending' = pending + 1
    /\ value' = value - 1
    /\ task' = [task EXCEPT ![c] = "holding"]
    /\ UNCHANGED waiters

AcquireWaits(c) ==
    /\ Idle(c)
    /\ Admits(c)
    /\ Locked
    /\ pending' = pending + 1
    /\ waiters' = Append(waiters, c)
    /\ task' = [task EXCEPT ![c] = "waiting"]
    /\ UNCHANGED value

(* acquire() and __aenter__() up to their first suspension or their return *)
Acquire(c) == Refuse(c) \/ AcquireAtOnce(c) \/ AcquireWaits(c)

(* `finally: self._waiters.remove(fut)` *)
Dequeue(c) == \E i \in DOMAIN waiters : /\ waiters[i] = c
                                        /\ waiters' = RemoveAt(waiters, i)

(* The caller resumes with its slot, and passes on units freed meanwhile. *)
Resume(c) ==
    /\ task[c] = "granted"
    /\ Dequeue(c)
    /\ HandOn(c, "holding", value, value)
    /\ UNCHANGED pending

(* task.cancel(), by whoever owns the caller's task *)
Cancel(c) ==
    /\ \/ /\ task[c] = "waiting"
          /\ task' = [task EXCEPT ![c] = "cancelled"]
       \/ /\ task[c] = "granted"
          /\ task' = [task EXCEPT ![c] = "grantCancelled"]
    /\ UNCHANGED <<waiters, value, pending>>

(* `except BaseException: self._pending -= 1; raise` *)
PendingOnCancel_Leaks == pending
PendingOnCancel == pending - 1

Unwind_NoWake(c) ==
    /\ task[c] \in {"cancelled", "grantCancelled"}
    /\ Dequeue(c)
    /\ HandOn(c, "out", IF task[c] = "grantCancelled" THEN value + 1 ELSE value, 0)
    /\ pending' = PendingOnCancel

(* CancelledError surfaces in the caller; a unit it was granted goes back. *)
Unwind(c) ==
    /\ task[c] \in {"cancelled", "grantCancelled"}
    /\ Dequeue(c)
    /\ LET free == IF task[c] = "grantCancelled" THEN value + 1 ELSE value
       IN  HandOn(c, "out", free, free)
    /\ pending' = PendingOnCancel

PendingOnRelease_Kept == pending
PendingOnRelease == pending - 1

Release_NoSemaphore(c) ==
    /\ task[c] = "holding"
    /\ HandOn(c, "out", value, 0)
    /\ pending' = PendingOnRelease
    /\ UNCHANGED waiters

(* release(), and __aexit__() *)
Release(c) ==
    /\ task[c] = "holding"
    /\ HandOn(c, "out", value + 1, 1)
    /\ pending' = PendingOnRelease
    /\ UNCHANGED waiters

Next == \E c \in Callers : \/ Acquire(c)
                           \/ Resume(c)
                           \/ Cancel(c)
                           \/ Unwind(c)
                           \/ Release(c)

Spec == Init /\ [][Next]_vars

(* The event loop runs every task that is ready, and a slot is held for at
   most server.request_timeout_seconds: both ends of a stay make progress.
   Arrivals and cancellations are never owed.                               *)
Fairness == \A c \in Callers : /\ WF_vars(Resume(c))
                               /\ WF_vars(Unwind(c))
                               /\ WF_vars(Release(c))

FairSpec == Spec /\ Fairness
-----------------------------------------------------------------------------
TypeOK ==
    /\ task \in [Callers -> Stages]
    /\ waiters \in Seq(Callers)
    /\ value \in 0 .. Limit
    /\ pending \in Nat

(* Every unit of the semaphore is free, on its way to a woken caller, or owned
   by a caller that will release it: a caller cancelled at the very moment it
   was woken does not take the slot with it.                                 *)
SlotConservation == value + Cardinality(Slotted) = Limit

(* _pending counts the callers between their increment and their decrement,
   whichever way they leave: the admission check and queue_depth() rest on it. *)
PendingExact == pending = Cardinality(Inside)

(* acquire() never lets more callers in than it may serve and queue, however
   arrivals, wake-ups and cancellations interleave with the check.            *)
BoundedAdmission ==
    Cardinality(Inside \ Unbounded) <= IF MaxQueueDepth < 0 THEN 0
                                       ELSE Limit + MaxQueueDepth

(* No slot sits free beside a waiter unless a woken task is still to run, and
   that task passes the slot on.                                              *)
NoLostWakeup ==
    value > 0 /\ Waiting # {} => In({"granted", "grantCancelled"}) # {}

(* Whenever no wake-up or cancellation is in flight, queue_depth() and
   in_flight() report the callers that really wait and hold, although they are
   computed from one counter.                                                 *)
ReportsExact ==
    In({"granted", "cancelled", "grantCancelled"}) = {} =>
        /\ QueueDepth = Cardinality(Waiting)
        /\ InFlight = Cardinality(In({"holding"}))

(* The gate keeps the promise stated in AdmissionControl: places are given in
   arrival order, and nobody is refused while there is room.                  *)
Admission == INSTANCE AdmissionControl WITH
    serving <- In({"granted", "holding"}),
    queue   <- Waiting,
    ahead   <- {p \in Waiting \X Waiting : Ahead(p[1], p[2])},
    leaving <- In({"cancelled", "grantCancelled"}),
    refused <- In({"refused"})

ImplementsAdmission == Admission!Spec

(* A caller that waits is woken, or its own task is cancelled. *)
WaiterLeavesQueue ==
    \A c \in Callers : task[c] = "waiting" ~> task[c] # "waiting"
=============================================================================
