---------------------------- MODULE ProviderLoad ----------------------------
(***************************************************************************)
(* ProviderRegistry.ensure_loaded() of core/registry.py on one             *)
(* ProviderEntry, as api/speech.py calls it: inside a wait_for with the    *)
(* request timeout.  Callers serialize on the entry's asyncio.Lock         *)
(* (external: CPython 3.12), check `loaded` before and after they get it,  *)
(* and the one inside awaits the provider's load().                        *)
(***************************************************************************)
EXTENDS Naturals, FiniteSets, Sequences, SequencesExt

CONSTANT Callers   \* the requests that warm this provider up

ASSUME LoadersAssumption == IsFiniteSet(Callers)

VARIABLES
    stage,       \* where each caller stands in ensure_loaded()
    lock_queue,  \* callers suspended in load_lock.acquire(), not yet woken
    loaded,      \* ProviderEntry.loaded
    load_error   \* ProviderEntry.load_error is set

vars == <<stage, lock_queue, loaded, load_error>>

(* "woken": the lock was handed to it and it has not resumed.
   "loading": it holds the lock and awaits load().               *)
Answered == {"idle", "done", "unavailable", "timedOut"}
Stages == Answered \cup {"waiting", "woken", "loading"}

At(S) == {c \in Callers : stage[c] \in S}

(* Lock.locked(), or a woken waiter that a newcomer must not overtake *)
Busy == At({"woken", "loading"}) # {}

Init == /\ stage = [c \in Callers |-> "idle"]
        /\ lock_queue = <<>>
        /\ loaded = FALSE
        /\ load_error = FALSE

(* Caller c, which has the lock, answers and leaves `async with load_lock`:
   the first waiter is woken.                                               *)
LeaveLock_NoWake(c, answer) ==
    /\ stage' = [stage EXCEPT ![c] = answer]
    /\ UNCHANGED lock_queue

LeaveLock(c, answer) ==
    IF lock_queue = <<>>
    THEN /\ stage' = [stage EXCEPT ![c] = answer]
         /\ UNCHANGED lock_queue
    ELSE /\ stage' = [stage EXCEPT ![c] = answer, ![Head(lock_queue)] = "woken"]
         /\ lock_queue' = Tail(lock_queue)

(* ensure_loaded() up to its first suspension or its return *)
FastPath(c) ==
    /\ stage[c] \in Answered
    /\ loaded
    /\ stage' = [stage EXCEPT ![c] = "done"]
    /\ UNCHANGED <<lock_queue, loaded, load_error>>

StartLoad(c) ==
    /\ stage[c] \in Answered
    /\ ~ loaded
    /\ ~ Busy
    /\ stage' = [stage EXCEPT ![c] = "loading"]
    /\ UNCHANGED <<lock_queue, loaded, load_error>>

AwaitLock_NeverQueues(c) ==
    /\ stage[c] \in Answered
    /\ ~ loaded
    /\ Busy
    /\ stage' = [stage EXCEPT ![c] = "loading"]
    /\ UNCHANGED <<lock_queue, loaded, load_error>>

AwaitLock(c) ==
    /\ stage[c] \in Answered
    /\ ~ loaded
    /\ Busy
    /\ stage' = [stage EXCEPT ![c] = "waiting"]
    /\ lock_queue' = Append(lock_queue, c)
    /\ UNCHANGED <<loaded, load_error>>

EnsureLoaded(c) == FastPath(c) \/ StartLoad(c) \/ AwaitLock(c)

Resume_NoRecheck(c) ==
    /\ stage[c] = "woken"
    /\ stage' = [stage EXCEPT ![c] = "loading"]
    /\ UNCHANGED <<lock_queue, loaded, load_error>>

(* The woken caller takes the lock and checks again. *)
Resume(c) ==
    /\ stage[c] = "woken"
    /\ \/ /\ loaded
          /\ LeaveLock(c, "done")
       \/ /\ ~ loaded
          /\ stage' = [stage EXCEPT ![c] = "loading"]
          /\ UNCHANGED lock_queue
    /\ UNCHANGED <<loaded, load_error>>

LoadSucceeds(c) ==
    /\ stage[c] = "loading"
    /\ LeaveLock(c, "done")
    /\ loaded' = TRUE
    /\ UNCHANGED load_error

LoadFails_ForAll(c) ==
    /\ stage[c] = "loading"
    /\ stage' = [d \in Callers |-> IF stage[d] \in {"loading", "waiting"} THEN "unavailable"
                                   ELSE stage[d]]
    /\ lock_queue' = <<>>
    /\ load_error' = TRUE
    /\ UNCHANGED loaded

LoadFails(c) ==
    /\ stage[c] = "loading"
    /\ LeaveLock(c, "unavailable")
    /\ load_error' = TRUE
    /\ UNCHANGED loaded

(* wait_for's timer: the caller is cancelled wherever it is suspended.  A load
   that is cut short records nothing; a lock already handed over goes on.     *)
Timeout(c) ==
    /\ \/ /\ stage[c] = "waiting"
          /\ stage' = [stage EXCEPT ![c] = "timedOut"]
          /\ \E i \in DOMAIN lock_queue :
                /\ lock_queue[i] = c
                /\ lock_queue' = RemoveAt(lock_queue, i)
       \/ /\ stage[c] \in {"woken", "loading"}
          /\ LeaveLock(c, "timedOut")
    /\ UNCHANGED <<loaded, load_error>>

Next == \E c \in Callers : \/ EnsureLoaded(c)
                           \/ Resume(c)
                           \/ LoadSucceeds(c)
                           \/ LoadFails(c)
                           \/ Timeout(c)

Spec == Init /\ [][Next]_vars

(* Ready tasks run, and a load() ends: by itself, or when its caller's timer
   fires.  Waiters are not promised their own timers here.                   *)
LoadEnds(c) == LoadSucceeds(c) \/ LoadFails(c) \/ (stage[c] = "loading" /\ Timeout(c))

Fairness == \A c \in Callers : WF_vars(Resume(c)) /\ WF_vars(LoadEnds(c))

FairSpec == Spec /\ Fairness
-----------------------------------------------------------------------------
TypeOK ==
    /\ stage \in [Callers -> Stages]
    /\ lock_queue \in Seq(Callers)
    /\ Range(lock_queue) = At({"waiting"})
    /\ IsInjective(lock_queue)
    /\ loaded \in BOOLEAN
    /\ load_error \in BOOLEAN

(* load_lock admits one caller at a time, and nobody waits for a lock that nobody
   holds or is about to take, also when the holder is cut short by its timeout
   while another caller has just been woken.                                   *)
LockExclusive ==
    /\ \A c, d \in At({"woken", "loading"}) : c = d
    /\ lock_queue # <<>> => Busy

(* "Idempotent provider warm-up": load() is never entered again once a load has
   succeeded, however many callers queued up behind it meanwhile.              *)
NeverReloads ==
    [][\A c \in Callers :
          stage'[c] = "loading" /\ stage[c] # "loading" => ~ loaded]_vars

(* A caller goes on to synthesis only with a loaded provider, and is refused with
   "failed to load" only by a load() of its own that raised: one that fails does
   not answer those queued behind it, who may yet find the provider loaded.     *)
AnswersTruthful ==
    [][\A c \in Callers :
          /\ stage'[c] = "done" /\ stage[c] # "done" => loaded'
          /\ stage'[c] = "unavailable" /\ stage[c] # "unavailable"
                => stage[c] = "loading" /\ ~ loaded']_vars

(* A caller behind the lock is answered although it relies on other callers'
   loads, which may fail or time out one after the other.                     *)
WaiterAnswered ==
    \A c \in Callers : stage[c] = "waiting" ~> stage[c] \in Answered
=============================================================================
