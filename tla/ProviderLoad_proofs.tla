------------------------- MODULE ProviderLoad_proofs -------------------------
(***************************************************************************)
(* The load lock admits one caller at a time, a provider is loaded once,   *)
(* and callers are answered with the truth about it: for every finite set  *)
(* of callers and every order of loads, failures and timeouts.             *)
(***************************************************************************)
EXTENDS ProviderLoad, SequenceLemmas, TLAPS

(* A load is under way only while the provider is not loaded: no one else can
   have finished one meanwhile, and who resumes after a success checks again.  *)
LoadingIsUnloaded == \A c \in Callers : stage[c] = "loading" => ~ loaded

Inv == TypeOK /\ LockExclusive /\ LoadingIsUnloaded

-----------------------------------------------------------------------------
LEMMA InitInv == Init => Inv
<1> SUFFICES ASSUME Init PROVE Inv
  OBVIOUS
<1>1. At({"waiting"}) = {} /\ At({"woken", "loading"}) = {}
  BY DEF Init, At
<1>2. <<>> \in Seq(Callers) /\ Range(<<>>) = {} /\ IsInjective(<<>>)
  BY DEF Range, IsInjective
<1> QED
  BY <1>1, <1>2 DEF Init, Inv, TypeOK, Stages, Answered, LockExclusive, LoadingIsUnloaded

(* The caller at the lock leaves it: the lock goes to the head of the queue, who
   has not started to load, and if there is none nobody is left behind.          *)
LEMMA LeavingLock ==
    ASSUME Inv, NEW c \in Callers, stage[c] \in {"woken", "loading"},
           NEW answer \in Answered, LeaveLock(c, answer)
    PROVE  /\ stage' \in [Callers -> Stages]
           /\ lock_queue' \in Seq(Callers)
           /\ IsInjective(lock_queue')
           /\ Range(lock_queue') = At({"waiting"})'
           /\ LockExclusive'
           /\ \A d \in Callers : stage'[d] # "loading"
<1>1. At({"woken", "loading"}) = {c}
  BY DEF Inv, LockExclusive, At
<1>2. CASE lock_queue = <<>>
  <2>1. /\ stage' = [stage EXCEPT ![c] = answer]
        /\ lock_queue' = lock_queue
    BY <1>2 DEF LeaveLock
  <2>2. At({"waiting"})' = At({"waiting"}) /\ At({"woken", "loading"})' = {}
    BY <1>1, <2>1 DEF Inv, TypeOK, At, Answered
  <2> QED
    BY <1>2, <2>1, <2>2 DEF Inv, TypeOK, At, LockExclusive, Stages
<1>3. CASE lock_queue # <<>>
  <2> DEFINE h == Head(lock_queue)
  <2>1. /\ stage' = [stage EXCEPT ![c] = answer, ![h] = "woken"]
        /\ lock_queue' = Tail(lock_queue)
    BY <1>3 DEF LeaveLock
  <2>2. /\ h \in Range(lock_queue)
        /\ lock_queue' \in Seq(Callers)
        /\ IsInjective(lock_queue')
        /\ Range(lock_queue') = Range(lock_queue) \ {h}
    BY <1>3, <2>1, QueueTail DEF Inv, TypeOK
  <2> HIDE DEF h
  <2>3. h \in Callers /\ stage[h] = "waiting" /\ h # c
    BY <2>2 DEF Inv, TypeOK, At
  <2>4. /\ stage' \in [Callers -> Stages]
        /\ At({"waiting"})' = At({"waiting"}) \ {h}
        /\ At({"woken", "loading"})' = {h}
        /\ \A d \in Callers : stage'[d] # "loading"
    BY <1>1, <2>1, <2>3 DEF Inv, TypeOK, At, Answered, Stages
  <2> QED
    BY <2>2, <2>4 DEF Inv, TypeOK, LockExclusive, Busy
<1> QED
  BY <1>2, <1>3

-----------------------------------------------------------------------------
LEMMA EnsureLoadedInv == ASSUME Inv, NEW c \in Callers, EnsureLoaded(c) PROVE Inv'
<1>1. CASE FastPath(c)
  <2>1. /\ stage' \in [Callers -> Stages]
        /\ At({"waiting"})' = At({"waiting"})
        /\ At({"woken", "loading"})' = At({"woken", "loading"})
    BY <1>1 DEF FastPath, Inv, TypeOK, At, Answered, Stages
  <2> QED
    BY <1>1, <2>1 DEF FastPath, Inv, TypeOK, LockExclusive, LoadingIsUnloaded, Busy
<1>2. CASE StartLoad(c)
  <2>1. /\ stage' \in [Callers -> Stages]
        /\ At({"waiting"})' = At({"waiting"})
        /\ At({"woken", "loading"})' = {c}
    BY <1>2 DEF StartLoad, Busy, Inv, TypeOK, At, Answered, Stages
  <2> QED
    BY <1>2, <2>1 DEF StartLoad, Inv, TypeOK, LockExclusive, LoadingIsUnloaded, Busy
<1>3. CASE AwaitLock(c)
  <2>1. /\ stage' \in [Callers -> Stages]
        /\ At({"waiting"})' = At({"waiting"}) \cup {c}
        /\ c \notin At({"waiting"})
        /\ At({"woken", "loading"})' = At({"woken", "loading"})
    BY <1>3 DEF AwaitLock, Inv, TypeOK, At, Answered, Stages
  <2>2. /\ lock_queue' \in Seq(Callers)
        /\ IsInjective(lock_queue')
        /\ Range(lock_queue') = Range(lock_queue) \cup {c}
    <3>1. /\ lock_queue \in Seq(Callers) /\ IsInjective(lock_queue)
          /\ c \notin Range(lock_queue)
          /\ lock_queue' = Append(lock_queue, c)
      BY <1>3, <2>1 DEF AwaitLock, Inv, TypeOK
    <3> QED
      BY <3>1, QueueAppend
  <2> QED
    BY <1>3, <2>1, <2>2 DEF AwaitLock, Inv, TypeOK, LockExclusive, LoadingIsUnloaded, Busy
<1> QED
  BY <1>1, <1>2, <1>3 DEF EnsureLoaded

LEMMA ResumeInv == ASSUME Inv, NEW c \in Callers, Resume(c) PROVE Inv'
<1>1. CASE loaded /\ LeaveLock(c, "done")
  BY <1>1, LeavingLock DEF Resume, Inv, TypeOK, Answered, LoadingIsUnloaded
<1>2. CASE /\ ~ loaded
           /\ stage' = [stage EXCEPT ![c] = "loading"]
           /\ UNCHANGED lock_queue
  <2>1. /\ stage' \in [Callers -> Stages]
        /\ At({"waiting"})' = At({"waiting"})
        /\ At({"woken", "loading"})' = At({"woken", "loading"})
    BY <1>2 DEF Resume, Inv, TypeOK, At, Stages
  <2> QED
    BY <1>2, <2>1 DEF Resume, Inv, TypeOK, LockExclusive, LoadingIsUnloaded, Busy
<1> QED
  BY <1>1, <1>2 DEF Resume

LEMMA LoadEndsInv ==
    ASSUME Inv, NEW c \in Callers, LoadSucceeds(c) \/ LoadFails(c) PROVE Inv'
<1>1. PICK answer \in Answered : stage[c] = "loading" /\ LeaveLock(c, answer)
  BY DEF LoadSucceeds, LoadFails, Answered
<1>2. loaded' \in BOOLEAN /\ load_error' \in BOOLEAN
  BY DEF LoadSucceeds, LoadFails, Inv, TypeOK
<1> QED
  BY <1>1, <1>2, LeavingLock DEF Inv, TypeOK, LoadingIsUnloaded

LEMMA TimeoutInv == ASSUME Inv, NEW c \in Callers, Timeout(c) PROVE Inv'
<1>1. CASE stage[c] = "waiting"
  <2>1. PICK i \in DOMAIN lock_queue : /\ lock_queue[i] = c
                                       /\ lock_queue' = RemoveAt(lock_queue, i)
    BY <1>1 DEF Timeout
  <2>2. stage' = [stage EXCEPT ![c] = "timedOut"]
    BY <1>1 DEF Timeout
  <2>3. /\ lock_queue' \in Seq(Callers)
        /\ IsInjective(lock_queue')
        /\ Range(lock_queue') = Range(lock_queue) \ {c}
    BY <2>1, QueueRemoveAt DEF Inv, TypeOK
  <2>4. /\ stage' \in [Callers -> Stages]
        /\ At({"waiting"})' = At({"waiting"}) \ {c}
        /\ At({"woken", "loading"})' = At({"woken", "loading"})
    BY <1>1, <2>2 DEF Inv, TypeOK, At, Answered, Stages
  <2>5. lock_queue # <<>>
    BY <2>1
  <2> QED
    BY <2>2, <2>3, <2>4, <2>5
       DEF Timeout, Inv, TypeOK, LockExclusive, LoadingIsUnloaded, Busy
<1>2. CASE stage[c] \in {"woken", "loading"}
  BY <1>2, LeavingLock DEF Timeout, Inv, TypeOK, Answered, LoadingIsUnloaded
<1> QED
  BY <1>1, <1>2 DEF Timeout

(* Every step, and every stutter, preserves the invariant. *)
LEMMA NextInv == Inv /\ [Next]_vars => Inv'
<1> SUFFICES ASSUME Inv, [Next]_vars PROVE Inv'
  OBVIOUS
<1>1. CASE UNCHANGED vars
  BY <1>1 DEF vars, Inv, TypeOK, LockExclusive, LoadingIsUnloaded, Busy, At
<1>2. ASSUME NEW c \in Callers, EnsureLoaded(c) PROVE Inv'
  BY <1>2, EnsureLoadedInv
<1>3. ASSUME NEW c \in Callers, Resume(c) PROVE Inv'
  BY <1>3, ResumeInv
<1>4. ASSUME NEW c \in Callers, LoadSucceeds(c) \/ LoadFails(c) PROVE Inv'
  BY <1>4, LoadEndsInv
<1>5. ASSUME NEW c \in Callers, Timeout(c) PROVE Inv'
  BY <1>5, TimeoutInv
<1> QED
  BY <1>1, <1>2, <1>3, <1>4, <1>5 DEF Next

-----------------------------------------------------------------------------
THEOREM InvHolds == Spec => []Inv
<1>1. Init => Inv
  BY InitInv
<1>2. Inv /\ [Next]_vars => Inv'
  BY NextInv
<1> QED
  BY <1>1, <1>2, PTL DEF Spec

(* One caller at a time is at the load lock (registry.py: `async with
   entry.load_lock`), and no caller waits for a lock that nobody holds or is
   about to take, whichever callers time out.                                *)
THEOREM LockAdmitsOne == Spec => []LockExclusive
<1>1. Inv => LockExclusive
  BY DEF Inv
<1> QED
  BY <1>1, InvHolds, PTL

(* load() is never entered after a load has succeeded: the callers that queued
   up behind it check again before they call it.                              *)
THEOREM LoadedOnce == Spec => NeverReloads
<1> DEFINE A == \A c \in Callers :
                   stage'[c] = "loading" /\ stage[c] # "loading" => ~ loaded
<1>1. Inv /\ [Next]_vars => [A]_vars
  <2> SUFFICES ASSUME Inv, Next, NEW c \in Callers,
                      stage'[c] = "loading", stage[c] # "loading"
               PROVE  ~ loaded
    OBVIOUS
  <2>1. PICK d \in Callers : \/ EnsureLoaded(d) \/ Resume(d) \/ LoadSucceeds(d)
                             \/ LoadFails(d) \/ Timeout(d)
    BY DEF Next
  <2>2. ASSUME NEW answer \in Answered, stage[d] \in {"woken", "loading"},
               LeaveLock(d, answer)
        PROVE  FALSE
    BY <2>2, LeavingLock
  <2>3. CASE EnsureLoaded(d)
    BY <2>3 DEF EnsureLoaded, FastPath, StartLoad, AwaitLock, Inv, TypeOK
  <2>4. CASE Resume(d)
    BY <2>2, <2>4 DEF Resume, Answered
  <2>5. CASE LoadSucceeds(d) \/ LoadFails(d)
    BY <2>2, <2>5 DEF LoadSucceeds, LoadFails, Answered
  <2>6. CASE Timeout(d)
    <3>1. CASE stage[d] = "waiting"
      BY <2>6, <3>1 DEF Timeout, Inv, TypeOK
    <3>2. CASE stage[d] \in {"woken", "loading"}
      BY <2>2, <2>6, <3>2 DEF Timeout, Answered
    <3> QED
      BY <2>6, <3>1, <3>2 DEF Timeout
  <2> QED
    BY <2>1, <2>3, <2>4, <2>5, <2>6
<1> QED
  BY <1>1, InvHolds, PTL DEF Spec, NeverReloads

(* A caller that is answered "done" finds the provider loaded, also when others
   loaded it between this caller's check and its turn, and one that is told
   "failed to load" has tried itself.                                          *)
THEOREM AnsweredTruthfully == Spec => AnswersTruthful
<1> DEFINE A == \A c \in Callers :
                   /\ stage'[c] = "done" /\ stage[c] # "done" => loaded'
                   /\ stage'[c] = "unavailable" /\ stage[c] # "unavailable"
                         => stage[c] = "loading" /\ ~ loaded'
<1>1. Inv /\ [Next]_vars => [A]_vars
  <2> SUFFICES ASSUME Inv, Next, NEW c \in Callers, stage'[c] # stage[c]
               PROVE  /\ stage'[c] = "done" => loaded'
                      /\ stage'[c] = "unavailable" => stage[c] = "loading" /\ ~ loaded'
    OBVIOUS
  <2>1. PICK d \in Callers : \/ EnsureLoaded(d) \/ Resume(d) \/ LoadSucceeds(d)
                             \/ LoadFails(d) \/ Timeout(d)
    BY DEF Next
  <2>2. ASSUME NEW answer \in Answered, LeaveLock(d, answer)
        PROVE  stage'[c] = "woken" \/ (stage'[c] = answer /\ c = d)
    BY <2>2 DEF LeaveLock, Inv, TypeOK
  <2>3. CASE EnsureLoaded(d)
    BY <2>3 DEF EnsureLoaded, FastPath, StartLoad, AwaitLock, Inv, TypeOK
  <2>4. CASE Resume(d)
    BY <2>2, <2>4 DEF Resume, Answered, Inv, TypeOK
  <2>5. CASE LoadSucceeds(d)
    BY <2>2, <2>5 DEF LoadSucceeds, Answered
  <2>6. CASE LoadFails(d)
    BY <2>2, <2>6 DEF LoadFails, Answered, Inv, LoadingIsUnloaded
  <2>7. CASE Timeout(d)
    BY <2>2, <2>7 DEF Timeout, Answered, Inv, TypeOK
  <2> QED
    BY <2>1, <2>3, <2>4, <2>5, <2>6, <2>7
<1> QED
  BY <1>1, InvHolds, PTL DEF Spec, AnswersTruthful
=============================================================================
