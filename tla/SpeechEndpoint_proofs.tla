----------------------- MODULE SpeechEndpoint_proofs -----------------------
(***************************************************************************)
(* The endpoint drives the gate and the load lock only as their own        *)
(* modules say, so what is proved of them holds in it; its requests are    *)
(* where the gate counts them; its answers carry what was asked for; and   *)
(* so it implements SpeechService.                                         *)
(* For every finite set of clients, every configuration and catalogue.     *)
(***************************************************************************)
EXTENDS SpeechEndpoint, FiniteSetTheorems, SequenceTheorems, TLAPS

GateProofs == INSTANCE ConcurrencyController_proofs WITH
                  Callers <- Requests, Unbounded <- {}
LoadProofs == INSTANCE ProviderLoad_proofs WITH Callers <- Requests

-----------------------------------------------------------------------------
(* The components, and the modules about them, define the same. *)

LEMMA SameFinite ==
    \A S : /\ IsFiniteSet(S) <=> GateProofs!IsFiniteSet(S)
           /\ IsFiniteSet(S) <=> LoadProofs!IsFiniteSet(S)
           /\ Gate!Cardinality(S) = GateProofs!Cardinality(S)
           /\ Cardinality(S) = GateProofs!Cardinality(S)
<1>1. \A S : (IsFiniteSet(S) <=> GateProofs!IsFiniteSet(S))
               /\ (IsFiniteSet(S) <=> LoadProofs!IsFiniteSet(S))
  BY DEF IsFiniteSet, GateProofs!IsFiniteSet, LoadProofs!IsFiniteSet
<1>2. \A S : Gate!Cardinality(S) = GateProofs!Cardinality(S)
  BY DEF Gate!Cardinality, GateProofs!Cardinality
<1>3. \A S : Cardinality(S) = GateProofs!Cardinality(S)
  BY DEF Cardinality, GateProofs!Cardinality
<1> QED
  BY <1>1, <1>2, <1>3

LEMMA GateAssumptions ==
    /\ GateProofs!IsFiniteSet(Requests) /\ {} \subseteq Requests
    /\ Limit \in Nat \ {0} /\ MaxQueueDepth \in Int
BY EndpointAssumption, SameFinite

LEMMA LoadAssumptions == LoadProofs!IsFiniteSet(Requests)
BY EndpointAssumption, SameFinite

LEMMA SameGate == Gate!Spec => GateProofs!Spec
<1>1. Gate!Init => GateProofs!Init
  BY DEF Gate!Init, GateProofs!Init
<1>2. \A n, G : Gate!WakesFirst(n, G) <=> GateProofs!WakesFirst(n, G)
  BY SameFinite DEF Gate!WakesFirst, GateProofs!WakesFirst, Gate!Waiting,
     GateProofs!Waiting, Gate!In, GateProofs!In, Gate!Least, GateProofs!Least,
     Gate!Ahead, GateProofs!Ahead
<1>3. \A c, s, f, n : Gate!HandOn(c, s, f, n) <=> GateProofs!HandOn(c, s, f, n)
  BY <1>2, SameFinite DEF Gate!HandOn, GateProofs!HandOn, Gate!Waiting,
     GateProofs!Waiting, Gate!In, GateProofs!In
<1>4. \A c : Gate!Dequeue(c) <=> GateProofs!Dequeue(c)
  BY DEF Gate!Dequeue, GateProofs!Dequeue, Gate!RemoveAt, GateProofs!RemoveAt
<1>5. \A c : Gate!Acquire(c) <=> GateProofs!Acquire(c)
  BY DEF Gate!Acquire, GateProofs!Acquire, Gate!Refuse, GateProofs!Refuse,
     Gate!AcquireAtOnce, GateProofs!AcquireAtOnce, Gate!AcquireWaits,
     GateProofs!AcquireWaits, Gate!Idle, GateProofs!Idle, Gate!Admits,
     GateProofs!Admits, Gate!ProjectedQueue, GateProofs!ProjectedQueue,
     Gate!Clip, GateProofs!Clip, Gate!Locked, GateProofs!Locked
<1>6. \A c : Gate!Resume(c) <=> GateProofs!Resume(c)
  BY <1>3, <1>4 DEF Gate!Resume, GateProofs!Resume
<1>7. \A c : Gate!Cancel(c) <=> GateProofs!Cancel(c)
  BY DEF Gate!Cancel, GateProofs!Cancel
<1>8. \A c : Gate!Unwind(c) <=> GateProofs!Unwind(c)
  BY <1>3, <1>4 DEF Gate!Unwind, GateProofs!Unwind, Gate!PendingOnCancel,
     GateProofs!PendingOnCancel
<1>9. \A c : Gate!Release(c) <=> GateProofs!Release(c)
  BY <1>3 DEF Gate!Release, GateProofs!Release, Gate!PendingOnRelease,
     GateProofs!PendingOnRelease
<1>10. [Gate!Next]_(Gate!vars) => [GateProofs!Next]_(GateProofs!vars)
  BY <1>5, <1>6, <1>7, <1>8, <1>9
     DEF Gate!Next, GateProofs!Next, Gate!vars, GateProofs!vars
<1> QED
  BY <1>1, <1>10, PTL DEF Gate!Spec, GateProofs!Spec

LEMMA SameLoad == Load!Spec => LoadProofs!Spec
<1>1. Load!Init => LoadProofs!Init
  BY DEF Load!Init, LoadProofs!Init
<1>2. \A c, a : Load!LeaveLock(c, a) <=> LoadProofs!LeaveLock(c, a)
  BY DEF Load!LeaveLock, LoadProofs!LeaveLock
<1>3. \A c : Load!EnsureLoaded(c) <=> LoadProofs!EnsureLoaded(c)
  BY DEF Load!EnsureLoaded, LoadProofs!EnsureLoaded, Load!FastPath,
     LoadProofs!FastPath, Load!StartLoad, LoadProofs!StartLoad, Load!AwaitLock,
     LoadProofs!AwaitLock, Load!Busy, LoadProofs!Busy, Load!At, LoadProofs!At,
     Load!Answered, LoadProofs!Answered
<1>4. \A c : Load!Resume(c) <=> LoadProofs!Resume(c)
  BY <1>2 DEF Load!Resume, LoadProofs!Resume
<1>5. \A c : Load!LoadSucceeds(c) <=> LoadProofs!LoadSucceeds(c)
  BY <1>2 DEF Load!LoadSucceeds, LoadProofs!LoadSucceeds
<1>6. \A c : Load!LoadFails(c) <=> LoadProofs!LoadFails(c)
  BY <1>2 DEF Load!LoadFails, LoadProofs!LoadFails
<1>7. \A c : Load!Timeout(c) <=> LoadProofs!Timeout(c)
  BY <1>2 DEF Load!Timeout, LoadProofs!Timeout, Load!RemoveAt, LoadProofs!RemoveAt
<1>8. [Load!Next]_(Load!vars) => [LoadProofs!Next]_(LoadProofs!vars)
  BY <1>3, <1>4, <1>5, <1>6, <1>7
     DEF Load!Next, LoadProofs!Next, Load!vars, LoadProofs!vars
<1> QED
  BY <1>1, <1>8, PTL DEF Load!Spec, LoadProofs!Spec

-----------------------------------------------------------------------------
(* What one step of the endpoint does to its components *)

LEMMA ArriveUses ==
    ASSUME NEW r \in Requests, Arrive(r)
    PROVE  /\ UNCHANGED gate_vars \/ Gate!Acquire(r)
           /\ UNCHANGED load_vars \/ Load!EnsureLoaded(r)
BY DEF Arrive, Reject, Hit, Miss, AfterLoadStep, Admission

LEMMA WarmUpUses ==
    ASSUME NEW r \in Requests, TakeLock(r) \/ LoadEnds(r)
    PROVE  /\ UNCHANGED gate_vars \/ Gate!Acquire(r)
           /\ \/ Load!Resume(r) \/ Load!LoadSucceeds(r) \/ Load!LoadFails(r)
              \/ Load!Timeout(r)
BY DEF TakeLock, LoadEnds, Loaded, LoadFailed, LoadTimesOut, WarmUpStep, AfterLoadStep,
       Admission

LEMMA SynthesisUses ==
    ASSUME NEW r \in Requests,
           \/ StartQueued(r) \/ SynthesisEnds(r) \/ OrphanEnds(r) \/ TranscodeEnds(r)
    PROVE  /\ UNCHANGED gate_vars \/ Gate!Resume(r) \/ Gate!Release(r)
           /\ UNCHANGED load_vars
BY DEF StartQueued, SynthesisEnds, SynthesisDone, SynthesisFails, SynthesisTimesOut,
       LeaveSynthesis, OrphanEnds, TranscodeEnds, TranscodeDone, TranscodeFails

(* The endpoint uses the gate as an `async with`-less caller may: each request
   acquires, resumes and releases in turn, and nothing else touches the gate.   *)
THEOREM UsesTheGate == Spec => Gate!Spec
<1>1. Init => Gate!Init
  BY DEF Init
<1>2. [Next]_vars => [Gate!Next]_(Gate!vars)
  <2>1. UNCHANGED gate_vars <=> UNCHANGED Gate!vars
    BY DEF gate_vars, Gate!vars
  <2>2. UNCHANGED vars => UNCHANGED gate_vars
    BY DEF vars
  <2>3. ASSUME NEW r \in Requests,
               UNCHANGED gate_vars \/ Gate!Acquire(r) \/ Gate!Resume(r) \/ Gate!Release(r)
        PROVE  [Gate!Next]_(Gate!vars)
    BY <2>1, <2>3 DEF Gate!Next
  <2> QED
    BY <2>1, <2>2, <2>3, ArriveUses, WarmUpUses, SynthesisUses DEF Next
<1> QED
  BY <1>1, <1>2, PTL DEF Spec, Gate!Spec

THEOREM UsesTheLoadLock == Spec => Load!Spec
<1>1. Init => Load!Init
  BY DEF Init
<1>2. [Next]_vars => [Load!Next]_(Load!vars)
  <2>1. UNCHANGED load_vars <=> UNCHANGED Load!vars
    BY DEF load_vars, Load!vars
  <2>2. UNCHANGED vars => UNCHANGED load_vars
    BY DEF vars
  <2>3. ASSUME NEW r \in Requests,
               \/ UNCHANGED load_vars \/ Load!EnsureLoaded(r) \/ Load!Resume(r)
               \/ Load!LoadSucceeds(r) \/ Load!LoadFails(r) \/ Load!Timeout(r)
        PROVE  [Load!Next]_(Load!vars)
    BY <2>1, <2>3 DEF Load!Next
  <2> QED
    BY <2>1, <2>2, <2>3, ArriveUses, WarmUpUses, SynthesisUses DEF Next
<1> QED
  BY <1>1, <1>2, PTL DEF Spec, Load!Spec

(* So the endpoint's clients are admitted as AdmissionControl promises, and its
   provider is loaded by one of them at a time.                                *)
THEOREM EndpointAdmits == Spec => GateProofs!ImplementsAdmission
BY UsesTheGate, SameGate, GateAssumptions, GateProofs!KeepsThePromise

LEMMA GateInvHolds == Spec => []GateProofs!Inv
BY UsesTheGate, SameGate, GateAssumptions, GateProofs!InvHolds

LEMMA LoadInvHolds == Spec => []LoadProofs!Inv
BY UsesTheLoadLock, SameLoad, LoadAssumptions, LoadProofs!InvHolds
-----------------------------------------------------------------------------
(* Where each request is, and where the gate has it.  A request that transcodes
   has something to transcode.                                                 *)
InGate(r) ==
    \/ pc[r] \in {"idle", "warming", "transcoding"} /\ task[r] \in {"out", "refused"}
    \/ pc[r] = "queued" /\ task[r] \in {"waiting", "granted"}
    \/ pc[r] = "synthesizing" /\ task[r] = "holding"

UnderWay(r) ==
    IF pc[r] = "idle" THEN body[r] = None
    ELSE /\ body[r] \in Accepted
         /\ pc[r] = "transcoding" => NeedsTranscode(body[r]) /\ Spoken[body[r]] # None

PlaceInv ==
    /\ pc \in [Requests -> Points]
    /\ body \in [Requests -> Bodies \cup {None}]
    /\ jobs \subseteq Requests
    /\ task \in [Requests -> Gate!Stages]
    /\ \A r \in Requests : InGate(r) /\ UnderWay(r)

LEMMA AcceptedIsBody == \A b \in Accepted : b \in Bodies /\ b # None
BY EndpointAssumption DEF Accepted

(* What the three gate operations do to the callers' places in the gate *)
Woken(d) == task[d] = "waiting" /\ task'[d] = "granted"

LEMMA HandingOn ==
    ASSUME NEW c \in Requests, NEW place \in {"out", "holding"}, NEW f, NEW n,
           task \in [Requests -> Gate!Stages], Gate!HandOn(c, place, f, n)
    PROVE  /\ task' \in [Requests -> Gate!Stages] /\ task'[c] = place
           /\ \A d \in Requests \ {c} : task'[d] = task[d] \/ Woken(d)
<1>1. PICK G \in SUBSET Gate!Waiting :
         task' = [d \in Requests |-> IF d = c THEN place
                                     ELSE IF d \in G THEN "granted"
                                     ELSE task[d]]
  BY DEF Gate!HandOn
<1>2. \A d \in G : d \in Requests /\ task[d] = "waiting"
  BY DEF Gate!Waiting, Gate!In
<1> QED
  BY <1>1, <1>2 DEF Gate!Stages, Woken

LEMMA Acquiring ==
    ASSUME NEW c \in Requests, task \in [Requests -> Gate!Stages], Gate!Acquire(c)
    PROVE  /\ task[c] \in {"out", "refused"}
           /\ task'[c] \in {"refused", "waiting", "holding"}
           /\ task' \in [Requests -> Gate!Stages]
           /\ \A d \in Requests \ {c} : task'[d] = task[d]
BY DEF Gate!Acquire, Gate!Refuse, Gate!AcquireAtOnce, Gate!AcquireWaits, Gate!Idle,
       Gate!Stages

LEMMA Resuming ==
    ASSUME NEW c \in Requests, task \in [Requests -> Gate!Stages], Gate!Resume(c)
    PROVE  /\ task'[c] = "holding" /\ task' \in [Requests -> Gate!Stages]
           /\ \A d \in Requests \ {c} : task'[d] = task[d] \/ Woken(d)
<1>1. Gate!HandOn(c, "holding", value, value)
  BY DEF Gate!Resume
<1> QED
  BY <1>1, HandingOn

LEMMA Releasing ==
    ASSUME NEW c \in Requests, task \in [Requests -> Gate!Stages], Gate!Release(c)
    PROVE  /\ task'[c] = "out" /\ task' \in [Requests -> Gate!Stages]
           /\ \A d \in Requests \ {c} : task'[d] = task[d] \/ Woken(d)
<1>1. Gate!HandOn(c, "out", value + 1, 1)
  BY DEF Gate!Release
<1> QED
  BY <1>1, HandingOn

(* A step of request r keeps the places of all if it keeps the place of r. *)
LEMMA PlaceStep ==
    ASSUME PlaceInv, NEW r \in Requests, NEW b \in Bodies \cup {None},
           NEW point \in Points,
           pc' = [pc EXCEPT ![r] = point], body' = [body EXCEPT ![r] = b],
           jobs' \subseteq jobs \cup {r},
           task' \in [Requests -> Gate!Stages],
           \A d \in Requests \ {r} : task'[d] = task[d] \/ Woken(d),
           InGate(r)', UnderWay(r)'
    PROVE  PlaceInv'
<1>1. /\ pc' \in [Requests -> Points]
      /\ body' \in [Requests -> Bodies \cup {None}]
      /\ jobs' \subseteq Requests
  BY DEF PlaceInv
<1>2. ASSUME NEW d \in Requests \ {r} PROVE InGate(d)' /\ UnderWay(d)'
  <2>1. pc'[d] = pc[d] /\ body'[d] = body[d] /\ InGate(d) /\ UnderWay(d)
    BY DEF PlaceInv
  <2>2. UnderWay(d)'
    BY <2>1 DEF UnderWay
  <2>3. InGate(d)'
    BY <2>1 DEF InGate, Woken
  <2> QED
    BY <2>2, <2>3
<1> QED
  BY <1>1, <1>2 DEF PlaceInv

(* Every way in which a request is answered: it is out of the gate. *)
LEMMA Answering ==
    ASSUME PlaceInv, NEW r \in Requests, NEW b, NEW kind, NEW audio,
           Respond(r, b, kind, audio), jobs' \subseteq jobs,
           task' \in [Requests -> Gate!Stages], task'[r] \in {"out", "refused"},
           \A d \in Requests \ {r} : task'[d] = task[d] \/ Woken(d)
    PROVE  PlaceInv'
<1>1. pc' = [pc EXCEPT ![r] = "idle"] /\ body' = [body EXCEPT ![r] = None]
  BY DEF Respond
<1>2. pc'[r] = "idle" /\ body'[r] = None /\ "idle" \in Points
  BY <1>1 DEF PlaceInv, Points
<1>3. InGate(r)' /\ UnderWay(r)'
  BY <1>2 DEF InGate, UnderWay
<1> QED
  BY <1>1, <1>2, <1>3, PlaceStep

LEMMA Suspending ==
    ASSUME PlaceInv, NEW r \in Requests, NEW b \in Accepted,
           NEW point \in Points \ {"idle", "transcoding"},
           Suspend(r, b, point), jobs' \subseteq jobs \cup {r},
           task' \in [Requests -> Gate!Stages],
           \A d \in Requests \ {r} : task'[d] = task[d] \/ Woken(d),
           \/ point = "warming" /\ task'[r] \in {"out", "refused"}
           \/ point = "queued" /\ task'[r] = "waiting"
           \/ point = "synthesizing" /\ task'[r] = "holding"
    PROVE  PlaceInv'
<1>1. pc' = [pc EXCEPT ![r] = point] /\ body' = [body EXCEPT ![r] = b]
  BY DEF Suspend
<1>2. pc'[r] = point /\ body'[r] = b /\ b \in Bodies /\ b # None
  BY <1>1, AcceptedIsBody DEF PlaceInv
<1>3. InGate(r)' /\ UnderWay(r)'
  BY <1>2 DEF InGate, UnderWay
<1> QED
  BY <1>1, <1>2, <1>3, PlaceStep

(* After a step inside ensure_loaded() the request is answered, warms up, or has
   passed or is queued at the gate.                                             *)
LEMMA LoadStepPlaces ==
    ASSUME PlaceInv, NEW r \in Requests, NEW b \in Accepted,
           pc[r] \in {"idle", "warming"}, AfterLoadStep(r, b)
    PROVE  PlaceInv'
<1>1. /\ task \in [Requests -> Gate!Stages] /\ task[r] \in {"out", "refused"}
      /\ {"warming", "queued", "synthesizing"} \subseteq Points \ {"idle", "transcoding"}
  BY DEF PlaceInv, InGate, Points
<1>2. CASE Admission(r, b)
  <2>1. Gate!Acquire(r)
    BY <1>2 DEF Admission
  <2>2. /\ task' \in [Requests -> Gate!Stages]
        /\ \A d \in Requests \ {r} : task'[d] = task[d]
    BY <1>1, <2>1, Acquiring
  <2>3. CASE task'[r] = "refused" /\ Respond(r, b, "at_capacity", None) /\ UNCHANGED jobs
    BY <2>2, <2>3, Answering
  <2>4. CASE task'[r] = "waiting" /\ Suspend(r, b, "queued") /\ UNCHANGED jobs
    BY <1>1, <2>2, <2>4, Suspending
  <2>5. CASE /\ task'[r] = "holding" /\ Suspend(r, b, "synthesizing")
             /\ jobs' = jobs \cup {r}
    BY <1>1, <2>2, <2>5, Suspending
  <2> QED
    BY <1>2, <2>3, <2>4, <2>5 DEF Admission
<1>3. ASSUME UNCHANGED <<jobs, gate_vars>>
      PROVE  /\ jobs' = jobs /\ task' = task
             /\ task' \in [Requests -> Gate!Stages] /\ task'[r] \in {"out", "refused"}
  BY <1>1, <1>3 DEF gate_vars
<1>4. CASE Suspend(r, b, "warming") /\ UNCHANGED <<jobs, gate_vars>>
  BY <1>1, <1>3, <1>4, Suspending
<1>5. CASE /\ \/ Respond(r, b, "load_failed", None)
              \/ Respond(r, b, "load_timed_out", None)
           /\ UNCHANGED <<jobs, gate_vars>>
  BY <1>3, <1>5, Answering
<1> QED
  BY <1>2, <1>4, <1>5 DEF AfterLoadStep

LEMMA ArrivePlaces == ASSUME PlaceInv, NEW r \in Requests, Arrive(r) PROVE PlaceInv'
<1>1. pc[r] = "idle" /\ task \in [Requests -> Gate!Stages] /\ task[r] \in {"out", "refused"}
  BY DEF PlaceInv, InGate, Arrive, Reject, Hit, Miss, Free
<1>2. PICK b \in Bodies : Reject(r, b) \/ Hit(r, b) \/ Miss(r, b)
  BY DEF Arrive
<1>3. CASE Reject(r, b) \/ Hit(r, b)
  <2>1. jobs' = jobs /\ task' = task
    BY <1>3 DEF Reject, Hit, gate_vars
  <2>2. PICK kind, audio : Respond(r, b, kind, audio)
    BY <1>3 DEF Reject, Hit
  <2> QED
    BY <1>1, <2>1, <2>2, Answering
<1>4. CASE Miss(r, b)
  BY <1>1, <1>4, LoadStepPlaces DEF Miss
<1> QED
  BY <1>2, <1>3, <1>4

LEMMA WarmUpPlaces ==
    ASSUME PlaceInv, NEW r \in Requests, TakeLock(r) \/ LoadEnds(r)
    PROVE  PlaceInv'
<1>1. pc[r] = "warming" /\ AfterLoadStep(r, body[r])
  BY DEF TakeLock, LoadEnds, Loaded, LoadFailed, LoadTimesOut, WarmUpStep
<1>2. body[r] \in Accepted
  BY <1>1 DEF PlaceInv, UnderWay
<1> QED
  BY <1>1, <1>2, LoadStepPlaces

LEMMA StoreAnswers ==
    ASSUME NEW r \in Requests, NEW audio, Store(r, audio)
    PROVE  \E kind \in {"ok", "server_error"} : \E a : Respond(r, body[r], kind, a)
BY DEF Store

LEMMA SynthesisPlaces ==
    ASSUME PlaceInv, NEW r \in Requests,
           \/ StartQueued(r) \/ SynthesisEnds(r) \/ OrphanEnds(r) \/ TranscodeEnds(r)
    PROVE  PlaceInv'
<1>1. task \in [Requests -> Gate!Stages] /\ jobs \subseteq Requests /\ r \in Requests
      /\ InGate(r) /\ UnderWay(r)
  BY DEF PlaceInv
<1>2. CASE StartQueued(r)
  <2>1. /\ body[r] \in Accepted /\ Gate!Resume(r)
        /\ Suspend(r, body[r], "synthesizing") /\ jobs' = jobs \cup {r}
        /\ "synthesizing" \in Points \ {"idle", "transcoding"}
    BY <1>1, <1>2 DEF StartQueued, UnderWay, Points
  <2>2. /\ task'[r] = "holding" /\ task' \in [Requests -> Gate!Stages]
        /\ \A d \in Requests \ {r} : task'[d] = task[d] \/ Woken(d)
    BY <1>1, <2>1, Resuming
  <2> QED
    BY <2>1, <2>2, Suspending
<1>3. CASE SynthesisEnds(r)
  <2>1. pc[r] = "synthesizing" /\ Gate!Release(r) /\ jobs' \subseteq jobs
    BY <1>3 DEF SynthesisEnds, SynthesisDone, SynthesisFails, SynthesisTimesOut,
                LeaveSynthesis
  <2>2. /\ task'[r] = "out" /\ task' \in [Requests -> Gate!Stages]
        /\ \A d \in Requests \ {r} : task'[d] = task[d] \/ Woken(d)
    BY <1>1, <2>1, Releasing
  <2>3. body[r] \in Accepted
    BY <1>1, <2>1 DEF UnderWay
  <2>4. CASE /\ Suspend(r, body[r], "transcoding")
             /\ NeedsTranscode(body[r]) /\ Spoken[body[r]] # None
    <3>1. /\ pc' = [pc EXCEPT ![r] = "transcoding"] /\ "transcoding" \in Points
          /\ body' = [body EXCEPT ![r] = body[r]] /\ body[r] \in Bodies
      BY <2>3, <2>4, AcceptedIsBody DEF Suspend, Points
    <3>2. pc'[r] = "transcoding" /\ body'[r] = body[r]
      BY <3>1 DEF PlaceInv
    <3>3. InGate(r)' /\ UnderWay(r)'
      BY <2>2, <2>3, <2>4, <3>2 DEF InGate, UnderWay, NeedsTranscode
    <3> QED
      BY <2>1, <2>2, <3>1, <3>3, PlaceStep
  <2>5. ASSUME NEW kind, NEW audio, Respond(r, body[r], kind, audio)
        PROVE  PlaceInv'
    BY <2>1, <2>2, <2>5, Answering
  <2> QED
    BY <1>3, <2>4, <2>5, StoreAnswers
       DEF SynthesisEnds, SynthesisDone, SynthesisFails, SynthesisTimesOut
<1>4. CASE OrphanEnds(r)
  BY <1>4 DEF OrphanEnds, PlaceInv, InGate, UnderWay, gate_vars
<1>5. CASE TranscodeEnds(r)
  <2>1. pc[r] = "transcoding" /\ jobs' = jobs /\ task' = task
    BY <1>5 DEF TranscodeEnds, TranscodeDone, TranscodeFails, gate_vars
  <2>2. task[r] \in {"out", "refused"}
    BY <1>1, <2>1 DEF InGate
  <2>3. PICK kind, audio : Respond(r, body[r], kind, audio)
    BY <1>5, StoreAnswers DEF TranscodeEnds, TranscodeDone, TranscodeFails
  <2> QED
    BY <1>1, <2>1, <2>2, <2>3, Answering
<1> QED
  BY <1>2, <1>3, <1>4, <1>5

LEMMA PlaceHolds == Spec => []PlaceInv
<1>1. Init => PlaceInv
  BY DEF Init, Gate!Init, PlaceInv, InGate, UnderWay, Points, Gate!Stages
<1>2. PlaceInv /\ [Next]_vars => PlaceInv'
  <2> SUFFICES ASSUME PlaceInv, [Next]_vars PROVE PlaceInv'
    OBVIOUS
  <2>1. CASE UNCHANGED vars
    BY <2>1 DEF vars, gate_vars, PlaceInv, InGate, UnderWay
  <2> QED
    BY <2>1, ArrivePlaces, WarmUpPlaces, SynthesisPlaces DEF Next
<1> QED
  BY <1>1, <1>2, PTL DEF Spec
-----------------------------------------------------------------------------
(* What is under way is what the gate and the load lock have under way, in types
   as well.                                                                    *)
THEOREM EndpointTypeOK == Spec => []TypeOK
<1>1. GateProofs!Inv => Gate!TypeOK
  BY DEF GateProofs!Inv, GateProofs!TypeOK, Gate!TypeOK, GateProofs!Stages, Gate!Stages
<1>2. LoadProofs!Inv => Load!TypeOK
  BY DEF LoadProofs!Inv, LoadProofs!TypeOK, Load!TypeOK, LoadProofs!Stages, Load!Stages,
         LoadProofs!Answered, Load!Answered, LoadProofs!At, Load!At, LoadProofs!Range,
         Load!Range, LoadProofs!IsInjective, Load!IsInjective
<1>3. PlaceInv /\ Gate!TypeOK /\ Load!TypeOK => TypeOK
  BY AcceptedIsBody DEF PlaceInv, UnderWay, TypeOK
<1> QED
  BY <1>1, <1>2, <1>3, PlaceHolds, GateInvHolds, LoadInvHolds, PTL

LEMMA PlacesMatch == PlaceInv => GateMatchesRequests
BY DEF PlaceInv, InGate, GateMatchesRequests, Gate!Inside, Gate!In, Gate!Stages, Points,
       AtPoint

(* The gate counts exactly the requests between admission and the end of their
   synthesis, whichever way each of them leaves it (api/speech.py).            *)
THEOREM GateCountsRequests == Spec => []GateMatchesRequests
BY PlacesMatch, PlaceHolds, PTL
-----------------------------------------------------------------------------
(* What the cache holds: each entry is the audio made for some accepted request,
   under that request's key.                                                    *)
Entries == {[key |-> Key[b], audio |-> Made(b)] : b \in Answerable}

Fits(b, audio) == b \in Accepted /\ \E d \in Answerable : Key[d] = Key[b] /\ audio = Made(d)

AnswerInv == /\ lru \in Seq(Entries)
             /\ answer.kind = "ok" => Fits(answer.asked, answer.audio)

LEMMA LookupFits ==
    ASSUME NEW s \in Seq(Entries), NEW b \in Accepted, Cache!Lookup(s, Key[b]) # None
    PROVE  /\ Key[b] \in Cache!Held(s)
           /\ Fits(b, Cache!AudioIn(s, Key[b]))
           /\ Cache!Lookup(s, Key[b]) = Cache!AudioIn(s, Key[b])
           /\ [key |-> Key[b], audio |-> Cache!AudioIn(s, Key[b])] \in Entries
<1> DEFINE k == Key[b]
           i == Cache!Place(s, k)
<1>1. /\ Cache!Lookup(s, k) = Cache!AudioIn(s, k) /\ k \in Cache!Held(s)
      /\ Cache!AudioIn(s, k) = s[i].audio
  BY DEF Cache!Lookup, Cache!AudioIn
<1>2. i \in DOMAIN s /\ s[i].key = k
  BY <1>1 DEF Cache!Held, Cache!Place
<1>3. s[i] \in Entries
  BY <1>2
<1>4. PICK d \in Answerable : s[i] = [key |-> Key[d], audio |-> Made(d)]
  BY <1>3 DEF Entries
<1> QED
  BY <1>1, <1>2, <1>4 DEF Fits, Entries

LEMMA WithoutKeeps ==
    ASSUME NEW s \in Seq(Entries), NEW k
    PROVE  Cache!Without(s, k) \in Seq(Entries)
<1>1. CASE k \in Cache!Held(s)
  <2> DEFINE i == Cache!Place(s, k)
  <2>1. i \in 1 .. Len(s)
    BY <1>1 DEF Cache!Held, Cache!Place
  <2> HIDE DEF i
  <2>2. Cache!RemoveAt(s, i) \in Seq(Entries)
    BY <2>1 DEF Cache!RemoveAt
  <2> QED
    BY <1>1, <2>2 DEF Cache!Without, i
<1> QED
  BY <1>1 DEF Cache!Without

LEMMA GetKeeps ==
    ASSUME NEW s \in Seq(Entries), NEW b \in Accepted
    PROVE  Cache!AfterGet(s, Key[b]) \in Seq(Entries)
<1>1. CASE Cache!Lookup(s, Key[b]) # None
  <2>1. /\ [key |-> Key[b], audio |-> Cache!AudioIn(s, Key[b])] \in Entries
        /\ Cache!Without(s, Key[b]) \in Seq(Entries)
    BY <1>1, LookupFits, WithoutKeeps
  <2> QED
    BY <2>1 DEF Cache!AfterGet, Cache!MoveToEnd
<1> QED
  BY <1>1 DEF Cache!AfterGet

LEMMA PutKeeps ==
    ASSUME NEW s \in Seq(Entries), NEW b \in Answerable
    PROVE  Cache!AfterPut(s, Key[b], Made(b)) \in Seq(Entries)
<1> DEFINE t == Append(Cache!Without(s, Key[b]), [key |-> Key[b], audio |-> Made(b)])
<1>1. t \in Seq(Entries)
  BY WithoutKeeps DEF Entries
<1> HIDE DEF t
<1>2. Cache!Trimmed(t) \in Seq(Entries)
  <2>1. CASE Len(t) > MaxEntries
    <3>1. \A i \in Len(t) - MaxEntries + 1 .. Len(t) : t[i] \in Entries
      BY <1>1, <2>1, EndpointAssumption
    <3>2. SubSeq(t, Len(t) - MaxEntries + 1, Len(t)) \in Seq(Entries)
      BY <1>1, <2>1, <3>1, EndpointAssumption
    <3> QED
      BY <2>1, <3>2 DEF Cache!Trimmed
  <2> QED
    BY <1>1, <2>1 DEF Cache!Trimmed
<1> QED
  BY <1>2 DEF Cache!AfterPut, t

(* A response that is not a 200 says nothing of an audio. *)
LEMMA OtherAnswers ==
    ASSUME NEW r, NEW b, NEW kind, NEW audio, Respond(r, b, kind, audio),
           kind = "ok" => Fits(b, audio)
    PROVE  answer'.kind = "ok" => Fits(answer'.asked, answer'.audio)
BY DEF Respond

LEMMA StoreFits ==
    ASSUME AnswerInv, NEW r \in Requests, body[r] \in Answerable, Store(r, Made(body[r]))
    PROVE  AnswerInv'
<1>1. lru' \in Seq(Entries)
  BY PutKeeps DEF AnswerInv, Store
<1>2. Fits(body[r], Made(body[r]))
  BY DEF Fits, Answerable
<1> QED
  BY <1>1, <1>2, OtherAnswers DEF Store, AnswerInv

LEMMA StillFits == ASSUME AnswerInv, UNCHANGED <<lru, answer>> PROVE AnswerInv'
BY DEF AnswerInv

LEMMA RefusalFits ==
    ASSUME AnswerInv, UNCHANGED lru, NEW r, NEW b, NEW kind, NEW audio, kind # "ok",
           Respond(r, b, kind, audio)
    PROVE  AnswerInv'
BY OtherAnswers DEF AnswerInv

LEMMA StepFits ==
    ASSUME PlaceInv, AnswerInv, NEW r \in Requests,
           \/ Arrive(r) \/ TakeLock(r) \/ LoadEnds(r) \/ StartQueued(r)
           \/ SynthesisEnds(r) \/ OrphanEnds(r) \/ TranscodeEnds(r)
    PROVE  AnswerInv'
<1>1. UnderWay(r)
  BY DEF PlaceInv
<1>2. ASSUME NEW b, AfterLoadStep(r, b), UNCHANGED lru PROVE AnswerInv'
  BY <1>2, StillFits, RefusalFits DEF AfterLoadStep, Admission, Suspend
<1>3. CASE Arrive(r)
  <2>1. PICK b \in Bodies : Reject(r, b) \/ Hit(r, b) \/ Miss(r, b)
    BY <1>3 DEF Arrive
  <2>2. CASE Reject(r, b)
    BY <2>2, RefusalFits DEF Reject
  <2>3. CASE Hit(r, b)
    <3>1. /\ b \in Accepted /\ Cache!Lookup(lru, Key[b]) # None /\ lru \in Seq(Entries)
          /\ lru' = Cache!AfterGet(lru, Key[b])
          /\ Respond(r, b, "ok", Cache!Lookup(lru, Key[b]))
      BY <2>3 DEF Hit, AnswerInv
    <3>2. Fits(b, Cache!Lookup(lru, Key[b]))
      BY <3>1, LookupFits
    <3> QED
      BY <3>1, <3>2, GetKeeps, OtherAnswers DEF AnswerInv
  <2>4. CASE Miss(r, b)
    BY <1>2, <2>4 DEF Miss
  <2> QED
    BY <2>1, <2>2, <2>3, <2>4
<1>4. CASE TakeLock(r) \/ LoadEnds(r)
  BY <1>2, <1>4 DEF TakeLock, LoadEnds, Loaded, LoadFailed, LoadTimesOut, WarmUpStep
<1>5. CASE SynthesisDone(r)
  <2>1. body[r] \in Answerable
    BY <1>1, <1>5 DEF SynthesisDone, LeaveSynthesis, UnderWay, Answerable
  <2>2. CASE NeedsTranscode(body[r])
    BY <1>5, <2>2, StillFits DEF SynthesisDone, Suspend
  <2>3. CASE ~ NeedsTranscode(body[r])
    <3>1. Store(r, Made(body[r]))
      BY <1>5, <2>3 DEF SynthesisDone, Made
    <3> QED
      BY <2>1, <3>1, StoreFits
  <2> QED
    BY <2>2, <2>3
<1>6. CASE TranscodeDone(r)
  <2>1. body[r] \in Answerable /\ NeedsTranscode(body[r])
    BY <1>1, <1>6 DEF TranscodeDone, UnderWay, Answerable
  <2>2. Store(r, Made(body[r]))
    BY <1>6, <2>1 DEF TranscodeDone, Made
  <2> QED
    BY <2>1, <2>2, StoreFits
<1>7. CASE StartQueued(r) \/ SynthesisFails(r) \/ SynthesisTimesOut(r) \/ OrphanEnds(r)
           \/ TranscodeFails(r)
  BY <1>7, StillFits, RefusalFits
     DEF StartQueued, Suspend, SynthesisFails, SynthesisTimesOut, OrphanEnds, TranscodeFails
<1> QED
  BY <1>3, <1>4, <1>5, <1>6, <1>7 DEF SynthesisEnds, TranscodeEnds

LEMMA AnswersHold == Spec => []AnswerInv
<1>1. Init => AnswerInv
  BY DEF Init, AnswerInv, NoAnswer
<1>2. PlaceInv /\ AnswerInv /\ [Next]_vars => AnswerInv'
  <2> SUFFICES ASSUME PlaceInv, AnswerInv, [Next]_vars PROVE AnswerInv'
    OBVIOUS
  <2>1. CASE UNCHANGED vars
    BY <2>1 DEF vars, AnswerInv
  <2> QED
    BY <2>1, StepFits DEF Next
<1> QED
  BY <1>1, <1>2, PlaceHolds, PTL DEF Spec
-----------------------------------------------------------------------------
(* From the key to the request: what is answered is what a request with the same key
   would get.                                                                       *)
LEMMA TwoParts ==
    ASSUME NEW S, NEW s \in Seq(S), Len(s) = 2
    PROVE  /\ Len(SubSeq(s, 1, 1)) = 1 /\ SubSeq(s, 1, 1)[1] = s[1]
           /\ SubSeq(s, 1, 1) = <<s[1]>>
           /\ Append(SubSeq(s, 1, 1), s[2]) = s
<1> DEFINE f == SubSeq(s, 1, 1)
           t == Append(f, s[2])
<1>1. f \in Seq(S) /\ Len(f) = 1 /\ f[1] = s[1] /\ s[2] \in S
  OBVIOUS
<1> HIDE DEF f
<1>2. t \in Seq(S) /\ Len(t) = 2 /\ t[1] = f[1] /\ t[2] = s[2]
  BY <1>1, AppendProperties
<1> HIDE DEF t
<1>3. \A i \in 1 .. Len(t) : t[i] = s[i]
  BY <1>1, <1>2
<1>4. t = s
  BY <1>2, <1>3, SeqEqual
<1>5. f = <<s[1]>>
  <2> DEFINE u == <<s[1]>>
  <2>1. s[1] \in S
    OBVIOUS
  <2>2. u \in Seq(S) /\ Len(u) = 1 /\ u[1] = s[1]
    BY <2>1
  <2> HIDE DEF u
  <2>3. \A i \in 1 .. Len(f) : f[i] = u[i]
    BY <1>1, <2>2
  <2>4. f = u
    BY <1>1, <2>2, <2>3, SeqEqual
  <2> QED
    BY <2>4 DEF u
<1> QED
  BY <1>1, <1>4, <1>5 DEF f, t

LEMMA OnePart ==
    ASSUME NEW S, NEW s \in Seq(S), NEW e \in S, Len(s) = 1
    PROVE  LET v == Append(s, e)
           IN  v \in Seq(S) /\ Len(v) = 2 /\ v[2] = e /\ SubSeq(v, 1, 1) = s
<1> DEFINE v == Append(s, e)
           f == SubSeq(v, 1, 1)
<1>1. v \in Seq(S) /\ Len(v) = 2 /\ v[1] = s[1] /\ v[2] = e
  <2>1. 1 \in 1 .. Len(s) /\ Len(s) + 1 = 2
    OBVIOUS
  <2>2. /\ v \in Seq(S) /\ Len(v) = Len(s) + 1
        /\ \A i \in 1 .. Len(s) : v[i] = s[i]
        /\ v[Len(s) + 1] = e
    BY AppendProperties
  <2> HIDE DEF v
  <2> QED
    BY <2>1, <2>2
<1> HIDE DEF v
<1>2. f \in Seq(S) /\ Len(f) = 1 /\ f[1] = v[1]
  <2>1. \A i \in 1 .. 1 : v[i] \in S
    BY <1>1
  <2> QED
    BY <2>1, SubSeqProperties
<1> HIDE DEF f
<1>3. \A i \in 1 .. Len(f) : f[i] = s[i]
  BY <1>1, <1>2
<1>4. f = s
  BY <1>2, <1>3, SeqEqual
<1> QED
  BY <1>1, <1>4 DEF f, v

(* The id of a voice leads to a clip that bears this id, and back. *)
LEMMA ResolveInverts ==
    ASSUME NEW v \in RefVoices, Clone!Resolve(v) # None
    PROVE  /\ v \in {Clone!Resolve(v), Clone!VoiceId(Clone!Resolve(v))}
           /\ Clone!Resolve(v) \in Uploads \cup Stems
<1> DEFINE x == Clone!Resolve(v)
<1>1. v \in Seq(STRING) /\ Len(v) \in {1, 2} /\ Stems = {f.stem : f \in Catalog}
  BY CatalogAssumption DEF Stems
<1>2. CASE Len(v) = 1
  BY <1>2 DEF Clone!Resolve
<1>3. CASE Len(v) = 2 /\ v[2] = "default"
  <2>1. x = SubSeq(v, 1, 1) /\ x \in Stems
    BY <1>1, <1>3 DEF Clone!Resolve, Clone!Last, Clone!Front
  <2>2. Len(x) = 1 /\ Append(x, "default") = v
    BY <1>1, <1>3, <2>1, TwoParts
  <2> QED
    BY <2>1, <2>2 DEF Clone!VoiceId
<1>4. CASE Len(v) = 2 /\ v[2] # "default"
  BY <1>1, <1>4 DEF Clone!Resolve, Clone!Last
<1> QED
  BY <1>1, <1>2, <1>3, <1>4

(* The clip that a listed voice's id leads to in the reference store is the one that
   the provider listed (providers/qwen.py:176-210, core/refs.py:110-148).             *)
THEOREM ListedResolves ==
    ASSUME NEW stem \in Clone!Listable, NEW v \in RefVoices, Clone!VoiceId(stem) = v,
           Len(stem) = 2 => stem[2] # "default"
    PROVE  Clone!Resolve(v) = stem
<1>1. /\ stem \in Stems /\ stem \in Seq(STRING) /\ Len(stem) \in {1, 2}
      /\ Stems = {f.stem : f \in Catalog}
  BY CatalogAssumption DEF Clone!Listable, Stems
<1>2. CASE Len(stem) = 1
  <2>1. v = Append(stem, "default")
    BY <1>2 DEF Clone!VoiceId
  <2>2. Len(v) = 2 /\ v[2] = "default" /\ SubSeq(v, 1, 1) = stem
    BY <1>1, <1>2, <2>1, OnePart
  <2> QED
    BY <1>1, <2>2 DEF Clone!Resolve, Clone!Last, Clone!Front
<1>3. CASE Len(stem) = 2
  <2>1. v = stem /\ Len(v) = 2 /\ v[2] # "default" /\ v \in {f.stem : f \in Catalog}
    BY <1>1, <1>3 DEF Clone!VoiceId
  <2>2. Clone!Last(v) # "default" /\ Len(v) # 1
    BY <2>1 DEF Clone!Last
  <2> QED
    BY <2>1, <2>2 DEF Clone!Resolve
<1> QED
  BY <1>1, <1>2, <1>3

(* The two kinds of voice an accepted request can have *)
LEMMA VoiceOfAccepted ==
    ASSUME NEW b \in Accepted
    PROVE  \/ /\ b.voice = None
              /\ VoiceOf(b) = [id |-> None, kind |-> "none", ref_text |-> None]
           \/ /\ b.voice # None /\ b.voice \in RefVoices /\ Clone!Resolve(b.voice) # None
              /\ VoiceOf(b) = [id |-> Clone!Resolve(b.voice), kind |-> "clone_ref",
                               ref_text |-> Routes!SidecarText(b.voice, Clone!Capabilities)]
<1>1. VoiceOf(b) # None
  BY DEF Accepted
<1>2. Clone!Capabilities.supports_voice_id = FALSE
  BY DEF Clone!Capabilities
<1> QED
  BY <1>1, <1>2 DEF VoiceOf, Routes!ResolveVoice

(* What the worker says for an answerable request: its text in its language, from
   the clip of its voice, with the transcript it is given or else the built-in one. *)
LEMMA SpokenByWorker ==
    ASSUME NEW d \in Answerable
    PROVE  LET primary == Routes!Primary(d.language)
           IN  /\ Spoken[d].text = d.text
               /\ Spoken[d].language = Clone!LangMap[primary]
               /\ Spoken[d].ref_audio = IF d.voice = None THEN <<primary>>
                                        ELSE VoiceOf(d).id
               /\ RefText(d) # None => Spoken[d].ref_text = RefText(d)
               /\ RefText(d) = None =>
                     /\ d.voice = None
                     /\ primary \in DOMAIN Clone!RefTexts
                     /\ Spoken[d].ref_text = Clone!RefTexts[primary]
               /\ d.voice = None => <<primary>> \in Clone!Listable
<1> DEFINE p == Clone!Payload(SynthInput(d))
           primary == Lower[Head(p.language)]
           clip == IF p.ref_audio # None THEN p.ref_audio ELSE Clone!DefaultClip(primary)
           said == IF p.ref_text # None THEN p.ref_text
                   ELSE IF p.ref_audio = None /\ primary \in DOMAIN Clone!RefTexts
                   THEN Clone!RefTexts[primary] ELSE None
<1>1. d \in Accepted /\ Spoken[d] = Clone!SynthesizeText(p) /\ Spoken[d] # None
  BY DEF Answerable, Spoken
<1>2. /\ primary \in DOMAIN Clone!LangMap /\ clip # None /\ said # None
      /\ Spoken[d] = [text |-> p.text, language |-> Clone!LangMap[primary],
                      ref_audio |-> clip, ref_text |-> said]
  BY <1>1 DEF Clone!SynthesizeText
<1>3. /\ p.text = d.text /\ p.ref_text = RefText(d)
      /\ p.language = IF d.language = <<>> THEN <<"auto">> ELSE d.language
      /\ p.ref_audio = IF VoiceOf(d).kind = "clone_ref" THEN VoiceOf(d).id ELSE None
  BY DEF Clone!Payload, SynthInput
<1> HIDE DEF p
<1>4. primary = Routes!Primary(d.language)
  <2>1. Lower["auto"] \notin DOMAIN Clone!LangMap
    BY CatalogAssumption DEF Clone!LangMap
  <2>2. d.language # <<>>
    BY <1>2, <1>3, <2>1
  <2> QED
    BY <1>3, <2>2 DEF Routes!Primary
<1>5. CASE d.voice = None
  <2>1. p.ref_audio = None
    BY <1>1, <1>3, <1>5, VoiceOfAccepted
  <2>2. clip = <<primary>> /\ <<primary>> \in Clone!Listable
    BY <1>2, <2>1 DEF Clone!DefaultClip
  <2> QED
    BY <1>2, <1>3, <1>4, <1>5, <2>1, <2>2
<1>6. CASE d.voice # None
  <2>1. p.ref_audio = VoiceOf(d).id /\ p.ref_audio # None
    BY <1>1, <1>3, <1>6, VoiceOfAccepted
  <2>2. clip = VoiceOf(d).id /\ said = RefText(d)
    BY <1>2, <1>3, <2>1
  <2> QED
    BY <1>2, <1>3, <1>4, <1>6, <2>2
<1> QED
  BY <1>5, <1>6

(* Requests with one key want the same, but for the transcript they bring. *)
LEMMA SameKey ==
    ASSUME NEW b \in Accepted, NEW d \in Accepted, Key[b] = Key[d]
    PROVE  /\ b.text = d.text /\ b.language = d.language
           /\ b.response_format = d.response_format /\ b.sample_rate = d.sample_rate
           /\ VoiceOf(b).id = VoiceOf(d).id
           /\ b.voice = None <=> d.voice = None
<1>1. /\ b.text = d.text /\ b.language = d.language
      /\ b.response_format = d.response_format /\ b.sample_rate = d.sample_rate
      /\ VoiceOf(b).id = VoiceOf(d).id
  BY DEF Key, Cache!MakeKey
<1>2. \A e \in Accepted : e.voice = None <=> VoiceOf(e).id = None
  BY VoiceOfAccepted
<1> QED
  BY <1>1, <1>2

LEMMA MadeAsAsked ==
    ASSUME NEW d \in Answerable
    PROVE  /\ Made(d).of = Spoken[d] /\ Made(d).format = d.response_format
           /\ Made(d).sample_rate = d.sample_rate
BY DEF Made, NeedsTranscode, Transcoded, Synthesized

(* What fits a request was made for it: text, language, clip and format. *)
LEMMA FitsIsMadeFor ==
    ASSUME NEW b, NEW audio, Fits(b, audio)
    PROVE  MadeFor(b, audio)
<1> DEFINE spoken == audio.of
<1>1. b \in Accepted
  BY DEF Fits
<1>2. PICK d \in Answerable : Key[d] = Key[b] /\ audio = Made(d)
  BY DEF Fits
<1>3. d \in Accepted
  BY <1>2 DEF Answerable
<1>4. /\ d.text = b.text /\ d.language = b.language
      /\ d.response_format = b.response_format /\ d.sample_rate = b.sample_rate
      /\ VoiceOf(d).id = VoiceOf(b).id
      /\ d.voice = None <=> b.voice = None
  BY <1>1, <1>2, <1>3, SameKey
<1>5. /\ audio.format = b.response_format /\ audio.sample_rate = b.sample_rate
      /\ spoken = Spoken[d]
  BY <1>2, <1>4, MadeAsAsked
<1>6. /\ spoken.text = b.text
      /\ spoken.language = Clone!LangMap[Routes!Primary(b.language)]
      /\ spoken.ref_audio = IF b.voice = None THEN <<Routes!Primary(b.language)>>
                            ELSE VoiceOf(b).id
  BY <1>4, <1>5, SpokenByWorker
<1>7. b.voice # None => b.voice \in {VoiceOf(b).id, Clone!VoiceId(VoiceOf(b).id)}
  BY <1>1, VoiceOfAccepted, ResolveInverts
<1> HIDE DEF spoken
<1>8. IF b.voice = None THEN spoken.ref_audio = <<Routes!Primary(b.language)>>
      ELSE b.voice \in {spoken.ref_audio, Clone!VoiceId(spoken.ref_audio)}
  BY <1>6, <1>7
<1> QED
  BY <1>5, <1>6, <1>8 DEF MadeFor, spoken

(* Every 200, whoever's synthesis it comes from, is for what was asked: the text,
   the language, the voice's clip, the container and the rate (api/speech.py).
   The invariant says whose it may be: a request's with the same key.             *)
THEOREM AnswersAreMadeForThem == Spec => []AnswerMatchesRequest
<1>1. AnswerInv => AnswerMatchesRequest
  BY FitsIsMadeFor DEF AnswerInv, AnswerMatchesRequest
<1> QED
  BY <1>1, AnswersHold, PTL

(* What fits a request has a transcript of its voice. *)
LEMMA FitsInTranscript ==
    ASSUME NEW b, NEW audio, Fits(b, audio)
    PROVE  audio.of.ref_text \in TranscriptsFor[b]
<1> DEFINE language == Routes!Primary(b.language)
           alike == {d \in Accepted : /\ VoiceOf(d).id = VoiceOf(b).id
                                      /\ Routes!Primary(d.language) = language}
           builtin == IF b.voice = None /\ language \in DOMAIN Clone!RefTexts
                      THEN {Clone!RefTexts[language]} ELSE {}
<1>1. b \in Accepted
  BY DEF Fits
<1>2. TranscriptsFor[b] = ({RefText(d) : d \in alike} \ {None}) \cup builtin
  BY <1>1 DEF TranscriptsFor
<1>3. PICK d \in Answerable : Key[d] = Key[b] /\ audio = Made(d)
  BY DEF Fits
<1>4. d \in Accepted
  BY <1>3 DEF Answerable
<1>5. /\ d.language = b.language /\ VoiceOf(d).id = VoiceOf(b).id
      /\ d.voice = None <=> b.voice = None
  BY <1>1, <1>3, <1>4, SameKey
<1>6. d \in alike
  BY <1>4, <1>5
<1>7. audio.of.ref_text = Spoken[d].ref_text
  BY <1>3, MadeAsAsked
<1>8. CASE RefText(d) # None
  <2>1. Spoken[d].ref_text = RefText(d)
    BY <1>8, SpokenByWorker
  <2> QED
    BY <1>2, <1>6, <1>7, <1>8, <2>1
<1>9. CASE RefText(d) = None
  <2>1. /\ d.voice = None
        /\ Routes!Primary(d.language) \in DOMAIN Clone!RefTexts
        /\ Spoken[d].ref_text = Clone!RefTexts[Routes!Primary(d.language)]
    BY <1>9, SpokenByWorker
  <2>2. audio.of.ref_text \in builtin
    BY <1>5, <1>7, <2>1
  <2> QED
    BY <1>2, <2>2
<1> QED
  BY <1>8, <1>9

(* No 200 is cloned with the transcript of another voice, nor a named voice with the
   language's built-in one (sidecars/qwen_worker.py:100-119).                        *)
THEOREM TranscriptsStayWithVoices == Spec => []TranscriptOfVoice
<1>1. AnswerInv => TranscriptOfVoice
  BY FitsInTranscript DEF AnswerInv, TranscriptOfVoice
<1> QED
  BY <1>1, AnswersHold, PTL
-----------------------
(* The endpoint implements SpeechService.  What each kind of step is there. *)
LEMMA ProgressTyped ==
    PlaceInv => /\ Progress \in [Requests -> {"away", "before", "inside", "after"}]
                /\ \A r \in Requests : Progress[r] = Standing[pc[r]]
BY DEF PlaceInv, Points, Progress, Standing

LEMMA ProgressMoves ==
    ASSUME PlaceInv, NEW r \in Requests, NEW point \in Points,
           pc' = [pc EXCEPT ![r] = point]
    PROVE  Progress' = [Progress EXCEPT ![r] = Standing[point]]
<1>1. pc' = [d \in Requests |-> IF d = r THEN point ELSE pc[d]]
  BY DEF PlaceInv
<1>2. \A d \in Requests : Standing[pc'[d]] = IF d = r THEN Standing[point]
                                              ELSE Standing[pc[d]]
  BY <1>1
<1>3. Progress' = [d \in Requests |-> IF d = r THEN Standing[point] ELSE Progress[d]]
  BY <1>2 DEF Progress
<1> QED
  BY <1>3 DEF Progress

LEMMA Responding ==
    ASSUME PlaceInv, NEW r \in Requests, NEW b, NEW kind, NEW audio,
           Respond(r, b, kind, audio)
    PROVE  Service!Respond(r, b, kind, audio)
<1>1. pc' = [pc EXCEPT ![r] = "idle"] /\ "idle" \in Points /\ Standing["idle"] = "away"
  BY DEF Respond, Points, Standing
<1>2. Progress' = [Progress EXCEPT ![r] = "away"]
  BY <1>1, ProgressMoves
<1> QED
  BY <1>2 DEF Respond, Service!Respond

LEMMA Moving ==
    ASSUME PlaceInv, NEW r \in Requests, NEW b, NEW point \in Points,
           Suspend(r, b, point)
    PROVE  Service!MoveTo(r, b, Standing[point])
<1>1. Progress' = [Progress EXCEPT ![r] = Standing[point]]
  BY ProgressMoves DEF Suspend
<1> QED
  BY <1>1 DEF Suspend, Service!MoveTo

(* Who asks there is who has arrived or warms up here. *)
LEMMA Asking ==
    ASSUME PlaceInv, NEW r \in Requests, NEW b \in Accepted,
           \/ pc[r] = "idle"
           \/ pc[r] = "warming" /\ b = body[r]
    PROVE  /\ b \in Bodies
           /\ Service!Asks(r, b)
           /\ \/ Progress[r] = "away"
              \/ Progress[r] = "before" /\ body[r] = b
<1>1. b \in Bodies
  BY AcceptedIsBody
<1>2. \/ Progress[r] = "away"
      \/ Progress[r] = "before" /\ body[r] = b
  BY ProgressTyped DEF Standing
<1> QED
  BY <1>1, <1>2 DEF Service!Asks

(* The admitted are those the gate counts, and its test is whether there is room. *)
LEMMA RoomIsTheGates ==
    ASSUME PlaceInv, GateProofs!Inv
    PROVE  /\ pending = Service!Cardinality(Service!Admitted)
           /\ pending \in Nat
<1>1. Gate!Inside = Service!Admitted
  <2>1. AtPoint({"queued", "synthesizing"}) = Service!Admitted
    BY ProgressTyped DEF PlaceInv, Points, AtPoint, Service!Admitted, Standing
  <2> QED
    BY <2>1, PlacesMatch DEF GateMatchesRequests
<1>2. pending = Cardinality(Gate!Inside) /\ pending \in Nat
  BY SameFinite DEF GateProofs!Inv, GateProofs!PendingExact, GateProofs!TypeOK,
     GateProofs!Inside, GateProofs!In, Gate!Inside, Gate!In
<1>3. \A S : Cardinality(S) = Service!Cardinality(S)
  BY DEF Cardinality, Service!Cardinality
<1> QED
  BY <1>1, <1>2, <1>3

LEMMA RoomDecides ==
    ASSUME pending \in Nat, NEW r \in Requests
    PROVE  Gate!Admits(r) <=> pending < Capacity
BY EndpointAssumption DEF Gate!Admits, Gate!ProjectedQueue, Gate!Clip, Capacity

LEMMA AdmissionServes ==
    ASSUME PlaceInv, GateProofs!Inv, NEW r \in Requests, NEW b \in Bodies,
           Service!Asks(r, b), Admission(r, b)
    PROVE  Service!Admit(r, b) \/ Service!TurnAway(r, b)
<1>1. pending = Service!Cardinality(Service!Admitted) /\ pending \in Nat
  BY RoomIsTheGates
<1>2. \/ /\ ~ Gate!Admits(r) /\ task'[r] = "refused"
      \/ /\ Gate!Admits(r) /\ task'[r] \in {"waiting", "holding"}
  BY DEF Admission, Gate!Acquire, Gate!Refuse, Gate!AcquireAtOnce, Gate!AcquireWaits,
         PlaceInv
<1>3. CASE task'[r] = "refused"
  <2>1. Service!Cardinality(Service!Admitted) >= Capacity
    BY <1>1, <1>2, <1>3, RoomDecides, EndpointAssumption DEF Capacity
  <2>2. Respond(r, b, "at_capacity", None)
    BY <1>3 DEF Admission
  <2> QED
    BY <2>1, <2>2, Responding DEF Service!TurnAway
<1>4. CASE task'[r] \in {"waiting", "holding"}
  <2>1. Service!Cardinality(Service!Admitted) < Capacity
    BY <1>1, <1>2, <1>4, RoomDecides
  <2>2. Suspend(r, b, "queued") \/ Suspend(r, b, "synthesizing")
    BY <1>4 DEF Admission
  <2>3. Service!MoveTo(r, b, "inside")
    BY <2>2, Moving DEF Points, Standing
  <2> QED
    BY <2>1, <2>3 DEF Service!Admit
<1> QED
  BY <1>2, <1>3, <1>4

(* After a step inside ensure_loaded() *)
LEMMA LoadStepServes ==
    ASSUME PlaceInv, GateProofs!Inv, NEW r \in Requests, NEW b \in Accepted,
           \/ pc[r] = "idle" /\ stage'[r] \notin {"unavailable", "timedOut"}
           \/ pc[r] = "warming" /\ b = body[r],
           AfterLoadStep(r, b)
    PROVE  \/ Service!Admit(r, b) \/ Service!TurnAway(r, b) \/ Service!Await(r, b)
           \/ Service!Fail(r, b)
<1>1. b \in Bodies /\ Service!Asks(r, b)
  BY Asking
<1>2. CASE Admission(r, b)
  BY <1>1, <1>2, AdmissionServes
<1>3. CASE Suspend(r, b, "warming")
  <2>1. Service!MoveTo(r, b, "before")
    BY <1>3, Moving DEF Points, Standing
  <2> QED
    BY <1>1, <2>1 DEF Service!Await
<1>4. ASSUME NEW kind \in {"load_failed", "load_timed_out"}, pc[r] = "warming", b = body[r],
             Respond(r, b, kind, None)
      PROVE  Service!Fail(r, b)
  <2>1. Progress[r] = "before" /\ kind \in Service!Errors["before"]
    BY <1>4, ProgressTyped DEF Standing, Service!Errors
  <2> QED
    BY <1>1, <1>4, <2>1, Responding DEF Service!Fail
<1> QED
  BY <1>2, <1>3, <1>4 DEF AfterLoadStep

LEMMA ArriveServes ==
    ASSUME PlaceInv, GateProofs!Inv, LoadProofs!Inv, AnswerInv, NEW r \in Requests, Arrive(r)
    PROVE  Service!Next
<1>1. PICK b \in Bodies : Reject(r, b) \/ Hit(r, b) \/ Miss(r, b)
  BY DEF Arrive
<1>2. pc[r] = "idle" /\ Progress[r] = "away"
  BY <1>1, ProgressTyped DEF Reject, Hit, Miss, Free, Standing
<1>3. CASE Reject(r, b)
  <2>1. Service!Respond(r, b, "rejected", None)
    BY <1>3, Responding DEF Reject
  <2>2. Service!Fail(r, b)
    BY <1>2, <2>1 DEF Service!Fail, Service!Errors
  <2> QED
    BY <2>2 DEF Service!Next
<1>4. CASE Hit(r, b)
  <2> DEFINE audio == Cache!Lookup(lru, Key[b])
  <2>1. /\ b \in Accepted /\ audio # None /\ lru \in Seq(Entries)
        /\ Respond(r, b, "ok", audio)
    BY <1>4 DEF Hit, AnswerInv
  <2>2. Fits(b, audio)
    BY <2>1, LookupFits
  <2>3. audio \in Renderings[b]
    BY <2>2, FitsIsMadeFor DEF Renderings, Fits
  <2>4. Service!Recall(r, b)
    BY <1>2, <2>1, <2>3, Responding DEF Service!Recall
  <2> QED
    BY <2>4 DEF Service!Next
<1>5. CASE Miss(r, b)
  <2>1. stage \in [Requests -> LoadProofs!Stages]
    BY DEF LoadProofs!Inv, LoadProofs!TypeOK
  <2>2. stage'[r] \notin {"unavailable", "timedOut"}
    BY <1>5, <2>1
       DEF Miss, Load!EnsureLoaded, Load!FastPath, Load!StartLoad, Load!AwaitLock
  <2> QED
    BY <1>2, <1>5, <2>2, LoadStepServes DEF Miss, Service!Next
<1> QED
  BY <1>1, <1>3, <1>4, <1>5

LEMMA WarmUpServes ==
    ASSUME PlaceInv, GateProofs!Inv, NEW r \in Requests, TakeLock(r) \/ LoadEnds(r)
    PROVE  Service!Next
<1>1. pc[r] = "warming" /\ AfterLoadStep(r, body[r])
  BY DEF TakeLock, LoadEnds, Loaded, LoadFailed, LoadTimesOut, WarmUpStep
<1>2. body[r] \in Accepted /\ body[r] \in Bodies
  BY <1>1, AcceptedIsBody DEF PlaceInv, UnderWay
<1> QED
  BY <1>1, <1>2, LoadStepServes DEF Service!Next

(* Storing what was made for r delivers it, unless put() raises. *)
LEMMA StoreServes ==
    ASSUME PlaceInv, NEW r \in Requests, body[r] \in Answerable,
           pc[r] \in {"synthesizing", "transcoding"}, Store(r, Made(body[r]))
    PROVE  Service!Next
<1> DEFINE b == body[r]
<1>1. /\ b \in Bodies /\ b \in Accepted
      /\ Progress[r] \in {"inside", "after"}
      /\ "server_error" \in Service!Errors[Progress[r]]
  BY AcceptedIsBody, ProgressTyped DEF Answerable, Standing, Service!Errors
<1>2. CASE Respond(r, b, "ok", Made(b))
  <2>1. Fits(b, Made(b))
    BY <1>1 DEF Fits
  <2>2. Made(b) \in Renderings[b]
    BY <1>1, <2>1, FitsIsMadeFor DEF Renderings
  <2>3. Service!Deliver(r)
    BY <1>1, <1>2, <2>2, Responding DEF Service!Deliver
  <2> QED
    BY <2>3 DEF Service!Next
<1>3. CASE Respond(r, b, "server_error", None)
  <2>1. Service!Fail(r, b)
    BY <1>1, <1>3, Responding DEF Service!Fail
  <2> QED
    BY <1>1, <2>1 DEF Service!Next
<1> QED
  BY <1>2, <1>3 DEF Store

LEMMA FailureServes ==
    ASSUME PlaceInv, NEW r \in Requests, NEW kind,
           \/ pc[r] = "synthesizing" /\ kind \in {"synthesis_failed", "synthesis_timed_out"}
           \/ pc[r] = "transcoding" /\ kind = "transcode_failed",
           Respond(r, body[r], kind, None)
    PROVE  Service!Next
<1>1. body[r] \in Bodies /\ kind \in Service!Errors[Progress[r]]
  BY AcceptedIsBody, ProgressTyped DEF PlaceInv, UnderWay, Standing, Service!Errors
<1>2. Service!Fail(r, body[r])
  BY <1>1, Responding DEF Service!Fail
<1> QED
  BY <1>1, <1>2 DEF Service!Next

LEMMA SynthesisServes ==
    ASSUME PlaceInv, NEW r \in Requests,
           \/ StartQueued(r) \/ SynthesisEnds(r) \/ OrphanEnds(r) \/ TranscodeEnds(r)
    PROVE  Service!Next \/ UNCHANGED Service!vars
<1>1. UnderWay(r) /\ \A d \in Requests : Progress[d] = Standing[pc[d]]
  BY ProgressTyped DEF PlaceInv
<1>2. CASE StartQueued(r)
  <2>1. pc[r] = "queued" /\ Service!MoveTo(r, body[r], "inside")
    BY <1>2, Moving DEF StartQueued, Points, Standing
  <2>2. Progress[r] = "inside"
    BY <1>1, <2>1 DEF Standing
  <2>3. UNCHANGED <<Progress, body, answer>>
    BY <2>1, <2>2, ProgressTyped DEF PlaceInv, Service!MoveTo
  <2> QED
    BY <2>3 DEF Service!vars
<1>3. CASE SynthesisDone(r)
  <2>1. pc[r] = "synthesizing" /\ body[r] \in Answerable
    BY <1>1, <1>3 DEF SynthesisDone, LeaveSynthesis, UnderWay, Answerable
  <2>2. CASE NeedsTranscode(body[r])
    <3>1. Service!MoveTo(r, body[r], "after")
      BY <1>3, <2>2, Moving DEF SynthesisDone, Points, Standing
    <3>2. Service!Leave(r)
      BY <1>1, <2>1, <3>1 DEF Service!Leave, Standing
    <3> QED
      BY <3>2 DEF Service!Next
  <2>3. CASE ~ NeedsTranscode(body[r])
    <3>1. Store(r, Made(body[r]))
      BY <1>3, <2>3 DEF SynthesisDone, Made
    <3> QED
      BY <2>1, <3>1, StoreServes
  <2> QED
    BY <2>2, <2>3
<1>4. CASE SynthesisFails(r) \/ SynthesisTimesOut(r)
  BY <1>4, FailureServes DEF SynthesisFails, SynthesisTimesOut, LeaveSynthesis
<1>5. CASE OrphanEnds(r)
  BY <1>5 DEF OrphanEnds, Service!vars, Progress
<1>6. CASE TranscodeDone(r)
  <2>1. pc[r] = "transcoding" /\ body[r] \in Answerable /\ NeedsTranscode(body[r])
    BY <1>1, <1>6 DEF TranscodeDone, UnderWay, Answerable
  <2>2. Store(r, Made(body[r]))
    BY <1>6, <2>1 DEF TranscodeDone, Made
  <2> QED
    BY <2>1, <2>2, StoreServes
<1>7. CASE TranscodeFails(r)
  BY <1>7, FailureServes DEF TranscodeFails
<1> QED
  BY <1>2, <1>3, <1>4, <1>5, <1>6, <1>7 DEF SynthesisEnds, TranscodeEnds

(* create_speech() keeps what SpeechService promises: one answer to each request,
   for what it asked; and 503 "at capacity" when, and only when, every slot is
   taken and the queue is full.                                                  *)
THEOREM KeepsThePromise == Spec => ImplementsService
<1>1. Init => Service!Init
  BY DEF Init, NoAnswer, Progress, Standing, Service!Init
<1>2. PlaceInv /\ GateProofs!Inv /\ LoadProofs!Inv /\ AnswerInv /\ [Next]_vars
        => [Service!Next]_(Service!vars)
  <2>1. UNCHANGED vars => UNCHANGED Service!vars
    BY DEF vars, Service!vars, Progress
  <2> QED
    BY <2>1, ArriveServes, WarmUpServes, SynthesisServes DEF Next
<1> QED
  BY <1>1, <1>2, PlaceHolds, GateInvHolds, LoadInvHolds, AnswersHold, PTL
     DEF Spec, ImplementsService, Service!Spec
=============================================================================
