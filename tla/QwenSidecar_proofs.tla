------------------------- MODULE QwenSidecar_proofs -------------------------
(***************************************************************************)
(* The load lock of the Qwen provider admits one caller, no sidecar it     *)
(* spawned is forgotten, and it spawns none beside another that it knows   *)
(* of: for every number of concurrent requests and every number of         *)
(* sidecars, whatever dies, hangs or is cut short.                         *)
(***************************************************************************)
EXTENDS QwenSidecar, SequenceLemmas, TLAPS

Behind == Inside \cup {"queued"}                    \* at the load lock
Aiming == {"posting", "reposting", "killing"}       \* with a process in mind

(* The inductive invariant has two halves that meet in few actions: where the
   callers are with respect to the lock ...                                  *)
LockInv ==
    /\ stage \in [Callers -> Stages]
    /\ lock_queue \in Seq(Callers)
    /\ IsInjective(lock_queue)
    /\ Range(lock_queue) = {c \in Callers : stage[c] = "queued"}
    /\ LockExclusive

CallInv ==
    /\ LockInv
    /\ healing \subseteq {c \in Callers : stage[c] \in Behind}
    /\ target \in [Callers -> Procs \cup {NoProc}]
    /\ \A c \in Callers : target[c] # NoProc <=> stage[c] \in Aiming

(* ... and which process is whose.  What serves without having been spawned here
   was there before, and the handle never points to it, nor to a process whose
   handle was dropped.                                                         *)
ProcInv ==
    /\ proc \in Procs \cup {NoProc}
    /\ process \in [Procs -> ProcessStates]
    /\ foreign \subseteq Serving
    /\ dropped \subseteq Running \ foreign
    /\ proc \notin foreign \cup dropped
    /\ NoOrphan
    /\ loaded \in BOOLEAN /\ misread \in BOOLEAN

Inv == CallInv /\ ProcInv

LEMMA InvIsTyped == Inv => TypeOK
BY DEF Inv, CallInv, LockInv, ProcInv, TypeOK, Behind, Aiming, Serving, Running

-----------------------------------------------------------------------------
(* The lock *)

LEMMA EnteringLock ==
    ASSUME LockInv, NEW c \in Callers, stage[c] \notin Behind, EnterLock(c)
    PROVE  /\ LockInv'
           /\ stage'[c] \in Behind \ Aiming
           /\ \A d \in Callers \ {c} : stage'[d] = stage[d]
<1>1. CASE LockHeld
  <2>1. stage' = [stage EXCEPT ![c] = "queued"] /\ lock_queue' = Append(lock_queue, c)
    BY <1>1 DEF EnterLock, Move
  <2>2. c \notin Range(lock_queue) /\ lock_queue \in Seq(Callers) /\ IsInjective(lock_queue)
    BY DEF LockInv, Behind
  <2>3. /\ lock_queue' \in Seq(Callers) /\ IsInjective(lock_queue')
        /\ Range(lock_queue') = Range(lock_queue) \cup {c}
    BY <2>1, <2>2, QueueAppend
  <2>4. /\ stage' \in [Callers -> Stages]
        /\ {d \in Callers : stage'[d] = "queued"}
             = {d \in Callers : stage[d] = "queued"} \cup {c}
    BY <2>1 DEF LockInv, Stages
  <2>5. LockExclusive'
    BY <1>1, <2>1 DEF LockInv, LockExclusive, LockHeld, Behind, Inside
  <2> QED
    BY <2>1, <2>3, <2>4, <2>5 DEF LockInv, Behind, Aiming, Inside
<1>2. CASE ~ LockHeld
  <2>1. stage' = [stage EXCEPT ![c] = "checking"] /\ lock_queue' = lock_queue
    BY <1>2 DEF EnterLock, Move
  <2>2. /\ stage' \in [Callers -> Stages]
        /\ {d \in Callers : stage'[d] = "queued"} = {d \in Callers : stage[d] = "queued"}
    BY <2>1 DEF LockInv, Stages, Behind, Inside
  <2>3. LockExclusive'
    BY <1>2, <2>1 DEF LockInv, LockExclusive, LockHeld, Inside
  <2> QED
    BY <2>1, <2>2, <2>3 DEF LockInv, Behind, Aiming, Inside
<1> QED
  BY <1>1, <1>2

(* The lock goes to the head of the queue. *)
LEMMA LeavingLock ==
    ASSUME LockInv, NEW c \in Callers, stage[c] \in Inside,
           NEW to \in Stages \ Behind, LeaveLock(c, to)
    PROVE  /\ LockInv'
           /\ stage'[c] = to
           /\ \A d \in Callers \ {c} : \/ stage'[d] = stage[d]
                                       \/ stage[d] = "queued" /\ stage'[d] = "checking"
<1>1. \A d \in Callers : stage[d] \in Inside => d = c
  BY DEF LockInv, LockExclusive
<1>2. CASE lock_queue = <<>>
  <2>1. stage' = [stage EXCEPT ![c] = to] /\ lock_queue' = lock_queue
    BY <1>2 DEF LeaveLock, Move
  <2>2. /\ stage' \in [Callers -> Stages]
        /\ {d \in Callers : stage'[d] = "queued"} = {d \in Callers : stage[d] = "queued"}
    BY <2>1 DEF LockInv, Stages, Behind, Inside
  <2> QED
    BY <1>1, <1>2, <2>1, <2>2 DEF LockInv, LockExclusive, LockHeld, Behind
<1>3. CASE lock_queue # <<>>
  <2> DEFINE h == Head(lock_queue)
  <2>1. /\ stage' = [stage EXCEPT ![c] = to, ![h] = "checking"]
        /\ lock_queue' = Tail(lock_queue)
    BY <1>3 DEF LeaveLock
  <2>2. /\ h \in Range(lock_queue)
        /\ lock_queue' \in Seq(Callers) /\ IsInjective(lock_queue')
        /\ Range(lock_queue') = Range(lock_queue) \ {h}
    BY <1>3, <2>1, QueueTail DEF LockInv
  <2> HIDE DEF h
  <2>3. h \in Callers /\ stage[h] = "queued" /\ h # c
    BY <2>2 DEF LockInv, Inside
  <2>4. /\ stage' \in [Callers -> Stages]
        /\ {d \in Callers : stage'[d] = "queued"}
             = {d \in Callers : stage[d] = "queued"} \ {h}
        /\ \A d \in Callers : stage'[d] \in Inside <=> d = h
    BY <1>1, <2>1, <2>3 DEF LockInv, Stages, Behind, Inside
  <2> QED
    BY <2>1, <2>2, <2>3, <2>4 DEF LockInv, LockExclusive, LockHeld
<1> QED
  BY <1>2, <1>3

LEMMA MovingInside ==
    ASSUME LockInv, NEW c \in Callers, stage[c] \in Inside, NEW to \in Inside,
           Move(c, to), UNCHANGED lock_queue
    PROVE  /\ LockInv'
           /\ stage'[c] = to
           /\ \A d \in Callers \ {c} : stage'[d] = stage[d]
<1>1. stage' = [stage EXCEPT ![c] = to] /\ lock_queue' = lock_queue
  BY DEF Move
<1>2. /\ stage' \in [Callers -> Stages]
      /\ {d \in Callers : stage'[d] = "queued"} = {d \in Callers : stage[d] = "queued"}
      /\ \A d \in Callers : stage'[d] \in Inside <=> stage[d] \in Inside
  BY <1>1 DEF LockInv, Stages, Inside
<1> QED
  BY <1>1, <1>2 DEF LockInv, LockExclusive, LockHeld

LEMMA MovingOutside ==
    ASSUME LockInv, NEW c \in Callers, stage[c] \notin Behind, NEW to \in Stages \ Behind,
           Move(c, to), UNCHANGED lock_queue
    PROVE  /\ LockInv'
           /\ stage'[c] = to
           /\ \A d \in Callers \ {c} : stage'[d] = stage[d]
<1>1. stage' = [stage EXCEPT ![c] = to] /\ lock_queue' = lock_queue
  BY DEF Move
<1>2. /\ stage' \in [Callers -> Stages]
      /\ {d \in Callers : stage'[d] = "queued"} = {d \in Callers : stage[d] = "queued"}
      /\ \A d \in Callers : stage'[d] \in Inside <=> stage[d] \in Inside
  BY <1>1 DEF LockInv, Stages, Inside, Behind
<1> QED
  BY <1>1, <1>2 DEF LockInv, LockExclusive, LockHeld

(* A caller that gives up in the queue takes nothing with it. *)
LEMMA LeavingQueue ==
    ASSUME LockInv, NEW c \in Callers, stage[c] = "queued", Move(c, "idle"),
           NEW i \in DOMAIN lock_queue, lock_queue[i] = c,
           lock_queue' = RemoveAt(lock_queue, i)
    PROVE  /\ LockInv'
           /\ stage'[c] = "idle"
           /\ \A d \in Callers \ {c} : stage'[d] = stage[d]
<1>1. stage' = [stage EXCEPT ![c] = "idle"]
  BY DEF Move
<1>2. /\ lock_queue' \in Seq(Callers) /\ IsInjective(lock_queue')
      /\ Range(lock_queue') = Range(lock_queue) \ {c}
  BY QueueRemoveAt DEF LockInv
<1>3. /\ stage' \in [Callers -> Stages]
      /\ {d \in Callers : stage'[d] = "queued"} = {d \in Callers : stage[d] = "queued"} \ {c}
      /\ \A d \in Callers : stage'[d] \in Inside <=> stage[d] \in Inside
  BY <1>1 DEF LockInv, Stages, Inside
<1>4. lock_queue # <<>>
  OBVIOUS
<1> QED
  BY <1>1, <1>2, <1>3, <1>4 DEF LockInv, LockExclusive, LockHeld

(* What a step of caller c has to keep, once it has kept the lock. *)
LEMMA CallStep ==
    ASSUME CallInv, LockInv', NEW c \in Callers,
           \A d \in Callers \ {c} : \/ stage'[d] = stage[d]
                                    \/ stage[d] = "queued" /\ stage'[d] = "checking",
           healing' \subseteq healing \cup {c},
           c \in healing' => stage'[c] \in Behind,
           NEW p \in Procs \cup {NoProc}, target' = [target EXCEPT ![c] = p],
           p # NoProc <=> stage'[c] \in Aiming
    PROVE  CallInv'
<1>1. healing' \subseteq {d \in Callers : stage'[d] \in Behind}
  BY DEF CallInv, Behind, Inside
<1>2. target' \in [Callers -> Procs \cup {NoProc}]
  BY DEF CallInv
<1>3. \A d \in Callers : target'[d] # NoProc <=> stage'[d] \in Aiming
  BY DEF CallInv, Aiming
<1> QED
  BY <1>1, <1>2, <1>3 DEF CallInv

(* ... and when it aims at the process it did, or at none. *)
LEMMA CallStepSameTarget ==
    ASSUME CallInv, LockInv', NEW c \in Callers,
           \A d \in Callers \ {c} : \/ stage'[d] = stage[d]
                                    \/ stage[d] = "queued" /\ stage'[d] = "checking",
           healing' \subseteq healing \cup {c},
           c \in healing' => stage'[c] \in Behind,
           target' = target,
           stage[c] \in Aiming <=> stage'[c] \in Aiming
    PROVE  CallInv'
<1>1. target' = [target EXCEPT ![c] = target[c]] /\ target[c] \in Procs \cup {NoProc}
  BY DEF CallInv
<1>2. target[c] # NoProc <=> stage'[c] \in Aiming
  BY DEF CallInv
<1> QED
  BY <1>1, <1>2, CallStep

-----------------------------------------------------------------------------
(* Steps of the callers: CallInv *)

LEMMA BeginCall == ASSUME CallInv, NEW c \in Callers, Begin(c) PROVE CallInv'
<1>1. stage[c] = "idle" /\ stage[c] \notin Behind /\ stage[c] \notin Aiming
  BY DEF Begin, Behind, Inside, Aiming
<1>2. UNCHANGED <<healing, target>> /\ c \notin healing
  BY <1>1 DEF Begin, CallInv
<1>3. CASE Move(c, "connecting") /\ UNCHANGED lock_queue
  <2>1. "connecting" \in Stages \ Behind /\ "connecting" \notin Aiming
    BY DEF Stages, Behind, Inside, Aiming
  <2>2. /\ LockInv' /\ stage'[c] = "connecting"
        /\ \A d \in Callers \ {c} : stage'[d] = stage[d]
    BY <1>1, <1>3, <2>1, MovingOutside DEF CallInv
  <2> QED
    BY <1>1, <1>2, <2>1, <2>2, CallStepSameTarget
<1>4. CASE EnterLock(c)
  <2>1. /\ LockInv' /\ stage'[c] \in Behind \ Aiming
        /\ \A d \in Callers \ {c} : stage'[d] = stage[d]
    BY <1>1, <1>4, EnteringLock DEF CallInv
  <2> QED
    BY <1>1, <1>2, <2>1, CallStepSameTarget
<1> QED
  BY <1>3, <1>4 DEF Begin, EnsureLoaded, Synthesize

(* load() ends, with an exception or without. *)
LEMMA LoadEndsCall ==
    ASSUME CallInv, NEW c \in Callers, stage[c] \in {"checking", "starting"},
           LoadRaises(c) \/ LoadReturns(c)
    PROVE  CallInv'
<1>1. PICK to \in {"idle", "connecting", "reconnecting"} : LeaveLock(c, to)
  BY DEF LoadRaises, LoadReturns
<1>2. healing' = healing \ {c} /\ target' = target
  BY DEF LoadRaises, LoadReturns
<1>3. /\ stage[c] \in Inside /\ stage[c] \notin Aiming
      /\ to \in Stages \ Behind /\ to \notin Aiming
  BY DEF Stages, Behind, Inside, Aiming
<1>4. /\ LockInv' /\ stage'[c] = to
      /\ \A d \in Callers \ {c} : \/ stage'[d] = stage[d]
                                  \/ stage[d] = "queued" /\ stage'[d] = "checking"
  BY <1>1, <1>3, LeavingLock DEF CallInv
<1> QED
  BY <1>2, <1>3, <1>4, CallStepSameTarget

LEMMA ProbeDownCall == ASSUME CallInv, NEW c \in Callers, ProbeDown(c) PROVE CallInv'
<1>1. /\ stage[c] \in Inside /\ stage[c] \notin Aiming
      /\ "starting" \in Inside /\ "starting" \notin Aiming /\ "starting" \in Behind
  BY DEF ProbeDown, Behind, Inside, Aiming
<1>2. /\ LockInv' /\ stage'[c] = "starting"
      /\ \A d \in Callers \ {c} : stage'[d] = stage[d]
  BY <1>1, MovingInside DEF CallInv, ProbeDown
<1>3. UNCHANGED <<healing, target>>
  BY DEF ProbeDown
<1> QED
  BY <1>1, <1>2, <1>3, CallStepSameTarget

LEMMA StartupTimesOutCall ==
    ASSUME CallInv, ProcInv, NEW c \in Callers, StartupTimesOut(c)
    PROVE  CallInv'
<1>1. CASE /\ HandleUsable
           /\ Move(c, "killing")
           /\ target' = [target EXCEPT ![c] = proc]
           /\ UNCHANGED <<healing, lock_queue, loaded>>
  <2>1. /\ stage[c] \in Inside
        /\ "killing" \in Inside /\ "killing" \in Aiming /\ "killing" \in Behind
    BY DEF StartupTimesOut, Behind, Inside, Aiming
  <2>2. /\ LockInv' /\ stage'[c] = "killing"
        /\ \A d \in Callers \ {c} : stage'[d] = stage[d]
    BY <1>1, <2>1, MovingInside DEF CallInv
  <2>3. proc \in Procs \cup {NoProc} /\ proc # NoProc
    BY <1>1 DEF ProcInv, HandleUsable
  <2> QED
    BY <1>1, <2>1, <2>2, <2>3, CallStep
<1>2. CASE LoadRaises(c)
  BY <1>2, LoadEndsCall DEF StartupTimesOut
<1> QED
  BY <1>1, <1>2 DEF StartupTimesOut

LEMMA KillDoneCall == ASSUME CallInv, NEW c \in Callers, KillDone(c) PROVE CallInv'
<1>1. stage[c] \in Inside /\ "idle" \in Stages \ Behind /\ "idle" \notin Aiming
  BY DEF KillDone, Stages, Behind, Inside, Aiming
<1>2. /\ LockInv' /\ stage'[c] = "idle"
      /\ \A d \in Callers \ {c} : \/ stage'[d] = stage[d]
                                  \/ stage[d] = "queued" /\ stage'[d] = "checking"
  BY <1>1, LeavingLock DEF CallInv, KillDone
<1>3. healing' = healing \ {c} /\ target' = [target EXCEPT ![c] = NoProc]
  BY DEF KillDone
<1> QED
  BY <1>1, <1>2, <1>3, CallStep

LEMMA ConnectCall == ASSUME CallInv, NEW c \in Callers, Connect(c) PROVE CallInv'
<1>1. /\ stage[c] \notin Behind /\ stage[c] \notin Aiming
      /\ {"posting", "reposting", "probing", "idle"} \subseteq Stages \ Behind
      /\ "probing" \notin Aiming /\ "idle" \notin Aiming
      /\ "posting" \in Aiming /\ "reposting" \in Aiming
  BY DEF Connect, Stages, Behind, Inside, Aiming
<1>2. c \notin healing /\ UNCHANGED <<healing, lock_queue>>
  BY <1>1 DEF CallInv, Connect
<1>3. ASSUME NEW p \in Serving, target' = [target EXCEPT ![c] = p],
             Move(c, IF stage[c] = "connecting" THEN "posting" ELSE "reposting")
      PROVE  CallInv'
  <2>1. PICK to \in {"posting", "reposting"} : Move(c, to)
    BY <1>3
  <2>2. /\ LockInv' /\ stage'[c] = to
        /\ \A d \in Callers \ {c} : stage'[d] = stage[d]
    BY <1>1, <1>2, <2>1, MovingOutside DEF CallInv
  <2>3. p \in Procs \cup {NoProc} /\ p # NoProc
    BY SidecarAssumption DEF Serving
  <2> QED
    BY <1>1, <1>2, <1>3, <2>2, <2>3, CallStep
<1>4. ASSUME Move(c, IF stage[c] = "connecting" THEN "probing" ELSE "idle"),
             UNCHANGED target
      PROVE  CallInv'
  <2>1. PICK to \in {"probing", "idle"} : Move(c, to)
    BY <1>4
  <2>2. /\ LockInv' /\ stage'[c] = to
        /\ \A d \in Callers \ {c} : stage'[d] = stage[d]
    BY <1>1, <1>2, <2>1, MovingOutside DEF CallInv
  <2> QED
    BY <1>1, <1>2, <1>4, <2>2, CallStepSameTarget
<1> QED
  BY <1>3, <1>4 DEF Connect

LEMMA PostCall ==
    ASSUME CallInv, NEW c \in Callers, PostEnds(c) \/ PostBreaks(c)
    PROVE  CallInv'
<1>1. PICK to \in {"idle", "probing"} : Move(c, to)
  BY DEF PostEnds, PostBreaks
<1>2. /\ stage[c] \notin Behind /\ to \in Stages \ Behind /\ to \notin Aiming
  BY DEF PostEnds, PostBreaks, Stages, Behind, Inside, Aiming
<1>3. /\ c \notin healing /\ UNCHANGED <<healing, lock_queue>>
      /\ target' = [target EXCEPT ![c] = NoProc]
  BY <1>2 DEF CallInv, PostEnds, PostBreaks
<1>4. /\ LockInv' /\ stage'[c] = to
      /\ \A d \in Callers \ {c} : stage'[d] = stage[d]
  BY <1>1, <1>2, <1>3, MovingOutside DEF CallInv
<1> QED
  BY <1>2, <1>3, <1>4, CallStep

LEMMA HealCall ==
    ASSUME CallInv, NEW c \in Callers, HealNotNeeded(c) \/ Heal(c)
    PROVE  CallInv'
<1>1. stage[c] \notin Behind /\ stage[c] \notin Aiming /\ target' = target
  BY DEF HealNotNeeded, Heal, Behind, Inside, Aiming
<1>2. CASE HealNotNeeded(c)
  <2>1. "idle" \in Stages \ Behind /\ "idle" \notin Aiming
    BY DEF Stages, Behind, Inside, Aiming
  <2>2. /\ LockInv' /\ stage'[c] = "idle"
        /\ \A d \in Callers \ {c} : stage'[d] = stage[d]
    BY <1>1, <1>2, <2>1, MovingOutside DEF CallInv, HealNotNeeded
  <2>3. c \notin healing /\ healing' = healing
    BY <1>1, <1>2 DEF CallInv, HealNotNeeded
  <2> QED
    BY <1>1, <2>1, <2>2, <2>3, CallStepSameTarget
<1>3. CASE Heal(c)
  <2>1. /\ LockInv' /\ stage'[c] \in Behind \ Aiming
        /\ \A d \in Callers \ {c} : stage'[d] = stage[d]
    BY <1>1, <1>3, EnteringLock DEF CallInv, Heal
  <2>2. healing' = healing \cup {c}
    BY <1>3 DEF Heal
  <2> QED
    BY <1>1, <2>1, <2>2, CallStepSameTarget
<1> QED
  BY <1>2, <1>3

LEMMA CutShortCall == ASSUME CallInv, NEW c \in Callers, CutShort(c) PROVE CallInv'
<1>1. "idle" \in Stages \ Behind /\ "idle" \notin Aiming
  BY DEF Stages, Behind, Inside, Aiming
<1>2. healing' = healing \ {c} /\ target' = [target EXCEPT ![c] = NoProc]
  BY DEF CutShort
<1>3. /\ LockInv' /\ stage'[c] = "idle"
      /\ \A d \in Callers \ {c} : \/ stage'[d] = stage[d]
                                  \/ stage[d] = "queued" /\ stage'[d] = "checking"
  <2>1. CASE stage[c] \in Inside /\ LeaveLock(c, "idle")
    BY <1>1, <2>1, LeavingLock DEF CallInv
  <2>2. CASE /\ stage[c] = "queued"
             /\ Move(c, "idle")
             /\ \E i \in DOMAIN lock_queue : /\ lock_queue[i] = c
                                             /\ lock_queue' = RemoveAt(lock_queue, i)
    BY <2>2, LeavingQueue DEF CallInv
  <2>3. CASE stage[c] \notin Inside \cup {"queued"} /\ Move(c, "idle") /\ UNCHANGED lock_queue
    <3>1. stage[c] \notin Behind
      BY <2>3 DEF Behind
    <3> QED
      BY <1>1, <2>3, <3>1, MovingOutside DEF CallInv
  <2> QED
    BY <2>1, <2>2, <2>3 DEF CutShort
<1> QED
  BY <1>1, <1>2, <1>3, CallStep

(* What happens to the processes does not move the callers. *)
LEMMA CallsUntouched == ASSUME CallInv, UNCHANGED calls PROVE CallInv'
<1>1. UNCHANGED <<stage, healing, target, lock_queue>>
  BY DEF calls
<1> QED
  BY <1>1 DEF CallInv, LockInv, LockExclusive, LockHeld
-----------------------------------------------------------------------------
(* Steps: ProcInv, and whether a sidecar is spawned *)

NoSpawn == \A p \in Procs : process'[p] = "preloading" => process[p] = "preloading"

LEMMA ProcStays ==
    ASSUME ProcInv, UNCHANGED <<proc, process, foreign, dropped>>,
           loaded' \in BOOLEAN, misread' \in BOOLEAN
    PROVE  ProcInv' /\ NoSpawn
BY DEF ProcInv, NoOrphan, Running, Serving, NoSpawn

(* What the caller forgets was not running; otherwise it is healing, which drops
   the handle.                                                                 *)
LEMMA HandleCleared ==
    ASSUME ProcInv, proc' = NoProc, UNCHANGED <<process, foreign>>,
           dropped' = dropped \cup ({proc} \cap Running),
           loaded' \in BOOLEAN, misread' \in BOOLEAN
    PROVE  ProcInv' /\ NoSpawn
<1>1. NoProc \notin Procs
  BY SidecarAssumption
<1>2. /\ foreign' \subseteq Serving' /\ Running' = Running
      /\ Running \subseteq Procs /\ Serving \subseteq Running /\ foreign' \subseteq Running
  BY DEF ProcInv, Serving, Running
<1>3. dropped' \subseteq Running' \ foreign'
  BY <1>2 DEF ProcInv
<1>4. proc' \notin foreign' \cup dropped'
  BY <1>1, <1>2, <1>3
<1>5. NoOrphan'
  BY <1>2 DEF ProcInv, NoOrphan
<1> QED
  BY <1>2, <1>3, <1>4, <1>5 DEF ProcInv, NoSpawn

LEMMA UnusableIsNotRunning == ASSUME ~ HandleUsable PROVE proc \notin Running
BY SidecarAssumption DEF HandleUsable, Running

(* _terminate_proc() *)
LEMMA Terminating ==
    ASSUME ProcInv, Terminate, UNCHANGED <<foreign, dropped>>,
           loaded' \in BOOLEAN, misread' \in BOOLEAN
    PROVE  ProcInv' /\ NoSpawn
<1>1. NoProc \notin Procs /\ proc' = NoProc
  BY SidecarAssumption DEF Terminate
<1>2. CASE ~ HandleUsable
  <2>1. process' = process /\ dropped' = dropped \cup ({proc} \cap Running)
    BY <1>2, UnusableIsNotRunning DEF Terminate
  <2> QED
    BY <1>1, <2>1, HandleCleared
<1>3. CASE HandleUsable
  <2>1. proc \in Procs /\ process' = [process EXCEPT ![proc] = "terminated"]
    BY <1>3 DEF Terminate, HandleUsable, ProcInv
  <2>2. /\ process' \in [Procs -> ProcessStates]
        /\ Serving' = Serving \ {proc} /\ Running' = Running \ {proc}
    BY <2>1 DEF ProcInv, ProcessStates, Serving, Running
  <2>3. foreign' \subseteq Serving' /\ dropped' \subseteq Running' \ foreign'
    BY <2>2 DEF ProcInv
  <2>4. proc' \notin foreign' \cup dropped'
    BY <1>1, <2>3 DEF Serving, Running
  <2>5. NoOrphan'
    BY <2>2 DEF ProcInv, NoOrphan
  <2>6. NoSpawn
    BY <2>1 DEF ProcInv, NoSpawn
  <2> QED
    BY <1>1, <2>2, <2>3, <2>4, <2>5, <2>6 DEF ProcInv
<1> QED
  BY <1>2, <1>3

(* The one step that spawns.  What runs beside the new sidecar is what a probe
   failed to see, or was dropped by healing.                                   *)
LEMMA ProbeDownProc ==
    ASSUME ProcInv, NEW c \in Callers, ProbeDown(c)
    PROVE  /\ ProcInv'
           /\ NoSpawn \/ Running \subseteq dropped \cup (IF misread' THEN Serving ELSE {})
<1>1. /\ UNCHANGED <<foreign, dropped, loaded>> /\ misread' \in BOOLEAN
      /\ Serving # {} => misread'
  BY DEF ProbeDown, FoundDown, ProcInv
<1>2. CASE UNCHANGED <<proc, process>>
  BY <1>1, <1>2, ProcStays DEF ProcInv
<1>3. ASSUME ~ HandleUsable, NEW p \in Procs, Fresh(p), proc' = p,
             process' = [process EXCEPT ![p] = "preloading"]
      PROVE  /\ ProcInv'
             /\ Running \subseteq dropped \cup (IF misread' THEN Serving ELSE {})
  <2>1. Running \subseteq dropped \cup foreign
    BY <1>3, UnusableIsNotRunning DEF ProcInv, NoOrphan
  <2>2. foreign \subseteq (IF misread' THEN Serving ELSE {})
    BY <1>1 DEF ProcInv
  <2>3. /\ process' \in [Procs -> ProcessStates]
        /\ Serving' = Serving /\ Running' = Running \cup {p} /\ p \notin Running
        /\ Serving \subseteq Running
    BY <1>3 DEF ProcInv, ProcessStates, Serving, Running, Fresh
  <2>4. /\ foreign' \subseteq Serving' /\ dropped' \subseteq Running' \ foreign'
        /\ p \notin foreign' \cup dropped'
    BY <1>1, <2>3 DEF ProcInv
  <2>5. NoOrphan'
    BY <1>1, <1>3, <2>1, <2>3 DEF NoOrphan
  <2> QED
    BY <1>1, <1>3, <2>1, <2>2, <2>3, <2>4, <2>5 DEF ProcInv
<1> QED
  BY <1>2, <1>3 DEF ProbeDown

LEMMA PreloadEndsProc ==
    ASSUME ProcInv, NEW p \in Procs, PreloadEnds(p)
    PROVE  ProcInv' /\ NoSpawn
<1>1. /\ process[p] = "preloading" /\ UNCHANGED <<proc, foreign, misread, loaded>>
      /\ p \in Running \ Serving /\ p \notin foreign
  BY DEF PreloadEnds, ProcInv, Running, Serving
<1>2. CASE Serving = {}
  <2>1. process' = [process EXCEPT ![p] = "serving"] /\ dropped' = dropped
    BY <1>2 DEF PreloadEnds
  <2>2. /\ process' \in [Procs -> ProcessStates]
        /\ Serving' = Serving \cup {p} /\ Running' = Running
    BY <1>1, <2>1 DEF ProcInv, ProcessStates, Serving, Running
  <2>3. NoSpawn
    BY <2>1 DEF ProcInv, NoSpawn
  <2> QED
    BY <1>1, <2>1, <2>2, <2>3 DEF ProcInv, NoOrphan
<1>3. CASE Serving # {}
  <2>1. process' = [process EXCEPT ![p] = "dead"] /\ dropped' = dropped \ {p}
    BY <1>3 DEF PreloadEnds
  <2>2. /\ process' \in [Procs -> ProcessStates]
        /\ Serving' = Serving /\ Running' = Running \ {p}
    BY <1>1, <2>1 DEF ProcInv, ProcessStates, Serving, Running
  <2>3. NoSpawn
    BY <2>1 DEF ProcInv, NoSpawn
  <2> QED
    BY <1>1, <2>1, <2>2, <2>3 DEF ProcInv, NoOrphan
<1> QED
  BY <1>2, <1>3

LEMMA DiesProc ==
    ASSUME ProcInv, NEW p \in Procs, Dies(p)
    PROVE  ProcInv' /\ NoSpawn
<1>1. /\ process' = [process EXCEPT ![p] = "dead"]
      /\ foreign' = foreign \ {p} /\ dropped' = dropped \ {p}
      /\ UNCHANGED <<proc, misread, loaded>>
  BY DEF Dies
<1>2. /\ process' \in [Procs -> ProcessStates]
      /\ Serving' = Serving \ {p} /\ Running' = Running \ {p}
  BY <1>1 DEF ProcInv, ProcessStates, Serving, Running
<1>3. NoSpawn
  BY <1>1 DEF ProcInv, NoSpawn
<1> QED
  BY <1>1, <1>2, <1>3 DEF ProcInv, NoOrphan

LEMMA CallProc ==
    ASSUME ProcInv, NEW c \in Callers, Call(c), ~ ProbeDown(c)
    PROVE  ProcInv' /\ NoSpawn
<1>1. ASSUME FoundDown PROVE misread' \in BOOLEAN
  BY <1>1 DEF FoundDown, ProcInv
<1>2. ASSUME LoadRaises(c) \/ LoadReturns(c) PROVE loaded' \in BOOLEAN
  BY <1>2 DEF LoadRaises, LoadReturns, ProcInv
<1>3. loaded \in BOOLEAN /\ misread \in BOOLEAN
  BY DEF ProcInv
<1>4. CASE ProbeHealthy(c) \/ StartupReady(c)
  BY <1>2, <1>3, <1>4, ProcStays DEF ProbeHealthy, StartupReady
<1>5. CASE \/ KillDone(c) \/ Connect(c) \/ PostEnds(c) \/ PostBreaks(c)
           \/ HealNotNeeded(c)
  BY <1>3, <1>5, ProcStays DEF KillDone, Connect, PostEnds, PostBreaks, HealNotNeeded
<1>6. CASE SpawnFails(c) \/ StartupDies(c)
  <2>1. ~ HandleUsable
    BY <1>6 DEF SpawnFails, StartupDies, HandleUsable
  <2>2. /\ proc' = NoProc /\ UNCHANGED <<process, foreign>>
        /\ dropped' = dropped \cup ({proc} \cap Running)
    BY <1>6, <2>1, UnusableIsNotRunning DEF SpawnFails, StartupDies
  <2>3. loaded' \in BOOLEAN /\ misread' \in BOOLEAN
    BY <1>1, <1>2, <1>3, <1>6 DEF SpawnFails, StartupDies
  <2> QED
    BY <2>2, <2>3, HandleCleared
<1>7. CASE StartupTimesOut(c)
  BY <1>1, <1>2, <1>3, <1>7, Terminating DEF StartupTimesOut
<1>8. CASE Heal(c)
  <2>1. /\ proc' = NoProc /\ UNCHANGED <<process, foreign, loaded>>
        /\ dropped' = dropped \cup ({proc} \cap Running) /\ FoundDown
    BY <1>8 DEF Heal
  <2> QED
    BY <1>1, <1>3, <2>1, HandleCleared
<1> QED
  BY <1>4, <1>5, <1>6, <1>7, <1>8 DEF Call

-----------------------------------------------------------------------------
LEMMA InitInv == Init => Inv
<1> SUFFICES ASSUME Init PROVE Inv
  OBVIOUS
<1>1. /\ LockInv /\ lock_queue = <<>> /\ ~ LockHeld
  BY DEF Init, LockInv, LockExclusive, LockHeld, Stages, Inside, Range, IsInjective
<1>2. CallInv
  BY <1>1, SidecarAssumption DEF Init, CallInv, Aiming
<1>3. /\ process \in [Procs -> ProcessStates]
      /\ foreign \subseteq Procs /\ Running = foreign /\ Serving = foreign
  BY DEF Init, ProcessStates, Running, Serving
<1>4. ProcInv
  BY <1>3, SidecarAssumption DEF Init, ProcInv, NoOrphan
<1> QED
  BY <1>2, <1>4 DEF Inv

(* One step keeps the invariant, and spawns alone. *)
LEMMA StepInv ==
    ASSUME Inv, [Next]_vars
    PROVE  /\ Inv'
           /\ NoSpawn \/ Running \subseteq dropped \cup (IF misread' THEN Serving ELSE {})
<1> USE DEF Inv
<1>1. ASSUME NEW c \in Callers, Begin(c)
      PROVE  Inv' /\ NoSpawn
  BY <1>1, BeginCall, ProcStays DEF Begin, ProcInv
<1>2. ASSUME NEW c \in Callers, ProbeDown(c)
      PROVE  /\ Inv'
             /\ NoSpawn \/ Running \subseteq dropped \cup (IF misread' THEN Serving ELSE {})
  BY <1>2, ProbeDownCall, ProbeDownProc
<1>3. ASSUME NEW c \in Callers, Call(c), ~ ProbeDown(c)
      PROVE  Inv' /\ NoSpawn
  <2>1. ProcInv' /\ NoSpawn
    BY <1>3, CallProc
  <2>2. CASE \/ ProbeHealthy(c) \/ SpawnFails(c)
             \/ StartupDies(c) \/ StartupReady(c)
    BY <2>1, <2>2, LoadEndsCall DEF ProbeHealthy, SpawnFails, StartupDies, StartupReady
  <2>3. CASE StartupTimesOut(c)
    BY <2>1, <2>3, StartupTimesOutCall
  <2>4. CASE KillDone(c)
    BY <2>1, <2>4, KillDoneCall
  <2>5. CASE Connect(c)
    BY <2>1, <2>5, ConnectCall
  <2>6. CASE PostEnds(c) \/ PostBreaks(c)
    BY <2>1, <2>6, PostCall
  <2>7. CASE HealNotNeeded(c) \/ Heal(c)
    BY <2>1, <2>7, HealCall
  <2> QED
    BY <1>3, <2>2, <2>3, <2>4, <2>5, <2>6, <2>7 DEF Call
<1>4. ASSUME NEW c \in Callers, CutShort(c)
      PROVE  Inv' /\ NoSpawn
  BY <1>4, CutShortCall, ProcStays DEF CutShort, ProcInv
<1>5. ASSUME NEW p \in Procs, PreloadEnds(p)
      PROVE  Inv' /\ NoSpawn
  BY <1>5, CallsUntouched, PreloadEndsProc DEF PreloadEnds
<1>6. ASSUME NEW p \in Procs, Dies(p)
      PROVE  Inv' /\ NoSpawn
  BY <1>6, CallsUntouched, DiesProc DEF Dies
<1>7. CASE Shutdown
  BY <1>7, CallsUntouched, Terminating DEF Shutdown, ProcInv
<1>8. CASE UNCHANGED vars
  <2>1. UNCHANGED calls /\ UNCHANGED <<proc, process, foreign, dropped, misread, loaded>>
    BY <1>8 DEF vars, calls
  <2> QED
    BY <2>1, CallsUntouched, ProcStays DEF ProcInv
<1> QED
  BY <1>1, <1>2, <1>3, <1>4, <1>5, <1>6, <1>7, <1>8 DEF Next

-----------------------------------------------------------------------------
(* The callers at the lock, in its queue and at a process, and the processes
   that run, that were there before and that were dropped, always fit together. *)
THEOREM InvHolds == Spec => []Inv
<1>1. Inv /\ [Next]_vars => Inv'
  BY StepInv
<1> QED
  BY <1>1, InitInv, PTL DEF Spec

THEOREM TypeOKHolds == Spec => []TypeOK
BY InvHolds, InvIsTyped, PTL

(* One caller at a time is inside load(), and nobody waits for a lock that is
   free, wherever a holder or a waiter was cut short.                          *)
THEOREM LoadsOneByOne == Spec => []LockExclusive
<1>1. Inv => LockExclusive
  BY DEF Inv, CallInv, LockInv
<1> QED
  BY <1>1, InvHolds, PTL

(* Every sidecar the provider spawned is terminated, or the one of its handle,
   or one that healing dropped: terminate() reaches all the others.            *)
THEOREM SidecarsAreOwned == Spec => []NoOrphan
<1>1. Inv => NoOrphan
  BY DEF Inv, ProcInv
<1> QED
  BY <1>1, InvHolds, PTL

(* No sidecar is spawned beside one that serves or still loads its model, but for
   one that healing dropped or that a probe took for dead.                     *)
THEOREM SidecarsSpawnAlone == Spec => SpawnsAlone
<1>1. Inv /\ [Next]_vars
        => [\A p \in Procs :
              process[p] = "dead" /\ process'[p] = "preloading"
                 => Running \subseteq dropped \cup (IF misread' THEN Serving ELSE {})]_vars
  BY StepInv DEF NoSpawn
<1> QED
  BY <1>1, InvHolds, PTL DEF Spec, SpawnsAlone
=============================================================================
