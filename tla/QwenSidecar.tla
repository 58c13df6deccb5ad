---------------------------- MODULE QwenSidecar ----------------------------
(***************************************************************************)
(* providers/qwen.py: the proxy that owns the Qwen sidecar process.  It    *)
(* starts the process in load(), finds it again over its port, respawns it *)
(* when a request meets a dead port, and terminates it at shutdown.  The   *)
(* provider knows one handle (`_proc`) and one port; the operating system  *)
(* may hold any number of sidecars, of which one can be bound to the port. *)
(*                                                                         *)
(* A caller is a request that holds a slot of the provider's gate, so      *)
(* Cardinality(Callers) is the configured concurrency (1 for a GPU); while *)
(* the provider is not loaded it is the one inside the registry's load     *)
(* lock.  Any caller may be cut short by its wait_for.                     *)
(***************************************************************************)
EXTENDS FiniteSets, Sequences, SequencesExt

CONSTANTS
    Callers,       \* concurrent requests, at most the provider's concurrency
    Procs,         \* process slots; a dead one is reused (bounds the sidecars)
    NoProc         \* _proc = None

ASSUME SidecarAssumption == NoProc \notin Procs

VARIABLES
    stage,       \* where each caller is suspended
    healing,     \* callers whose load() was called by _post_with_self_healing
    target,      \* the process each POST was sent to
    lock_queue,  \* callers suspended in _load_lock.acquire()
    proc,        \* QwenProvider._proc
    process,     \* what each process is doing
    foreign,     \* processes this provider did not spawn
    dropped,     \* history: spawned ones whose handle Heal threw away alive
    misread,     \* history: a slow answer of a serving sidecar counted as none
    loaded,      \* ProviderEntry.loaded
    phase        \* "up", or "down" after the lifespan's shutdown

vars == <<stage, healing, target, lock_queue, proc, process, foreign, dropped,
          misread, loaded, phase>>
calls == <<stage, healing, target, lock_queue>>

Inside == {"checking", "starting", "killing"}   \* holding _load_lock
Stages == Inside \cup {"idle", "connecting", "posting", "probing", "queued",
                       "reconnecting", "reposting"}

ProcessStates == {"dead", "preloading", "serving", "terminated"}

Serving == {p \in Procs : process[p] = "serving"}
Running == {p \in Procs : process[p] \in {"preloading", "serving"}}
LockHeld == \E c \in Callers : stage[c] \in Inside

Init == /\ stage = [c \in Callers |-> "idle"]
        /\ healing = {}
        /\ target = [c \in Callers |-> NoProc]
        /\ lock_queue = <<>>
        /\ proc = NoProc
        /\ foreign \in {{}} \cup {{p} : p \in Procs}
        /\ dropped = {}
        /\ misread = FALSE
        /\ process = [p \in Procs |-> IF p \in foreign THEN "serving" ELSE "dead"]
        /\ loaded = FALSE
        /\ phase = "up"

-----------------------------------------------------------------------------
Move(c, to) == stage' = [stage EXCEPT ![c] = to]

(* `async with self._load_lock`: FIFO; the first step inside is the health
   probe of load().                                                         *)
EnterLock_NoLock(c) == Move(c, "checking") /\ UNCHANGED lock_queue

EnterLock(c) ==
    IF LockHeld
    THEN Move(c, "queued") /\ lock_queue' = Append(lock_queue, c)
    ELSE Move(c, "checking") /\ UNCHANGED lock_queue

LeaveLock(c, to) ==
    IF lock_queue = <<>>
    THEN Move(c, to) /\ UNCHANGED lock_queue
    ELSE /\ stage' = [stage EXCEPT ![c] = to, ![Head(lock_queue)] = "checking"]
         /\ lock_queue' = Tail(lock_queue)

(* load() raises: 503, through ensure_loaded() or through synthesize(). *)
LoadRaises(c) ==
    /\ LeaveLock(c, "idle")
    /\ healing' = healing \ {c}
    /\ UNCHANGED <<target, loaded>>

(* load() returns: to the first POST, or to the retry of the failed one. *)
LoadReturns(c) ==
    /\ LeaveLock(c, IF c \in healing THEN "reconnecting" ELSE "connecting")
    /\ healing' = healing \ {c}
    /\ loaded' = TRUE
    /\ UNCHANGED target

(* The registry's lock lets one request at a time into the first load(), and no
   request past it before that succeeded.                                      *)
EnsureLoaded(c) ==
    /\ ~ loaded
    /\ \A d \in Callers : stage[d] = "idle"
    /\ EnterLock(c)

Synthesize(c) ==
    /\ loaded
    /\ Move(c, "connecting")
    /\ UNCHANGED lock_queue

(* A request reaches the provider. *)
Begin(c) ==
    /\ phase = "up"
    /\ stage[c] = "idle"
    /\ EnsureLoaded(c) \/ Synthesize(c)
    /\ UNCHANGED <<healing, target, proc, process, foreign, dropped, misread, loaded, phase>>

-----------------------------------------------------------------------------
(* A probe of /health finds nobody, or a serving sidecar answers too late for
   the probe's two seconds (five while load() waits).                         *)
FoundDown == misread' = (misread \/ Serving # {})

(* load() *)

ProbeHealthy(c) ==
    /\ stage[c] = "checking"
    /\ Serving # {}
    /\ LoadReturns(c)
    /\ UNCHANGED <<proc, process, foreign, dropped, misread, phase>>

HandleUsable == proc # NoProc /\ process[proc] # "dead"

(* A slot for a new process: nothing refers to it any more. *)
Fresh(p) == /\ process[p] = "dead"
            /\ p # proc
            /\ \A c \in Callers : target[c] # p

(* The sidecar is spawned, or the one already spawned is waited for. *)
ProbeDown(c) ==
    /\ stage[c] = "checking"
    /\ FoundDown
    /\ Move(c, "starting")
    /\ \/ /\ HandleUsable
          /\ UNCHANGED <<proc, process>>
       \/ /\ ~ HandleUsable
          /\ \E p \in Procs : /\ Fresh(p)
                              /\ proc' = p
                              /\ process' = [process EXCEPT ![p] = "preloading"]
    /\ UNCHANGED <<healing, target, lock_queue, foreign, dropped, loaded, phase>>

(* Popen raises OSError. *)
SpawnFails(c) ==
    /\ stage[c] = "checking"
    /\ FoundDown
    /\ ~ HandleUsable
    /\ LoadRaises(c)
    /\ proc' = NoProc
    /\ UNCHANGED <<process, foreign, dropped, phase>>

(* _wait_until_ready(): each round polls the handle, then the port. *)
StartupDies(c) ==
    /\ stage[c] = "starting"
    /\ proc # NoProc
    /\ process[proc] = "dead"
    /\ LoadRaises(c)
    /\ proc' = NoProc
    /\ UNCHANGED <<process, foreign, dropped, misread, phase>>

StartupReady(c) ==
    /\ stage[c] = "starting"
    /\ Serving # {}
    /\ LoadReturns(c)
    /\ UNCHANGED <<proc, process, foreign, dropped, misread, phase>>

(* _terminate_proc(), up to the wait for the process *)
Terminate_NoSignal == proc' = NoProc /\ UNCHANGED process

Terminate ==
    /\ proc' = NoProc
    /\ process' = IF HandleUsable
                  THEN [process EXCEPT ![proc] = "terminated"]
                  ELSE process

StartupTimesOut_LeavesProcess(c) ==
    /\ stage[c] = "starting"
    /\ FoundDown
    /\ LoadRaises(c)
    /\ proc' = NoProc
    /\ UNCHANGED <<process, foreign, dropped, phase>>

StartupTimesOut(c) ==
    /\ stage[c] = "starting"
    /\ FoundDown
    /\ Terminate
    /\ \/ /\ HandleUsable
          /\ Move(c, "killing")
          /\ target' = [target EXCEPT ![c] = proc]
          /\ UNCHANGED <<healing, lock_queue, loaded>>
       \/ /\ ~ HandleUsable
          /\ LoadRaises(c)
    /\ UNCHANGED <<foreign, dropped, phase>>

(* proc.wait() returns, after SIGTERM or SIGKILL. *)
KillDone(c) ==
    /\ stage[c] = "killing"
    /\ process[target[c]] = "dead"
    /\ LeaveLock(c, "idle")
    /\ healing' = healing \ {c}
    /\ target' = [target EXCEPT ![c] = NoProc]
    /\ UNCHANGED <<proc, process, foreign, dropped, misread, loaded, phase>>

-----------------------------------------------------------------------------
(* _post_with_self_healing() *)

Connect(c) ==
    /\ stage[c] \in {"connecting", "reconnecting"}
    /\ \/ \E p \in Serving :
             /\ target' = [target EXCEPT ![c] = p]
             /\ Move(c, IF stage[c] = "connecting" THEN "posting" ELSE "reposting")
       \/ /\ Serving = {}
          /\ Move(c, IF stage[c] = "connecting" THEN "probing" ELSE "idle")
          /\ UNCHANGED target
    /\ UNCHANGED <<healing, lock_queue, proc, process, foreign, dropped, misread, loaded, phase>>

(* Any HTTP answer, or httpx's own read timeout *)
PostEnds(c) ==
    /\ stage[c] \in {"posting", "reposting"}
    /\ process[target[c]] # "dead"
    /\ Move(c, "idle")
    /\ target' = [target EXCEPT ![c] = NoProc]
    /\ UNCHANGED <<healing, lock_queue, proc, process, foreign, dropped, misread, loaded, phase>>

(* The process died under the POST: a reset is a ReadError, which is healed, an
   orderly close is a RemoteProtocolError, which is not.                       *)
PostBreaks(c) ==
    /\ stage[c] \in {"posting", "reposting"}
    /\ process[target[c]] = "dead"
    /\ \/ Move(c, "idle")
       \/ stage[c] = "posting" /\ Move(c, "probing")
    /\ target' = [target EXCEPT ![c] = NoProc]
    /\ UNCHANGED <<healing, lock_queue, proc, process, foreign, dropped, misread, loaded, phase>>

HealNotNeeded(c) ==
    /\ stage[c] = "probing"
    /\ Serving # {}
    /\ Move(c, "idle")
    /\ UNCHANGED <<healing, target, lock_queue, proc, process, foreign, dropped, misread, loaded, phase>>

(* "Reap the dead subprocess handle so load() spawns a new one." *)
Heal(c) ==
    /\ stage[c] = "probing"
    /\ FoundDown
    /\ proc' = NoProc
    /\ dropped' = dropped \cup ({proc} \cap Running)
    /\ healing' = healing \cup {c}
    /\ EnterLock(c)
    /\ UNCHANGED <<target, process, foreign, loaded, phase>>

(* speech.py's wait_for, around ensure_loaded() or around synthesize() *)
CutShort(c) ==
    /\ stage[c] # "idle"
    /\ \/ /\ stage[c] \in Inside
          /\ LeaveLock(c, "idle")
       \/ /\ stage[c] = "queued"
          /\ Move(c, "idle")
          /\ \E i \in DOMAIN lock_queue : /\ lock_queue[i] = c
                                        /\ lock_queue' = RemoveAt(lock_queue, i)
       \/ /\ stage[c] \notin Inside \cup {"queued"}
          /\ Move(c, "idle")
          /\ UNCHANGED lock_queue
    /\ healing' = healing \ {c}
    /\ target' = [target EXCEPT ![c] = NoProc]
    /\ UNCHANGED <<proc, process, foreign, dropped, misread, loaded, phase>>

-----------------------------------------------------------------------------
(* registry.shutdown() -> terminate(), with no request left; the wait for the
   process is not followed further.                                          *)
Shutdown_Forgets ==
    /\ phase = "up"
    /\ \A c \in Callers : stage[c] = "idle"
    /\ phase' = "down"
    /\ proc' = NoProc
    /\ UNCHANGED <<calls, process, foreign, dropped, misread, loaded>>

Shutdown ==
    /\ phase = "up"
    /\ \A c \in Callers : stage[c] = "idle"
    /\ phase' = "down"
    /\ Terminate
    /\ UNCHANGED <<calls, foreign, dropped, misread, loaded>>

(* The worker binds its port only after the preload; a second one that finds
   the port taken exits.                                                     *)
PreloadEnds(p) ==
    /\ process[p] = "preloading"
    /\ process' = [process EXCEPT ![p] = IF Serving = {} THEN "serving" ELSE "dead"]
    /\ dropped' = IF Serving = {} THEN dropped ELSE dropped \ {p}
    /\ UNCHANGED <<calls, proc, foreign, misread, loaded, phase>>

(* killed out-of-band, out of memory, or at the end of a terminate() *)
Dies(p) ==
    /\ process[p] # "dead"
    /\ process' = [process EXCEPT ![p] = "dead"]
    /\ foreign' = foreign \ {p}
    /\ dropped' = dropped \ {p}
    /\ UNCHANGED <<calls, proc, misread, loaded, phase>>

Call(c) == \/ ProbeHealthy(c) \/ ProbeDown(c) \/ SpawnFails(c)
           \/ StartupDies(c) \/ StartupReady(c) \/ StartupTimesOut(c) \/ KillDone(c)
           \/ Connect(c) \/ PostEnds(c) \/ PostBreaks(c)
           \/ HealNotNeeded(c) \/ Heal(c)

Next == \/ \E c \in Callers : Begin(c) \/ Call(c) \/ CutShort(c)
        \/ \E p \in Procs : PreloadEnds(p) \/ Dies(p)
        \/ Shutdown

Spec == Init /\ [][Next]_vars

(* Each await of a call ends: the HTTP calls and the startup wait carry their
   own timeouts, a terminated process dies (SIGKILL after 10 s).              *)
Fairness == /\ \A c \in Callers : WF_vars(Call(c))
            /\ \A p \in Procs : WF_vars(process[p] = "terminated" /\ Dies(p))

FairSpec == Spec /\ Fairness
-----------------------------------------------------------------------------
TypeOK ==
    /\ stage \in [Callers -> Stages]
    /\ lock_queue \in Seq(Callers)
    /\ IsInjective(lock_queue)
    /\ Range(lock_queue) = {c \in Callers : stage[c] = "queued"}
    /\ healing \subseteq {c \in Callers : stage[c] \in Inside \cup {"queued"}}
    /\ target \in [Callers -> Procs \cup {NoProc}]
    /\ \A c \in Callers : target[c] # NoProc
                            <=> stage[c] \in {"posting", "reposting", "killing"}
    /\ proc \in Procs \cup {NoProc}
    /\ process \in [Procs -> ProcessStates]
    /\ foreign \subseteq Running
    /\ dropped \subseteq Running \ foreign
    /\ loaded \in BOOLEAN /\ misread \in BOOLEAN

(* One caller at a time is inside load(), and a queue has somebody ahead of it,
   wherever the holder was cut short.                                          *)
LockExclusive ==
    /\ \A c, d \in Callers : stage[c] \in Inside /\ stage[d] \in Inside => c = d
    /\ lock_queue # <<>> => LockHeld

(* "Manages the subprocess lifetime" (qwen.py:8): every sidecar this provider
   spawned is terminated or the one whose handle it holds, so that shutdown
   reaches it, whatever loads failed, hung or were cut short; the one way out is
   the handle that healing throws away (DroppedHandleIsDead).  After shutdown no
   handle is left, so none of them survives the server.                        *)
NoOrphan == Running \ foreign \subseteq {proc} \cup dropped

(* Two sidecars never load their models side by side, unless healing threw the
   first one's handle away; and a sidecar that serves, of this server or of an
   earlier one, is used and not doubled, unless a probe took it for dead.      *)
SpawnsAlone ==
    [][\A p \in Procs :
          process[p] = "dead" /\ process'[p] = "preloading"
             => Running \subseteq dropped \cup (IF misread' THEN Serving ELSE {})]_vars

(* A call is answered, with audio or with an error, although sidecars may die,
   hang while loading, or be replaced meanwhile.                               *)
EveryCallAnswered == \A c \in Callers : stage[c] # "idle" ~> stage[c] = "idle"

(* qwen.py:469 "Reap the dead subprocess handle": a handle that is dropped without
   terminate() belongs to a dead process, at least while no probe has misread one. *)
DroppedHandleIsDead ==
    [][proc # NoProc /\ proc' = NoProc /\ ~ misread'
          => process[proc] = "dead" \/ process'[proc] = "terminated"]_vars
=============================================================================
