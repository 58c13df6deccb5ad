------------------------------ MODULE RefStore ------------------------------
(***************************************************************************)
(* core/refs.py: uploaded reference clips.  A clip is stored once, under   *)
(* its content hash and an extension; a background task sweeps what is     *)
(* older than the TTL.  store() and sweep_once() do not suspend, so in the *)
(* event loop each is atomic; a crash of the process is not so polite, and *)
(* store() is cut into its system calls here.  Files outlive the process.  *)
(*                                                                         *)
(* Uploads that are refused (empty, too large, not audio) change nothing   *)
(* and are left out; so does one whose target is there already, which is   *)
(* answered with its id and leaves the file and its age alone.  The        *)
(* read-only catalog is never written.                                     *)
(***************************************************************************)
EXTENDS Integers, Functions

CONSTANTS
    Targets,     \* what clients upload: [content, ext]
    Nothing,     \* no upload in progress, never stored
    Ttl,         \* upload_ttl_seconds
    Interval,    \* of the sweep
    MaxTime      \* bound of the model's clock

ASSUME RefAssumption == /\ Ttl \in Nat
                        /\ Interval \in Nat \ {0}

VARIABLES
    up,           \* the server process runs
    files,        \* upload_dir: [name -> [mtime, whole]]
    writing,      \* the target store() is writing, or Nothing
    next_sweep,   \* when the sweep task wakes up
    now,          \* clock
    started,      \* when the process started
    stored,       \* history: when each target was last put in place
    stuck         \* history: names the last sweep could not unlink

vars == <<up, files, writing, next_sweep, now, started, stored, stuck>>

Final(t) == <<t, "final">>
Tmp(t) == <<t, "tmp">>
Names == {Final(t) : t \in Targets} \cup {Tmp(t) : t \in Targets}

Init == /\ up = TRUE
        /\ files = <<>>
        /\ writing = Nothing
        /\ next_sweep = Interval
        /\ now = 0
        /\ started = 0
        /\ stored = [t \in Targets |-> Nothing]
        /\ stuck = {}

Idle == up /\ writing = Nothing
Drop(f, names) == Restrict(f, DOMAIN f \ names)
With(f, name, file) == [n \in DOMAIN f \cup {name} |-> IF n = name THEN file ELSE f[n]]
Put(name, whole) == With(files, name, [mtime |-> now, whole |-> whole])

(* resolve() of an upload's id: the files that iterdir() may show it first.  The
   id is a prefix of the content's hash, and .tmp is no audio suffix.           *)
Resolve(content) ==
    {n \in DOMAIN files : n[1].content = content /\ n[2] = "final"}

-----------------------------------------------------------------------------
(* store() *)

StoreOpens(t) ==
    /\ Idle
    /\ Final(t) \notin DOMAIN files
    /\ writing' = t
    /\ files' = Put(Tmp(t), FALSE)
    /\ UNCHANGED <<up, next_sweep, now, started, stored, stuck>>

StoreWrites ==
    /\ writing # Nothing
    /\ ~ files[Tmp(writing)].whole
    /\ files' = Put(Tmp(writing), TRUE)
    /\ UNCHANGED <<up, writing, next_sweep, now, started, stored, stuck>>

StoreReplaces_BeforeWrite ==
    /\ writing # Nothing
    /\ files' = With(Drop(files, {Tmp(writing)}), Final(writing), files[Tmp(writing)])
    /\ writing' = Nothing
    /\ stored' = [stored EXCEPT ![writing] = now]
    /\ UNCHANGED <<up, next_sweep, now, started, stuck>>

StoreReplaces ==
    /\ writing # Nothing
    /\ files[Tmp(writing)].whole
    /\ files' = With(Drop(files, {Tmp(writing)}), Final(writing), files[Tmp(writing)])
    /\ writing' = Nothing
    /\ stored' = [stored EXCEPT ![writing] = now]
    /\ UNCHANGED <<up, next_sweep, now, started, stuck>>

(* The disk is full: 500, and the temporary file stays. *)
StoreRaises ==
    /\ writing # Nothing
    /\ ~ files[Tmp(writing)].whole
    /\ writing' = Nothing
    /\ UNCHANGED <<up, files, next_sweep, now, started, stored, stuck>>

-----------------------------------------------------------------------------
Expired_Early == {n \in DOMAIN files : files[n].mtime <= now - Ttl}
Expired == {n \in DOMAIN files : files[n].mtime < now - Ttl}

(* _sweep_loop(): one round of sweep_once(), temporary files included.  An unlink
   may raise OSError, for a file in use; the other files are unlinked all the
   same, and this one is met again by the next round.                          *)
Sweep_FinalOnly ==
    /\ Idle
    /\ next_sweep <= now
    /\ files' = Drop(files, Expired \ {Tmp(t) : t \in Targets})
    /\ stuck' = {}
    /\ next_sweep' = now + Interval
    /\ UNCHANGED <<up, writing, now, started, stored>>

Sweep ==
    /\ Idle
    /\ next_sweep <= now
    /\ \E failed \in SUBSET Expired :
          /\ files' = Drop(files, Expired \ failed)
          /\ stuck' = failed
    /\ next_sweep' = now + Interval
    /\ UNCHANGED <<up, writing, now, started, stored>>

(* killed, or stopped by the lifespan *)
Stops ==
    /\ up
    /\ up' = FALSE
    /\ writing' = Nothing
    /\ UNCHANGED <<files, next_sweep, now, started, stored, stuck>>

Starts ==
    /\ ~ up
    /\ up' = TRUE
    /\ started' = now
    /\ next_sweep' = now + Interval
    /\ UNCHANGED <<files, writing, now, stored, stuck>>

(* The timer of a running server fires on time. *)
Tick ==
    /\ now < MaxTime
    /\ writing = Nothing
    /\ up => next_sweep > now
    /\ now' = now + 1
    /\ UNCHANGED <<up, files, writing, next_sweep, started, stored, stuck>>

Next == \/ \E t \in Targets : StoreOpens(t)
        \/ StoreWrites \/ StoreReplaces \/ StoreRaises
        \/ Sweep
        \/ Stops \/ Starts
        \/ Tick

Spec == Init /\ [][Next]_vars
-----------------------------------------------------------------------------
(* refs.py:191 "atomic write": the file that an id resolves to is never cut off,
   wherever a crash or a full disk stopped an upload of the same content.       *)
NoTornUpload ==
    \A t \in Targets : \A n \in Resolve(t.content) : files[n].whole

(* What was put in place resolves for the whole TTL, restarts included. *)
KeptSinceStored ==
    \A t \in Targets : stored[t] # Nothing /\ now - stored[t] <= Ttl
                          => Final(t) \in Resolve(t.content)

(* Nothing outlives TTL plus one sweep interval in a server that runs that long,
   not even what an interrupted upload left behind, unless the last sweep met it
   and could not unlink it: a file that resists does not protect the others.    *)
SweptInTime ==
    up /\ now - started > Interval =>
        \A n \in DOMAIN files \ stuck : now - files[n].mtime <= Ttl + Interval
=============================================================================
