-------------------------- MODULE ProviderRegistry --------------------------
(***************************************************************************)
(* core/registry.py from startup to shutdown, and api/health.py's /readyz  *)
(* on top; Lifespan drives it as app.py does.  Loads happen lazily, on the *)
(* first request for a provider; how callers race for one load is in       *)
(* ProviderLoad, of which only the outcome shows here.                     *)
(***************************************************************************)
EXTENDS Naturals, Sequences, SequencesExt

CONSTANTS
    Configured,   \* settings.providers.enabled, a list
    Required,     \* settings.providers.required
    Builtin,      \* keys of BUILTIN_PROVIDERS
    Terminable    \* providers that have a terminate()

VARIABLES
    phase,        \* of the lifespan
    position,     \* startup: index of the next configured id
    entries,      \* ProviderRegistry._entries, in registration order
    loaded,       \* ids whose entry.loaded is set
    load_error,   \* ids whose entry.load_error is a message, not None or ""
    to_stop,      \* shutdown: entries not yet visited
    terminated    \* ids whose terminate() was called

registry_vars == <<phase, position, entries, loaded, load_error, to_stop, terminated>>

Ids == Range(Configured)

ASSUME ConfiguredAssumption == Configured \in Seq(Ids)

Phases == {"starting", "crashed", "serving", "stopping", "stopped"}

RegistryInit == /\ phase = "starting"
                /\ position = 1
                /\ entries = <<>>
                /\ loaded = {}
                /\ load_error = {}
                /\ to_stop = <<>>
                /\ terminated = {}

-----------------------------------------------------------------------------
(* startup() *)

Current == Configured[position]

Starting == phase = "starting" /\ position <= Len(Configured)

Skip == position' = position + 1 /\ UNCHANGED <<phase, entries>>
Crash == phase' = "crashed" /\ UNCHANGED <<position, entries>>

SkipUnknown ==
    /\ Starting
    /\ Current \notin Builtin
    /\ Skip
    /\ UNCHANGED <<loaded, load_error, to_stop, terminated>>

FactoryFails_AlwaysSkips ==
    /\ Starting
    /\ Current \in Builtin
    /\ Skip
    /\ UNCHANGED <<loaded, load_error, to_stop, terminated>>

FactoryFails ==
    /\ Starting
    /\ Current \in Builtin
    /\ IF Current \in Required THEN Crash ELSE Skip
    /\ UNCHANGED <<loaded, load_error, to_stop, terminated>>

(* describe(), or reading the concurrency option, raises outside the try. *)
DescribeFails ==
    /\ Starting
    /\ Current \in Builtin
    /\ Crash
    /\ UNCHANGED <<loaded, load_error, to_stop, terminated>>

(* A repeated id replaces its entry and keeps its place in the dict. *)
Register ==
    /\ Starting
    /\ Current \in Builtin
    /\ entries' = IF Current \in Range(entries) THEN entries
                  ELSE Append(entries, Current)
    /\ position' = position + 1
    /\ UNCHANGED <<phase, loaded, load_error, to_stop, terminated>>

StartServing ==
    /\ phase = "starting"
    /\ position > Len(Configured)
    /\ phase' = "serving"
    /\ UNCHANGED <<position, entries, loaded, load_error, to_stop, terminated>>

-----------------------------------------------------------------------------
(* ensure_loaded(): its effect on the entry *)

LoadSucceeds(p) ==
    /\ phase = "serving"
    /\ p \in Range(entries) \ loaded
    /\ loaded' = loaded \cup {p}
    /\ UNCHANGED <<phase, position, entries, load_error, to_stop, terminated>>

(* load_error = str(exc), which is empty, thus "no error", for some exceptions. *)
LoadFails(p) ==
    /\ phase = "serving"
    /\ p \in Range(entries) \ loaded
    /\ load_error' \in {load_error \cup {p}, load_error \ {p}}
    /\ UNCHANGED <<phase, position, entries, loaded, to_stop, terminated>>

-----------------------------------------------------------------------------
(* shutdown(): uvicorn has drained the requests before it runs. *)

BeginShutdown ==
    /\ phase = "serving"
    /\ phase' = "stopping"
    /\ to_stop' = entries
    /\ UNCHANGED <<position, entries, loaded, load_error, terminated>>

StopNext ==
    /\ phase = "stopping"
    /\ to_stop # <<>>
    /\ to_stop' = Tail(to_stop)
    /\ terminated' = terminated \cup ({Head(to_stop)} \cap Terminable)
    /\ UNCHANGED <<phase, position, entries, loaded, load_error>>

(* terminate() raises: logged, and the next entry is visited. *)
StopFails_Aborts ==
    /\ phase = "stopping"
    /\ to_stop # <<>>
    /\ Head(to_stop) \in Terminable
    /\ terminated' = terminated \cup {Head(to_stop)}
    /\ to_stop' = <<>>
    /\ UNCHANGED <<phase, position, entries, loaded, load_error>>

StopFails_Escapes ==
    /\ phase = "stopping"
    /\ to_stop # <<>>
    /\ Head(to_stop) \in Terminable
    /\ terminated' = terminated \cup {Head(to_stop)}
    /\ phase' = "crashed"
    /\ UNCHANGED <<position, entries, loaded, load_error, to_stop>>

StopFails ==
    /\ phase = "stopping"
    /\ to_stop # <<>>
    /\ Head(to_stop) \in Terminable
    /\ terminated' = terminated \cup {Head(to_stop)}
    /\ to_stop' = Tail(to_stop)
    /\ UNCHANGED <<phase, position, entries, loaded, load_error>>

EndShutdown ==
    /\ phase = "stopping"
    /\ to_stop = <<>>
    /\ phase' = "stopped"
    /\ entries' = <<>>
    /\ UNCHANGED <<position, loaded, load_error, to_stop, terminated>>

RegistryNext == \/ SkipUnknown
                \/ FactoryFails
                \/ DescribeFails
                \/ Register
                \/ StartServing
                \/ \E p \in Ids : LoadSucceeds(p) \/ LoadFails(p)
                \/ BeginShutdown
                \/ StopNext
                \/ StopFails
                \/ EndShutdown

RegistrySpec == RegistryInit /\ [][RegistryNext]_registry_vars
-----------------------------------------------------------------------------
(* /readyz: every registered required entry is loaded and error-free.  Nothing
   is claimed of it: load() leaves an error it has overcome, and a provider
   that fails once it is loaded does not show.                                *)
Ready == \A p \in Range(entries) \cap Required : p \in loaded /\ p \notin load_error

(* No provider is registered twice, and shutdown visits the entries in order. *)
RegistryTypeOK ==
    /\ phase \in Phases
    /\ position \in 1 .. Len(Configured) + 1
    /\ entries \in Seq(Ids \cap Builtin)
    /\ IsInjective(entries)
    /\ loaded \subseteq Ids
    /\ load_error \subseteq Ids
    /\ \E n \in 0 .. Len(entries) : to_stop = SubSeq(entries, n + 1, Len(entries))
    /\ terminated \subseteq Ids /\ terminated \subseteq Terminable

(* The server never comes up without a required provider it knows: its failure
   to instantiate stops the process instead.                                   *)
RequiredAreRegistered ==
    phase = "serving" => Required \cap Builtin \cap Ids \subseteq Range(entries)

(* registry.py:148 "shutdown must always complete": every registered provider
   that can be terminated has been asked to by the time the entries are gone,
   although an earlier one's terminate() may have raised.                       *)
ShutdownReachesAll ==
    [][phase = "stopping" /\ phase' = "stopped"
          => Range(entries) \cap Terminable \subseteq terminated]_registry_vars
=============================================================================
