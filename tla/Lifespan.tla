------------------------------ MODULE Lifespan ------------------------------
(***************************************************************************)
(* The lifespan of app.py around the provider registry: it starts the      *)
(* registry, then a background task that probes every voice of every       *)
(* provider (core/probing.py), and at the end cancels that task, waits for *)
(* it, and shuts the registry down.  The probes of one provider run        *)
(* concurrently (asyncio.gather), providers are taken one after the other. *)
(*                                                                         *)
(* uvicorn drains the requests before the shutdown part begins.  The sweep *)
(* task of the reference store is in RefStore.                             *)
(***************************************************************************)
EXTENDS ProviderRegistry

CONSTANTS
    Voices,    \* provider id -> the voices its describe() advertises
    Retired    \* those that the provider's remote service has dropped

ASSUME VoicesAssumption == Builtin \subseteq DOMAIN Voices

VARIABLES
    probe_task,    \* the asyncio.Task of _background_probe()
    probe_at,      \* index of the entry it is at
    results,       \* outcomes of the gather under way: voice -> answered
    voice_status   \* provider id -> ProviderEntry.voice_status, once it is set

probe_vars == <<probe_task, probe_at, results, voice_status>>
app_vars == <<registry_vars, probe_vars>>

AppInit == /\ RegistryInit
           /\ probe_task = "none"
           /\ probe_at = 1
           /\ results = <<>>
           /\ voice_status = <<>>

-----------------------------------------------------------------------------
StartUp == /\ SkipUnknown \/ FactoryFails \/ DescribeFails \/ Register
           /\ UNCHANGED probe_vars

(* create_task(_background_probe), and the server accepts requests *)
Open == /\ StartServing
        /\ probe_task' = "running"
        /\ UNCHANGED <<probe_at, results, voice_status>>

Load == /\ probe_task # "cancelled"
        /\ \E p \in Ids : LoadSucceeds(p) \/ LoadFails(p)
        /\ UNCHANGED probe_vars

(* _background_probe() *)

Plus(f, x, y) == [z \in DOMAIN f \cup {x} |-> IF z = x THEN y ELSE f[z]]

Probing == probe_task = "running" /\ probe_at <= Len(entries)

Unprobed == Voices[entries[probe_at]] \ DOMAIN results

(* probe_voice() answers: it may deny a voice that is alive (its network failed),
   but not confirm one that is gone.                                            *)
VoiceAnswers ==
    /\ Probing
    /\ \E v \in Unprobed, ok \in BOOLEAN : /\ ok => v \notin Retired
                                          /\ results' = Plus(results, v, ok)
    /\ UNCHANGED <<registry_vars, probe_task, probe_at, voice_status>>

(* It raises, or wait_for ends it: _probe() returns FALSE in its stead.  Were it
   to let the exception through, so would the gather, and the task would go on
   with the next provider.                                                      *)
VoiceFails_Escapes ==
    /\ Probing
    /\ Unprobed # {}
    /\ probe_at' = probe_at + 1
    /\ results' = <<>>
    /\ UNCHANGED <<registry_vars, probe_task, voice_status>>

VoiceFails ==
    /\ Probing
    /\ \E v \in Unprobed : results' = Plus(results, v, FALSE)
    /\ UNCHANGED <<registry_vars, probe_task, probe_at, voice_status>>

(* The gather is complete and the task resumes; without voices it is never
   entered and no status is set.                                          *)
EntryProbed_Early ==
    /\ Probing
    /\ voice_status' = IF results = <<>> THEN voice_status
                       ELSE Plus(voice_status, entries[probe_at], results)
    /\ probe_at' = probe_at + 1
    /\ results' = <<>>
    /\ UNCHANGED <<registry_vars, probe_task>>

EntryProbed ==
    /\ Probing
    /\ DOMAIN results = Voices[entries[probe_at]]
    /\ voice_status' = IF results = <<>> THEN voice_status
                       ELSE Plus(voice_status, entries[probe_at], results)
    /\ probe_at' = probe_at + 1
    /\ results' = <<>>
    /\ UNCHANGED <<registry_vars, probe_task>>

ProbeTaskEnds ==
    /\ probe_task = "running"
    /\ probe_at > Len(entries)
    /\ probe_task' = "ended"
    /\ UNCHANGED <<registry_vars, probe_at, results, voice_status>>

(* The `finally` of the lifespan: probe_task.cancel(), which cancels the gather
   and with it every probe, also when the last one has just answered.          *)
CancelProbe ==
    /\ phase = "serving"
    /\ probe_task = "running"
    /\ probe_task' = "cancelled"
    /\ UNCHANGED <<registry_vars, probe_at, results, voice_status>>

(* `await probe_task`, and registry.shutdown() begins *)
Close_NoAwait ==
    /\ BeginShutdown
    /\ UNCHANGED probe_vars

Close ==
    /\ probe_task \in {"cancelled", "ended"}
    /\ BeginShutdown
    /\ probe_task' = "ended"
    /\ results' = <<>>
    /\ UNCHANGED <<probe_at, voice_status>>

ShutDown == (StopNext \/ StopFails \/ EndShutdown) /\ UNCHANGED probe_vars

AppNext == \/ StartUp \/ Open \/ Load
           \/ VoiceAnswers \/ VoiceFails \/ EntryProbed \/ ProbeTaskEnds
           \/ CancelProbe \/ Close \/ ShutDown

(* Startup and shutdown are loops of the lifespan task; describe() and
   terminate() return or raise, each probe ends by its timeout, a cancelled
   task ends.  A server may serve for ever.                                *)
Probes == VoiceAnswers \/ VoiceFails \/ EntryProbed \/ ProbeTaskEnds

AppSpec == /\ AppInit /\ [][AppNext]_app_vars
           /\ WF_app_vars(StartUp \/ Open)
           /\ WF_app_vars(Probes)
           /\ WF_app_vars(probe_task = "cancelled" /\ Close)
           /\ WF_app_vars(ShutDown)
-----------------------------------------------------------------------------
VoiceAvailable(p, v) == p \in DOMAIN voice_status => voice_status[p][v]

(* GET /v1/voices without a filter *)
Listed == UNION {{<<p, v>> : v \in {v \in Voices[p] : VoiceAvailable(p, v)}} :
                     p \in Range(entries)}

(* A voice status appears as a whole or not at all, whenever the shutdown cuts
   the probes short: /v1/voices never mixes probed and unprobed voices.        *)
TypeOK ==
    /\ RegistryTypeOK
    /\ probe_task \in {"none", "running", "cancelled", "ended"}
    /\ probe_at \in 1 .. Len(Configured) + 1
    /\ DOMAIN voice_status \subseteq Ids
    /\ \A p \in DOMAIN voice_status : voice_status[p] \in [Voices[p] -> BOOLEAN]

(* A provider is probed only before anything is torn down: the probe task walks
   the live dictionary of entries, and calls providers that terminate() has not
   reached.                                                                    *)
ProbeEndsFirst ==
    probe_task \in {"running", "cancelled"} =>
        /\ phase = "serving"
        /\ to_stop = <<>>
        /\ terminated = {}

(* README.md:40 "voices are probed at startup; retired or unreachable voices are
   flagged unavailable": unless it is shut down before, a server ends up listing
   no voice that is gone; one whose probe hangs or raises does not keep the rest,
   or the other providers, from being probed.                                   *)
VoicesProbed ==
    phase = "serving" ~> \/ phase # "serving"
                         \/ probe_task = "cancelled"
                         \/ /\ \A entry \in Listed : entry[2] \notin Retired
                            /\ \A p \in Range(entries) :
                                  Voices[p] # {} => p \in DOMAIN voice_status

(* registry.py:148 "shutdown must always complete", from the cancellation of the
   probe task on: whatever that task was doing then, and although a terminate()
   raises.                                                                      *)
ShutdownCompletes == probe_task = "cancelled" \/ phase = "stopping" ~> phase = "stopped"
=============================================================================
