--------------------------- MODULE Lifespan_proofs ---------------------------
(***************************************************************************)
(* Proofs about what the lifespan of app.py starts and ends: the provider  *)
(* registry with the probe task (Lifespan), for any configuration, and the *)
(* reference store with its sweep task (RefStore), for any uploads, TTL    *)
(* and interval.  Init, Next, Spec and vars are the store's.               *)
(***************************************************************************)
EXTENDS Lifespan, RefStore, SequenceLemmas, SequenceTheorems, TLAPS

RegistryTyped ==
    /\ phase \in Phases
    /\ position \in 1 .. Len(Configured) + 1
    /\ entries \in Seq(Ids \cap Builtin)
    /\ IsInjective(entries)
    /\ Len(entries) < position
    /\ loaded \subseteq Ids
    /\ load_error \subseteq Ids
    /\ terminated \subseteq Ids /\ terminated \subseteq Terminable

(* Startup passes a required provider only by registering it. *)
RequiredSoFar ==
    phase \in {"starting", "serving"} =>
        /\ \A i \in 1 .. position - 1 :
               Configured[i] \in Required \cap Builtin => Configured[i] \in Range(entries)
        /\ phase = "serving" => position > Len(Configured)

(* Shutdown has visited what it need not visit any more. *)
StopsInOrder ==
    /\ \E n \in 0 .. Len(entries) : to_stop = SubSeq(entries, n + 1, Len(entries))
    /\ phase \in {"starting", "crashed", "serving"} => to_stop = <<>> /\ terminated = {}
    /\ phase = "stopping" =>
           \A p \in Range(entries) : p \in Terminable => p \in terminated \cup Range(to_stop)

(* The probe task lives while the server serves, on entries that stay. *)
ProbeInv ==
    /\ probe_task \in {"none", "running", "cancelled", "ended"}
    /\ probe_task \in {"running", "cancelled"} => phase = "serving"
    /\ probe_at \in 1 .. Len(Configured) + 1
    /\ results \in [DOMAIN results -> BOOLEAN]
    /\ DOMAIN voice_status \subseteq Ids
    /\ \A p \in DOMAIN voice_status : voice_status[p] \in [Voices[p] -> BOOLEAN]

AppInv == RegistryTyped /\ RequiredSoFar /\ StopsInOrder /\ ProbeInv

-----------------------------------------------------------------------------
(* The steps that leave the registry alone. *)
LEMMA ProbeSteps == Probes \/ CancelProbe => UNCHANGED registry_vars
BY DEF Probes, VoiceAnswers, VoiceFails, EntryProbed, ProbeTaskEnds, CancelProbe, registry_vars

LEMMA ConfiguredList == /\ Len(Configured) \in Nat
                        /\ \A i \in 1 .. Len(Configured) : Configured[i] \in Ids
BY ConfiguredAssumption

(* What StopNext takes off the entries still to be visited. *)
LEMMA NextToStop ==
    ASSUME RegistryTyped, StopsInOrder, to_stop # <<>>
    PROVE  /\ Head(to_stop) \in Ids
           /\ \E n \in 0 .. Len(entries) : Tail(to_stop) = SubSeq(entries, n + 1, Len(entries))
           /\ Range(to_stop) \subseteq {Head(to_stop)} \cup Range(Tail(to_stop))
<1>1. PICK n \in 0 .. Len(entries) : to_stop = SubSeq(entries, n + 1, Len(entries))
  BY DEF StopsInOrder
<1>2. entries \in Seq(Ids) /\ Len(entries) \in Nat
  BY DEF RegistryTyped
<1>3. to_stop \in Seq(Ids) /\ Len(to_stop) = Len(entries) - n
  BY <1>1, <1>2
<1>4. n < Len(entries)
  BY <1>2, <1>3
<1>5. Tail(to_stop) = SubSeq(entries, n + 1 + 1, Len(entries)) /\ n + 1 \in 0 .. Len(entries)
  BY <1>1, <1>2, <1>4, HeadTailOfSubSeq
<1>6. /\ Head(to_stop) \in Ids
      /\ Tail(to_stop) \in Seq(Ids) /\ Len(Tail(to_stop)) = Len(to_stop) - 1
      /\ \A i \in 1 .. Len(Tail(to_stop)) : Tail(to_stop)[i] = to_stop[i + 1]
  BY <1>3, HeadTailProperties
<1>7. Range(to_stop) \subseteq {Head(to_stop)} \cup Range(Tail(to_stop))
  <2>1. to_stop[1] = Head(to_stop)
    BY <1>3
  <2>2. ASSUME NEW i \in 1 .. Len(to_stop), i # 1
        PROVE  to_stop[i] \in Range(Tail(to_stop))
    <3>1. i - 1 \in 1 .. Len(Tail(to_stop)) /\ i - 1 + 1 = i
      BY <1>3, <1>6, <2>2
    <3>2. Tail(to_stop)[i - 1] = to_stop[i]
      BY <1>6, <3>1
    <3>3. i - 1 \in DOMAIN Tail(to_stop)
      BY <1>6, <3>1
    <3>4. QED
      BY <3>2, <3>3 DEF Range
  <2>3. DOMAIN to_stop = 1 .. Len(to_stop)
    BY <1>3
  <2>4. QED
    BY <2>1, <2>2, <2>3 DEF Range
<1>8. QED
  BY <1>5, <1>6, <1>7

LEMMA RegistryStep == ASSUME RegistryTyped, StopsInOrder, [AppNext]_app_vars
                      PROVE  RegistryTyped'
<1>1. CASE SkipUnknown \/ FactoryFails \/ DescribeFails
  BY <1>1, ConfiguredList DEF RegistryTyped, SkipUnknown, FactoryFails, DescribeFails,
                              Starting, Skip, Crash, Phases
<1>2. CASE Register
  <2>1. Current \in Ids \cap Builtin
    BY <1>2, ConfiguredList DEF RegistryTyped, Register, Starting, Current
  <2>2. CASE Current \in Range(entries)
    BY <1>2, <2>2, ConfiguredList DEF RegistryTyped, Register, Starting
  <2>3. CASE Current \notin Range(entries)
    <3>1. entries' = Append(entries, Current)
      BY <1>2, <2>3 DEF Register
    <3>2. entries' \in Seq(Ids \cap Builtin) /\ IsInjective(entries')
      BY <2>1, <2>3, <3>1, QueueAppend DEF RegistryTyped
    <3>3. Len(entries') = Len(entries) + 1 /\ Len(entries) \in Nat
      BY <3>1 DEF RegistryTyped
    <3>4. QED
      BY <1>2, <3>2, <3>3, ConfiguredList DEF RegistryTyped, Register, Starting
  <2>4. QED
    BY <2>2, <2>3
<1>3. CASE StartServing
  BY <1>3 DEF RegistryTyped, StartServing, Phases
<1>4. ASSUME NEW p \in Ids, LoadSucceeds(p) \/ LoadFails(p)
      PROVE  RegistryTyped'
  BY <1>4 DEF RegistryTyped, LoadSucceeds, LoadFails
<1>5. CASE BeginShutdown
  BY <1>5 DEF RegistryTyped, BeginShutdown, Phases
<1>6. CASE StopNext \/ StopFails
  BY <1>6, NextToStop DEF RegistryTyped, StopNext, StopFails
<1>7. CASE EndShutdown
  BY <1>7, ConfiguredList DEF RegistryTyped, EndShutdown, Phases, IsInjective
<1>8. CASE UNCHANGED registry_vars
  BY <1>8 DEF RegistryTyped, registry_vars
<1>9. QED
  BY <1>1, <1>2, <1>3, <1>4, <1>5, <1>6, <1>7, <1>8, ProbeSteps
     DEF AppNext, Probes, app_vars, StartUp, Open, Load, Close, ShutDown

LEMMA RequiredStep == ASSUME RegistryTyped, RequiredSoFar, [AppNext]_app_vars
                      PROVE  RequiredSoFar'
<1> DEFINE Due(i) == Configured[i] \in Required \cap Builtin
<1>1. CASE SkipUnknown \/ FactoryFails
  <2>1. CASE phase' # "starting"
    BY <1>1, <2>1 DEF SkipUnknown, FactoryFails, Starting, Skip, Crash, RequiredSoFar
  <2>2. CASE phase' = "starting"
    <3>1. /\ phase = "starting" /\ ~ Due(position) /\ position' = position + 1
          /\ entries' = entries
      BY <1>1, <2>2 DEF SkipUnknown, FactoryFails, Starting, Skip, Crash, Current
    <3>2. \A i \in 1 .. position' - 1 : i = position \/ i \in 1 .. position - 1
      BY <3>1, ConfiguredList DEF RegistryTyped
    <3>3. QED
      BY <2>2, <3>1, <3>2 DEF RequiredSoFar
  <2>3. QED
    BY <2>1, <2>2
<1>2. CASE DescribeFails
  BY <1>2 DEF DescribeFails, Crash, RequiredSoFar
<1>3. CASE Register
  <2>1. Range(entries') = Range(entries) \cup {Current}
    <3>1. Current \in Ids \cap Builtin
      BY <1>3, ConfiguredList DEF RegistryTyped, Register, Starting, Current
    <3>2. CASE Current \in Range(entries)
      BY <1>3, <3>2 DEF Register
    <3>3. CASE Current \notin Range(entries)
      BY <1>3, <3>1, <3>3, QueueAppend DEF Register, RegistryTyped
    <3>4. QED
      BY <3>2, <3>3
  <2>2. /\ phase = "starting" /\ phase' = "starting" /\ position' = position + 1
    BY <1>3 DEF Register, Starting
  <2>3. \A i \in 1 .. position' - 1 : i = position \/ i \in 1 .. position - 1
    BY <2>2, ConfiguredList DEF RegistryTyped
  <2>4. QED
    BY <2>1, <2>2, <2>3 DEF RequiredSoFar, Current
<1>4. CASE StartServing
  BY <1>4 DEF StartServing, RequiredSoFar
<1>5. ASSUME NEW p \in Ids, LoadSucceeds(p) \/ LoadFails(p)
      PROVE  RequiredSoFar'
  BY <1>5 DEF LoadSucceeds, LoadFails, RequiredSoFar
<1>6. CASE BeginShutdown \/ StopNext \/ StopFails \/ EndShutdown
  BY <1>6 DEF BeginShutdown, StopNext, StopFails, EndShutdown, RequiredSoFar
<1>7. CASE UNCHANGED registry_vars
  BY <1>7 DEF registry_vars, RequiredSoFar
<1>8. QED
  BY <1>1, <1>2, <1>3, <1>4, <1>5, <1>6, <1>7, ProbeSteps
     DEF AppNext, Probes, app_vars, StartUp, Open, Load, Close, ShutDown

LEMMA StopsStep == ASSUME RegistryTyped, StopsInOrder, [AppNext]_app_vars
                   PROVE  StopsInOrder'
<1>1. /\ Len(entries) \in Nat /\ Len(<<>>) = 0
      /\ SubSeq(entries, 1, Len(entries)) = entries
  BY DEF RegistryTyped
<1>2. CASE SkipUnknown \/ FactoryFails \/ DescribeFails
  BY <1>2 DEF SkipUnknown, FactoryFails, DescribeFails, Starting, Skip, Crash, StopsInOrder
<1>3. CASE Register
  <2>1. /\ phase' = "starting" /\ to_stop' = <<>> /\ terminated' = {}
    BY <1>3 DEF Register, Starting, StopsInOrder
  <2>2. entries' \in Seq(Ids)
    BY <1>3, RegistryStep DEF RegistryTyped
  <2>3. SubSeq(entries', Len(entries') + 1, Len(entries')) = <<>>
    BY <2>2
  <2>4. Len(entries') \in 0 .. Len(entries')
    BY <2>2
  <2>5. QED
    BY <2>1, <2>3, <2>4 DEF StopsInOrder
<1>4. CASE StartServing
  BY <1>4 DEF StartServing, StopsInOrder
<1>5. ASSUME NEW p \in Ids, LoadSucceeds(p) \/ LoadFails(p)
      PROVE  StopsInOrder'
  BY <1>5 DEF LoadSucceeds, LoadFails, StopsInOrder
<1>6. CASE BeginShutdown
  <2>1. /\ phase' = "stopping" /\ entries' = entries
        /\ to_stop' = SubSeq(entries', 0 + 1, Len(entries'))
        /\ Range(to_stop') = Range(entries')
    BY <1>1, <1>6 DEF BeginShutdown
  <2>2. 0 \in 0 .. Len(entries')
    BY <1>1, <2>1
  <2>3. QED
    BY <2>1, <2>2 DEF StopsInOrder
<1>7. CASE StopNext \/ StopFails
  <2>1. /\ to_stop # <<>> /\ to_stop' = Tail(to_stop) /\ entries' = entries
        /\ phase = "stopping" /\ phase' = "stopping"
        /\ \A p \in terminated : p \in terminated'
        /\ Head(to_stop) \in Terminable => Head(to_stop) \in terminated'
    BY <1>7 DEF StopNext, StopFails
  <2>2. QED
    BY <2>1, NextToStop DEF StopsInOrder
<1>8. CASE EndShutdown
  BY <1>8 DEF EndShutdown, StopsInOrder
<1>9. CASE UNCHANGED registry_vars
  BY <1>9 DEF registry_vars, StopsInOrder
<1>10. QED
  BY <1>2, <1>3, <1>4, <1>5, <1>6, <1>7, <1>8, <1>9, ProbeSteps
     DEF AppNext, Probes, app_vars, StartUp, Open, Load, Close, ShutDown

LEMMA ProbeStep == ASSUME RegistryTyped, ProbeInv, [AppNext]_app_vars
                   PROVE  ProbeInv'
<1>1. CASE StartUp
  <2>1. UNCHANGED probe_vars /\ phase = "starting"
    BY <1>1 DEF StartUp, SkipUnknown, FactoryFails, DescribeFails, Register, Starting
  <2>2. QED
    BY <2>1 DEF ProbeInv, probe_vars
<1>2. CASE Open
  BY <1>2 DEF Open, StartServing, ProbeInv
<1>3. CASE Load
  <2>1. UNCHANGED <<phase, probe_vars>>
    BY <1>3 DEF Load, LoadSucceeds, LoadFails
  <2>2. QED
    BY <2>1 DEF ProbeInv, probe_vars
<1>4. CASE VoiceAnswers \/ VoiceFails
  <2>1. PICK v : \E ok \in BOOLEAN : results' = Plus(results, v, ok)
    BY <1>4 DEF VoiceAnswers, VoiceFails
  <2>2. results' \in [DOMAIN results' -> BOOLEAN]
    BY <2>1 DEF ProbeInv, Plus
  <2>3. UNCHANGED <<phase, probe_task, probe_at, voice_status>>
    BY <1>4 DEF VoiceAnswers, VoiceFails, registry_vars
  <2>4. QED
    BY <2>2, <2>3 DEF ProbeInv
<1>5. CASE EntryProbed
  <2> DEFINE p == entries[probe_at]
  <2>1. p \in Ids
    BY <1>5 DEF EntryProbed, Probing, RegistryTyped, ProbeInv
  <2>2. results \in [Voices[p] -> BOOLEAN]
    BY <1>5 DEF EntryProbed, ProbeInv
  <2>3. voice_status' \in {voice_status, Plus(voice_status, p, results)}
    BY <1>5 DEF EntryProbed
  <2> HIDE DEF p
  <2>4. /\ DOMAIN voice_status' \subseteq Ids
        /\ \A q \in DOMAIN voice_status' : voice_status'[q] \in [Voices[q] -> BOOLEAN]
    BY <2>1, <2>2, <2>3 DEF ProbeInv, Plus
  <2>5. results' \in [DOMAIN results' -> BOOLEAN]
    BY <1>5 DEF EntryProbed
  <2>6. probe_at' \in 1 .. Len(Configured) + 1
    BY <1>5, ConfiguredList DEF EntryProbed, Probing, RegistryTyped, ProbeInv
  <2>7. phase' = phase /\ probe_task' = probe_task
    BY <1>5 DEF EntryProbed, registry_vars
  <2>8. QED
    BY <2>4, <2>5, <2>6, <2>7 DEF ProbeInv
<1>6. CASE ProbeTaskEnds \/ CancelProbe
  BY <1>6 DEF ProbeTaskEnds, CancelProbe, ProbeInv, registry_vars
<1>7. CASE Close
  BY <1>7 DEF Close, BeginShutdown, ProbeInv
<1>8. CASE ShutDown
  <2>1. UNCHANGED probe_vars /\ phase = "stopping"
    BY <1>8 DEF ShutDown, StopNext, StopFails, EndShutdown
  <2>2. QED
    BY <2>1 DEF ProbeInv, probe_vars
<1>9. CASE UNCHANGED app_vars
  BY <1>9 DEF app_vars, registry_vars, probe_vars, ProbeInv
<1>10. QED
  BY <1>1, <1>2, <1>3, <1>4, <1>5, <1>6, <1>7, <1>8, <1>9 DEF AppNext

(* The invariant of the lifespan, for any configured list and any outcomes. *)
THEOREM AppInvHolds == AppSpec => []AppInv
<1>1. AppInit => AppInv
  <2>1. SUFFICES ASSUME AppInit
                 PROVE  AppInv
    OBVIOUS
  <2>2. RegistryTyped
    BY <2>1, ConfiguredList DEF AppInit, RegistryInit, RegistryTyped, Phases, IsInjective
  <2>3. RequiredSoFar
    BY <2>1 DEF AppInit, RegistryInit, RequiredSoFar
  <2>4. StopsInOrder
    BY <2>1 DEF AppInit, RegistryInit, StopsInOrder
  <2>5. ProbeInv
    BY <2>1, ConfiguredList DEF AppInit, RegistryInit, ProbeInv
  <2>6. QED
    BY <2>2, <2>3, <2>4, <2>5 DEF AppInv
<1>2. AppInv /\ [AppNext]_app_vars => AppInv'
  BY RegistryStep, RequiredStep, StopsStep, ProbeStep DEF AppInv
<1>3. QED
  BY <1>1, <1>2, PTL DEF AppSpec

(* A voice status appears as a whole or not at all, no provider is registered
   twice, and shutdown visits the entries in order.                          *)
THEOREM StatusesAreWhole == AppSpec => []TypeOK
<1>1. AppInv => TypeOK
  BY DEF AppInv, RegistryTyped, StopsInOrder, ProbeInv, TypeOK, RegistryTypeOK
<1>2. QED
  BY AppInvHolds, <1>1, PTL

(* A server that serves has every required provider it knows. *)
THEOREM RequiredStopTheStart == AppSpec => []RequiredAreRegistered
<1>1. AppInv => RequiredAreRegistered
  <2>1. SUFFICES ASSUME AppInv, phase = "serving",
                        NEW p \in Required \cap Builtin \cap Ids
                 PROVE  p \in Range(entries)
    BY DEF RequiredAreRegistered
  <2>2. PICK i \in 1 .. Len(Configured) : Configured[i] = p
    BY ConfiguredAssumption DEF Ids, Range
  <2>3. i \in 1 .. position - 1
    BY <2>1, <2>2, ConfiguredList DEF AppInv, RegistryTyped, RequiredSoFar
  <2>4. QED
    BY <2>1, <2>2, <2>3 DEF AppInv, RequiredSoFar
<1>2. QED
  BY AppInvHolds, <1>1, PTL

(* Nothing is torn down while the probe task may still walk the entries. *)
THEOREM ProbesEndBeforeShutdown == AppSpec => []ProbeEndsFirst
<1>1. AppInv => ProbeEndsFirst
  BY DEF AppInv, ProbeInv, StopsInOrder, ProbeEndsFirst
<1>2. QED
  BY AppInvHolds, <1>1, PTL

(* By the time the entries are gone every provider that can be terminated has
   been asked to, also behind one whose terminate() raised.                  *)
THEOREM EveryProviderIsTerminated == AppSpec => ShutdownReachesAll
<1>1. AppInv /\ [AppNext]_app_vars
         => [phase = "stopping" /\ phase' = "stopped"
                => Range(entries) \cap Terminable \subseteq terminated]_registry_vars
  <2>1. SUFFICES ASSUME AppInv, [AppNext]_app_vars,
                        phase = "stopping", phase' = "stopped",
                        NEW p \in Range(entries), p \in Terminable
                 PROVE  p \in terminated
    OBVIOUS
  <2>2. EndShutdown
    BY <2>1, ProbeSteps DEF AppNext, Probes, StartUp, SkipUnknown, FactoryFails, DescribeFails,
       Register, Starting, Open, StartServing, Load, LoadSucceeds, LoadFails, Close,
       BeginShutdown, ShutDown, StopNext, StopFails, app_vars, registry_vars
  <2>3. to_stop = <<>>
    BY <2>2 DEF EndShutdown
  <2>4. Range(to_stop) = {}
    BY <2>3 DEF Range
  <2>5. QED
    BY <2>1, <2>4 DEF AppInv, StopsInOrder
<1>2. QED
  BY AppInvHolds, <1>1, PTL DEF AppSpec, ShutdownReachesAll

(* Lifespan moves the registry by the registry's own actions only. *)
THEOREM DrivesTheRegistry == AppSpec => RegistrySpec
<1>1. AppInit => RegistryInit
  BY DEF AppInit
<1>2. [AppNext]_app_vars => [RegistryNext]_registry_vars
  BY ProbeSteps DEF AppNext, Probes, RegistryNext, StartUp, Open, Load, Close, ShutDown, app_vars
<1>3. QED
  BY <1>1, <1>2, PTL DEF AppSpec, RegistrySpec

-----------------------------------------------------------------------------
(* The reference store, wherever the server is killed and whatever files
   resist their removal.                                                     *)
ValuesTyped ==
    /\ up \in BOOLEAN
    /\ writing \in Targets \cup {Nothing}
    /\ next_sweep \in Nat /\ now \in Nat /\ started \in Nat
    /\ stored \in [Targets -> Nat \cup {Nothing}]
    /\ files \in [DOMAIN files -> [mtime : Nat, whole : BOOLEAN]]

(* A file under a final name was renamed when it was complete. *)
FinalsWhole == \A n \in DOMAIN files : n[2] = "final" => files[n].whole

(* store() does not suspend: its temporary file is there, as old as the moment. *)
WritingIsNow ==
    writing # Nothing => /\ Tmp(writing) \in DOMAIN files
                         /\ files[Tmp(writing)].mtime = now

(* The sweep goes by the age of the file, which is no older than the upload. *)
StoredIsYoung ==
    \A t \in Targets :
        stored[t] # Nothing /\ now - stored[t] <= Ttl
            => /\ Final(t) \in DOMAIN files
               /\ files[Final(t)].mtime >= stored[t]

(* A running server has swept one interval before the next sweep, or has not
   swept yet since it started.                                               *)
SweptLastTime ==
    up => /\ now <= next_sweep
          /\ next_sweep <= now + Interval
          /\ \/ next_sweep = started + Interval
             \/ \A n \in DOMAIN files \ stuck :
                    files[n].mtime >= next_sweep - Interval - Ttl

StoreInv == /\ ValuesTyped
            /\ FinalsWhole
            /\ WritingIsNow
            /\ StoredIsYoung
            /\ SweptLastTime

-----------------------------------------------------------------------------
LEMMA DropFiles ==
    ASSUME NEW names
    PROVE  /\ DOMAIN Drop(files, names) = DOMAIN files \ names
           /\ \A m \in DOMAIN files \ names : Drop(files, names)[m] = files[m]
BY DEF Drop, Restrict

(* A final name and a temporary one are never the same file. *)
LEMMA NamesDiffer ==
    ASSUME NEW t, NEW u
    PROVE  /\ Final(t) # Tmp(u)
           /\ Final(t)[2] = "final" /\ Tmp(t)[2] # "final"
           /\ Final(t) = Final(u) => t = u
BY DEF Final, Tmp

-----------------------------------------------------------------------------
LEMMA InitInv == Init => StoreInv
<1> SUFFICES ASSUME Init PROVE StoreInv
  OBVIOUS
<1>1. DOMAIN files = {} /\ files \in [DOMAIN files -> [mtime : Nat, whole : BOOLEAN]]
  BY DEF Init
<1>2. \A t \in Targets : stored[t] = Nothing
  BY DEF Init
<1> QED
  BY <1>1, <1>2, RefAssumption
     DEF Init, StoreInv, ValuesTyped, FinalsWhole, WritingIsNow, StoredIsYoung, SweptLastTime

(* A temporary file appears or is rewritten now: nothing else changes. *)
LEMMA PutTmpInv ==
    ASSUME StoreInv, NEW t \in Targets, NEW whole \in BOOLEAN,
           files' = Put(Tmp(t), whole), writing' = t,
           UNCHANGED <<up, next_sweep, now, started, stored, stuck>>
    PROVE  StoreInv'
<1>1. /\ DOMAIN files' = DOMAIN files \cup {Tmp(t)}
      /\ files'[Tmp(t)] = [mtime |-> now, whole |-> whole]
      /\ \A m \in DOMAIN files : m # Tmp(t) => files'[m] = files[m]
  BY DEF Put, With
<1>2. ValuesTyped'
  <2>1. \A m \in DOMAIN files' : files'[m] \in [mtime : Nat, whole : BOOLEAN]
    BY <1>1 DEF StoreInv, ValuesTyped
  <2>2. files' = [m \in DOMAIN files' |-> files'[m]]
    BY DEF Put, With
  <2> QED
    BY <2>1, <2>2 DEF StoreInv, ValuesTyped
<1>3. FinalsWhole'
  BY <1>1, NamesDiffer DEF StoreInv, FinalsWhole
<1>4. WritingIsNow'
  BY <1>1 DEF WritingIsNow
<1>5. StoredIsYoung'
  BY <1>1, NamesDiffer DEF StoreInv, StoredIsYoung
<1>6. SweptLastTime'
  <2>1. SweptLastTime /\ ValuesTyped
    BY DEF StoreInv
  <2>2. up /\ next_sweep <= now + Interval => now >= next_sweep - Interval - Ttl
    BY <2>1, RefAssumption DEF ValuesTyped
  <2> QED
    BY <1>1, <2>1, <2>2 DEF SweptLastTime
<1> QED
  BY <1>2, <1>3, <1>4, <1>5, <1>6 DEF StoreInv

LEMMA StoreReplacesInv == ASSUME StoreInv, StoreReplaces PROVE StoreInv'
<1> DEFINE old == Tmp(writing)
           new == Final(writing)
<1>1. /\ writing \in Targets /\ writing # Nothing
      /\ old \in DOMAIN files /\ files[old].mtime = now /\ files[old].whole
      /\ new # old /\ new[2] = "final"
  BY NamesDiffer DEF StoreReplaces, StoreInv, ValuesTyped, WritingIsNow
<1>2. /\ DOMAIN files' = (DOMAIN files \ {old}) \cup {new}
      /\ files' = [m \in DOMAIN files' |-> files'[m]]
      /\ files'[new] = files[old]
      /\ \A m \in DOMAIN files \ {old} : m # new => files'[m] = files[m]
  BY DropFiles DEF StoreReplaces, With
<1>3. /\ writing' = Nothing /\ stored' = [stored EXCEPT ![writing] = now]
      /\ UNCHANGED <<up, next_sweep, now, started, stuck>>
  BY DEF StoreReplaces
<1>4. ValuesTyped'
  <2>1. \A m \in DOMAIN files' : files'[m] \in [mtime : Nat, whole : BOOLEAN]
    BY <1>1, <1>2 DEF StoreInv, ValuesTyped
  <2> QED
    BY <1>1, <1>2, <1>3, <2>1 DEF StoreInv, ValuesTyped
<1>5. FinalsWhole'
  BY <1>1, <1>2 DEF StoreInv, FinalsWhole
<1>6. WritingIsNow'
  BY <1>3 DEF WritingIsNow
<1>7. StoredIsYoung'
  <2> SUFFICES ASSUME NEW t \in Targets, stored'[t] # Nothing, now - stored'[t] <= Ttl
               PROVE  Final(t) \in DOMAIN files' /\ files'[Final(t)].mtime >= stored'[t]
    BY <1>3 DEF StoredIsYoung
  <2>1. CASE t = writing
    BY <1>1, <1>2, <1>3, <2>1 DEF StoreInv, ValuesTyped
  <2>2. CASE t # writing
    <3>1. Final(t) # new /\ Final(t) # old
      BY <2>2, NamesDiffer
    <3>2. stored'[t] = stored[t]
      BY <1>3, <2>2 DEF StoreInv, ValuesTyped
    <3> QED
      BY <1>2, <3>1, <3>2 DEF StoreInv, StoredIsYoung
  <2> QED
    BY <2>1, <2>2
<1>8. SweptLastTime'
  <2>1. SweptLastTime /\ ValuesTyped
    BY DEF StoreInv
  <2>2. up /\ next_sweep <= now + Interval => now >= next_sweep - Interval - Ttl
    BY <2>1, RefAssumption DEF ValuesTyped
  <2> QED
    BY <1>1, <1>2, <1>3, <2>1, <2>2 DEF SweptLastTime
<1> QED
  BY <1>4, <1>5, <1>6, <1>7, <1>8 DEF StoreInv

LEMMA SweepInv == ASSUME StoreInv, Sweep PROVE StoreInv'
<1>1. PICK failed \in SUBSET Expired :
          /\ files' = Drop(files, Expired \ failed)
          /\ stuck' = failed
  BY DEF Sweep
<1>2. /\ next_sweep <= now /\ next_sweep' = now + Interval /\ writing = Nothing
      /\ UNCHANGED <<up, writing, now, started, stored>>
  BY DEF Sweep, Idle
<1>3. /\ DOMAIN files' = DOMAIN files \ (Expired \ failed)
      /\ files' = [m \in DOMAIN files' |-> files'[m]]
      /\ \A m \in DOMAIN files' : m \in DOMAIN files /\ files'[m] = files[m]
  BY <1>1, DropFiles DEF Drop, Restrict
<1>4. ValuesTyped'
  BY <1>2, <1>3, RefAssumption DEF StoreInv, ValuesTyped
<1>5. FinalsWhole' /\ WritingIsNow'
  BY <1>2, <1>3 DEF StoreInv, FinalsWhole, WritingIsNow
<1>6. StoredIsYoung'
  <2> SUFFICES ASSUME NEW t \in Targets, stored[t] # Nothing, now - stored[t] <= Ttl
               PROVE  Final(t) \in DOMAIN files' /\ files'[Final(t)].mtime >= stored[t]
    BY <1>2 DEF StoredIsYoung
  <2>1. Final(t) \in DOMAIN files /\ files[Final(t)].mtime >= stored[t]
    BY DEF StoreInv, StoredIsYoung
  <2>2. stored[t] \in Nat /\ files[Final(t)].mtime \in Nat /\ now \in Nat
    BY <2>1 DEF StoreInv, ValuesTyped
  <2>3. Final(t) \notin Expired
    BY <2>1, <2>2, RefAssumption DEF Expired
  <2> QED
    BY <1>3, <2>1, <2>3
<1>7. SweptLastTime'
  <2>1. \A m \in DOMAIN files' \ stuck' : files'[m].mtime >= now - Ttl
    <3> SUFFICES ASSUME NEW m \in DOMAIN files' \ stuck' PROVE files[m].mtime >= now - Ttl
      BY <1>3
    <3>1. m \in DOMAIN files /\ m \notin Expired
      BY <1>1, <1>3
    <3> QED
      BY <3>1, RefAssumption DEF Expired, StoreInv, ValuesTyped
  <2>2. now <= next_sweep' /\ next_sweep' <= now' + Interval /\ now' = now
        /\ next_sweep' - Interval - Ttl = now - Ttl
    BY <1>2, RefAssumption DEF StoreInv, ValuesTyped
  <2> QED
    BY <2>1, <2>2 DEF SweptLastTime
<1> QED
  BY <1>4, <1>5, <1>6, <1>7 DEF StoreInv

(* A stop, an upload that raises, a start and the clock leave the files alone. *)
LEMMA RunInv == ASSUME StoreInv, StoreRaises \/ Stops \/ Starts \/ Tick PROVE StoreInv'
<1>1. UNCHANGED <<files, stored, stuck>>
  BY DEF StoreRaises, Stops, Starts, Tick
<1>2. CASE StoreRaises
  BY <1>1, <1>2 DEF StoreRaises, StoreInv, ValuesTyped, FinalsWhole, WritingIsNow,
                    StoredIsYoung, SweptLastTime
<1>3. CASE Stops
  BY <1>1, <1>3 DEF Stops, StoreInv, ValuesTyped, FinalsWhole, WritingIsNow,
                    StoredIsYoung, SweptLastTime
<1>4. CASE Starts
  BY <1>1, <1>4, RefAssumption
     DEF Starts, StoreInv, ValuesTyped, FinalsWhole, WritingIsNow, StoredIsYoung, SweptLastTime
<1>5. CASE Tick
  <2>1. now' = now + 1 /\ UNCHANGED <<up, writing, next_sweep, started>>
        /\ writing = Nothing /\ (up => next_sweep > now)
    BY <1>5 DEF Tick
  <2>2. ValuesTyped' /\ FinalsWhole' /\ WritingIsNow'
    BY <1>1, <2>1 DEF StoreInv, ValuesTyped, FinalsWhole, WritingIsNow
  <2>3. StoredIsYoung'
    <3> SUFFICES ASSUME NEW t \in Targets, stored[t] # Nothing, now' - stored[t] <= Ttl
                 PROVE  Final(t) \in DOMAIN files /\ files[Final(t)].mtime >= stored[t]
      BY <1>1 DEF StoredIsYoung
    <3>1. now - stored[t] <= Ttl
      BY <2>1, RefAssumption DEF StoreInv, ValuesTyped
    <3> QED
      BY <3>1 DEF StoreInv, StoredIsYoung
  <2>4. SweptLastTime'
    BY <1>1, <2>1, RefAssumption DEF StoreInv, ValuesTyped, SweptLastTime
  <2> QED
    BY <2>2, <2>3, <2>4 DEF StoreInv
<1> QED
  BY <1>2, <1>3, <1>4, <1>5

LEMMA NextInv == StoreInv /\ [Next]_vars => StoreInv'
<1> SUFFICES ASSUME StoreInv, [Next]_vars PROVE StoreInv'
  OBVIOUS
<1>1. CASE UNCHANGED vars
  BY <1>1 DEF vars, StoreInv, ValuesTyped, FinalsWhole, WritingIsNow, StoredIsYoung,
              SweptLastTime
<1>2. ASSUME NEW t \in Targets, StoreOpens(t) PROVE StoreInv'
  BY <1>2, PutTmpInv DEF StoreOpens
<1>3. CASE StoreWrites
  BY <1>3, PutTmpInv DEF StoreWrites, StoreInv, ValuesTyped
<1>4. CASE StoreReplaces
  BY <1>4, StoreReplacesInv
<1>5. CASE Sweep
  BY <1>5, SweepInv
<1>6. CASE StoreRaises \/ Stops \/ Starts \/ Tick
  BY <1>6, RunInv
<1> QED
  BY <1>1, <1>2, <1>3, <1>4, <1>5, <1>6 DEF Next

-----------------------------------------------------------------------------
THEOREM StoreInvHolds == Spec => []StoreInv
<1>1. Init => StoreInv
  BY InitInv
<1>2. StoreInv /\ [Next]_vars => StoreInv'
  BY NextInv
<1> QED
  BY <1>1, <1>2, PTL DEF Spec

(* refs.py:191 "atomic write": no crash and no full disk leaves a cut-off file
   under a name that resolve() returns.                                       *)
THEOREM UploadsNotTorn == Spec => []NoTornUpload
<1>1. StoreInv => NoTornUpload
  BY DEF StoreInv, FinalsWhole, NoTornUpload, Resolve
<1> QED
  BY <1>1, StoreInvHolds, PTL

(* An upload resolves for its whole TTL, through restarts and sweeps. *)
THEOREM UploadsKept == Spec => []KeptSinceStored
<1>1. StoreInv => KeptSinceStored
  <2> SUFFICES ASSUME StoreInv, NEW t \in Targets, stored[t] # Nothing, now - stored[t] <= Ttl
               PROVE  Final(t) \in Resolve(t.content)
    BY DEF KeptSinceStored
  <2>1. Final(t) \in DOMAIN files
    BY DEF StoreInv, StoredIsYoung
  <2> QED
    BY <2>1 DEF Resolve, Final
<1> QED
  BY <1>1, StoreInvHolds, PTL

(* sweep_once() leaves nothing older than the TTL and one interval, in a server
   that has run that long, but what it could not unlink.                       *)
THEOREM UploadsSwept == Spec => []SweptInTime
<1>1. StoreInv => SweptInTime
  <2> SUFFICES ASSUME StoreInv, up, now - started > Interval, NEW n \in DOMAIN files \ stuck
               PROVE  now - files[n].mtime <= Ttl + Interval
    BY DEF SweptInTime
  <2>1. /\ now \in Nat /\ started \in Nat /\ next_sweep \in Nat
        /\ files[n].mtime \in Nat /\ Ttl \in Nat /\ Interval \in Nat
    BY RefAssumption DEF StoreInv, ValuesTyped
  <2>2. files[n].mtime >= next_sweep - Interval - Ttl /\ now <= next_sweep
    BY <2>1 DEF StoreInv, SweptLastTime
  <2> QED
    BY <2>1, <2>2
<1> QED
  BY <1>1, StoreInvHolds, PTL
=============================================================================
