-------------------------- MODULE StyleTTS2_proofs --------------------------
(***************************************************************************)
(* Proofs about StyleTTS2: what holds of the model's threads and of a      *)
(* voice's file until a request is cut short, for any number of requests   *)
(* and, but for the file, any concurrency.                                 *)
(***************************************************************************)
EXTENDS StyleTTS2, FiniteSetTheorems, TLAPS

(* A coroutine that awaits a thread has one of the right kind, one that waits
   for a slot has none; the registry's lock admits one into load().          *)
StageInv ==
    /\ stage \in [Callers -> Stages]
    /\ thread \in [Callers -> Loading \cup Synthesis \cup {"none"}]
    /\ \A c \in Callers : stage[c] = "loading" => thread[c] \in Loading
    /\ \A c \in Callers : stage[c] = "synthesizing" => thread[c] \in Synthesis
    /\ \A c \in Callers : stage[c] = "queued" => thread[c] = "none"
    /\ \A c, d \in Callers : stage[c] = "loading" /\ stage[d] = "loading" => c = d
    /\ <<model, stressify, loaded, voice_cached>>
            \in BOOLEAN \X BOOLEAN \X BOOLEAN \X BOOLEAN
    /\ setbacks \subseteq Setbacks

(* Until a load is cut short nobody loads who is not awaited, and nobody loads
   what is there.                                                            *)
LoadInv ==
    "load_cut_short" \notin setbacks =>
        /\ \A c \in Callers : thread[c] \in Loading => stage[c] = "loading"
        /\ \A c \in Callers : stage[c] = "loading" => ~ loaded
        /\ \A c \in Callers : thread[c] = "building_model" => ~ model
        /\ stressify => loaded

(* Until a synthesis is cut short nobody uses the model who is not awaited. *)
SlotInv ==
    /\ Cardinality(At("synthesizing")) <= Limit
    /\ "synthesis_cut_short" \notin setbacks =>
           \A c \in Callers : thread[c] \in Synthesis => stage[c] = "synthesizing"

(* What the fields hold: the stressifier comes after the model and, unless it
   could not be built or nobody waited for it, before everything else.       *)
FieldsInv ==
    /\ \A c \in Callers : thread[c] = "building_stressifier" => model
    /\ stressify => model
    /\ \A c \in Callers : thread[c] \in Synthesis \ {"starting"} => model /\ stressify
    /\ setbacks \subseteq {"synthesis_cut_short"} =>
           /\ model => stressify \/ \E c \in Callers : thread[c] = "building_stressifier"
           /\ loaded => stressify
           /\ \A c \in Callers : stage[c] = "queued" \/ thread[c] \in Synthesis => stressify

States == Callers \cup {"whole", "torn"}     \* of a copy: written by, or done

(* A copy is one that can be named, and is known as long as it is used. *)
CopiesInv ==
    /\ {voice_file, part} \subseteq Free \cup {NoCopy}
    /\ writes \in [Callers -> Free \cup {NoCopy}]
    /\ copies \in [InUse -> States]
    /\ \A c \in Callers : writes[c] # NoCopy <=> thread[c] = "downloading"

(* With one request at a time and none cut short, the one thread that
   downloads writes .part, which is whole once it is done.                   *)
FileInv ==
    Limit = 1 /\ "synthesis_cut_short" \notin setbacks =>
        /\ voice_file # NoCopy => copies[voice_file] = "whole" /\ part # voice_file
        /\ \A c \in Callers : thread[c] = "downloading" =>
               writes[c] = part /\ part # NoCopy /\ copies[part] = c
        /\ \A c \in Callers : thread[c] = "renaming" =>
               part # NoCopy /\ copies[part] = "whole"

StyleInv == StageInv /\ LoadInv /\ SlotInv /\ FieldsInv /\ CopiesInv /\ FileInv
-----------------------------------------------------------------------------
(* Every step but a restart moves at most one request and its thread. *)
LEMMA StageStep == ASSUME StageInv, [Next]_vars
                   PROVE  StageInv'
<1>1. ASSUME NEW c \in Callers,
             AlreadyLoaded(c) \/ LoadReturnsAtOnce(c) \/ StartLoad(c)
      PROVE  StageInv'
  <2>1. CASE AlreadyLoaded(c)
    BY <2>1 DEF StageInv, AlreadyLoaded, Go, files, Stages, Loading, Synthesis
  <2>2. CASE LoadReturnsAtOnce(c)
    BY <2>2 DEF StageInv, LoadReturnsAtOnce, At, Go, files, Stages, Loading,
                Synthesis
  <2>3. CASE StartLoad(c)
    BY <2>3 DEF StageInv, StartLoad, At, Go, files, Stages, Loading, Synthesis
  <2>4. QED
    BY <1>1, <2>1, <2>2, <2>3
<1>2. ASSUME NEW c \in Callers,
             ModelBuilt(c) \/ ModelFails(c) \/ StressifierBuilt(c) \/ StressifierRaises(c)
      PROVE  StageInv'
  <2>1. CASE ModelBuilt(c)
    BY <2>1 DEF StageInv, ModelBuilt, files, Stages, Loading, Synthesis
  <2>2. CASE ModelFails(c)
    BY <2>2 DEF StageInv, ModelFails, ThreadEnds, Go, files, Stages, Loading, Synthesis
  <2>3. CASE StressifierBuilt(c)
    BY <2>3 DEF StageInv, StressifierBuilt, ThreadEnds, Go, files, Stages, Loading,
                Synthesis
  <2>4. CASE StressifierRaises(c)
    BY <2>4 DEF StageInv, StressifierRaises, ThreadEnds, Go, files, Stages, Loading,
                Synthesis, Setbacks
  <2>5. QED
    BY <1>2, <2>1, <2>2, <2>3, <2>4
<1>3. ASSUME NEW c \in Callers,
             \/ AssertsPass(c) \/ AssertsFail(c) \/ TextRaises(c) \/ InferenceEnds(c)
             \/ StyleRead(c) \/ StyleUnreadable(c) \/ ReplaceFails(c) \/ UrlFails(c)
      PROVE  StageInv'
  <2>1. CASE AssertsPass(c)
    BY <2>1 DEF StageInv, AssertsPass, files, Loading, Synthesis
  <2>2. CASE AssertsFail(c) \/ TextRaises(c) \/ InferenceEnds(c)
    BY <2>2 DEF StageInv, AssertsFail, TextRaises, InferenceEnds, ThreadEnds, Go, files,
                Stages, Loading, Synthesis
  <2>3. CASE StyleRead(c)
    BY <2>3 DEF StageInv, StyleRead, Loading, Synthesis
  <2>4. CASE StyleUnreadable(c)
    BY <2>4 DEF StageInv, StyleUnreadable, ThreadEnds, Go, files, Stages, Loading, Synthesis
  <2>5. CASE ReplaceFails(c) \/ UrlFails(c)
    BY <2>5 DEF StageInv, ReplaceFails, UrlFails, files, Loading, Synthesis
  <2>6. QED
    BY <1>3, <2>1, <2>2, <2>3, <2>4, <2>5
<1>4. ASSUME NEW c \in Callers,
             OpenPart(c) \/ Downloaded(c) \/ DownloadFails(c) \/ Replaced(c) \/ Unlinked(c)
      PROVE  StageInv'
  BY <1>4 DEF StageInv, OpenPart, PartOpened, Downloaded, DownloadFails, Replaced,
              Unlinked, ThreadEnds, Go, Stages, Loading, Synthesis
<1>5. ASSUME NEW c \in Callers, StartSynthesis(c)
      PROVE  StageInv'
  BY <1>5 DEF StageInv, StartSynthesis, Go, files, Stages, Loading, Synthesis
<1>6. ASSUME NEW c \in Callers, CutShort(c)
      PROVE  StageInv'
  BY <1>6 DEF StageInv, CutShort, files, Stages, Loading, Synthesis, Setbacks
<1>7. CASE Restart
  BY <1>7 DEF StageInv, Restart, Stages, Loading, Synthesis
<1>8. CASE UNCHANGED vars
  BY <1>8 DEF StageInv, vars, files
<1>9. QED
  BY <1>1, <1>2, <1>3, <1>4, <1>5, <1>6, <1>7, <1>8 DEF Next, ThreadStep

LEMMA LoadStep == ASSUME StageInv, LoadInv, [Next]_vars
                  PROVE  LoadInv'
<1>1. ASSUME NEW c \in Callers,
             AlreadyLoaded(c) \/ LoadReturnsAtOnce(c) \/ StartLoad(c)
      PROVE  LoadInv'
  <2>1. CASE AlreadyLoaded(c)
    BY <2>1 DEF StageInv, LoadInv, AlreadyLoaded, Go, Loading
  <2>2. CASE LoadReturnsAtOnce(c)
    BY <2>2 DEF StageInv, LoadInv, LoadReturnsAtOnce, At, Go, Loading
  <2>3. CASE StartLoad(c)
    BY <2>3 DEF StageInv, LoadInv, StartLoad, At, Go, Loading
  <2>4. QED
    BY <1>1, <2>1, <2>2, <2>3
<1>2. ASSUME NEW c \in Callers,
             ModelBuilt(c) \/ ModelFails(c) \/ StressifierBuilt(c) \/ StressifierRaises(c)
      PROVE  LoadInv'
  <2>1. CASE ModelBuilt(c)
    BY <2>1 DEF StageInv, LoadInv, ModelBuilt, Loading
  <2>2. CASE ModelFails(c)
    BY <2>2 DEF StageInv, LoadInv, ModelFails, ThreadEnds, Go, Loading
  <2>3. CASE StressifierBuilt(c)
    BY <2>3 DEF StageInv, LoadInv, StressifierBuilt, ThreadEnds, Go, Loading
  <2>4. CASE StressifierRaises(c)
    BY <2>4 DEF StageInv, LoadInv, StressifierRaises, ThreadEnds, Go, Loading
  <2>5. QED
    BY <1>2, <2>1, <2>2, <2>3, <2>4
<1>3. ASSUME NEW c \in Callers,
             \/ AssertsPass(c) \/ AssertsFail(c) \/ TextRaises(c) \/ InferenceEnds(c)
             \/ StyleRead(c) \/ StyleUnreadable(c) \/ ReplaceFails(c) \/ UrlFails(c)
             \/ OpenPart(c) \/ Downloaded(c) \/ DownloadFails(c) \/ Replaced(c) \/ Unlinked(c)
      PROVE  LoadInv'
  <2>1. UNCHANGED <<model, stressify, loaded, setbacks>>
    BY <1>3 DEF AssertsPass, AssertsFail, TextRaises, InferenceEnds, StyleRead,
                StyleUnreadable, ReplaceFails, UrlFails, OpenPart, PartOpened,
                Downloaded, DownloadFails, Replaced, Unlinked
  <2>2. /\ thread[c] \in Synthesis
        /\ stage' = [stage EXCEPT ![c] = stage'[c]] /\ stage'[c] \in {stage[c], "idle"}
        /\ thread' = [thread EXCEPT ![c] = thread'[c]] /\ thread'[c] \notin Loading
    BY <1>3 DEF StageInv, AssertsPass, AssertsFail, TextRaises, InferenceEnds, StyleRead,
                StyleUnreadable, ReplaceFails, UrlFails, OpenPart, PartOpened,
                Downloaded, DownloadFails, Replaced, Unlinked, ThreadEnds, Go, Loading, Synthesis
  <2>3. QED
    BY <2>1, <2>2 DEF StageInv, LoadInv, Loading, Synthesis
<1>4. ASSUME NEW c \in Callers, StartSynthesis(c)
      PROVE  LoadInv'
  BY <1>4 DEF StageInv, LoadInv, StartSynthesis, Go, Loading
<1>5. ASSUME NEW c \in Callers, CutShort(c)
      PROVE  LoadInv'
  BY <1>5 DEF StageInv, LoadInv, CutShort, Loading, Synthesis
<1>6. CASE Restart
  BY <1>6 DEF StageInv, LoadInv, Restart, Loading
<1>7. CASE UNCHANGED vars
  BY <1>7 DEF LoadInv, vars
<1>8. QED
  BY <1>1, <1>2, <1>3, <1>4, <1>5, <1>6, <1>7 DEF Next, ThreadStep

(* Only StartSynthesis puts a request into a slot, and only while one is free. *)
LEMMA SlotStep == ASSUME StageInv, SlotInv, [Next]_vars
                  PROVE  SlotInv'
<1>1. IsFiniteSet(At("synthesizing"))
  BY StyleAssumption, FS_Subset DEF At
<1>2. ASSUME At("synthesizing")' \subseteq At("synthesizing")
      PROVE  Cardinality(At("synthesizing")') <= Limit
  <2>1. /\ IsFiniteSet(At("synthesizing")')
        /\ Cardinality(At("synthesizing")') <= Cardinality(At("synthesizing"))
    BY <1>1, <1>2, FS_Subset
  <2>2. Cardinality(At("synthesizing")') \in Nat /\ Cardinality(At("synthesizing")) \in Nat
    BY <1>1, <2>1, FS_CardinalityType
  <2>3. Cardinality(At("synthesizing")) <= Limit
    BY DEF SlotInv
  <2>4. QED
    BY <2>1, <2>2, <2>3, StyleAssumption
<1>3. ASSUME NEW c \in Callers, StartSynthesis(c)
      PROVE  SlotInv'
  <2>1. At("synthesizing")' = At("synthesizing") \cup {c}
    BY <1>3 DEF StageInv, StartSynthesis, Go, At
  <2>2. c \notin At("synthesizing")
    BY <1>3 DEF StartSynthesis, At
  <2>3. Cardinality(At("synthesizing")') = Cardinality(At("synthesizing")) + 1
    BY <1>1, <2>1, <2>2, FS_AddElement
  <2>4. Cardinality(At("synthesizing")') <= Limit
    BY <1>1, <1>3, <2>3, FS_CardinalityType, StyleAssumption DEF StartSynthesis
  <2>5. QED
    BY <1>3, <2>4 DEF StageInv, SlotInv, StartSynthesis, Go
<1>4. ASSUME NEW c \in Callers, StartLoad(c) \/ AlreadyLoaded(c) \/ LoadReturnsAtOnce(c)
      PROVE  SlotInv'
  <2>1. At("synthesizing")' \subseteq At("synthesizing")
    BY <1>4 DEF StageInv, StartLoad, AlreadyLoaded, LoadReturnsAtOnce, Go, At
  <2>2. QED
    BY <1>2, <1>4, <2>1 DEF StageInv, SlotInv, StartLoad, AlreadyLoaded,
                            LoadReturnsAtOnce, Go, Synthesis
<1>5. ASSUME NEW c \in Callers, ThreadStep(c)
      PROVE  SlotInv'
  <2>1. setbacks \subseteq setbacks'
    BY <1>5 DEF ThreadStep, ModelBuilt, ModelFails, StressifierBuilt, StressifierRaises,
                AssertsPass, AssertsFail, TextRaises, InferenceEnds, StyleRead,
                StyleUnreadable, ReplaceFails, UrlFails, OpenPart, PartOpened,
                Downloaded, DownloadFails, Replaced, Unlinked
  <2>2. /\ \A d \in Callers \ {c} : stage'[d] = stage[d] /\ thread'[d] = thread[d]
        /\ \/ stage'[c] = stage[c]
           \/ stage'[c] \in {"idle", "queued"} /\ thread'[c] = "none"
        /\ thread'[c] \in Synthesis => thread[c] \in Synthesis
    <3>1. CASE ModelBuilt(c) \/ ModelFails(c) \/ StressifierBuilt(c) \/ StressifierRaises(c)
      BY <3>1 DEF StageInv, ModelBuilt, ModelFails, StressifierBuilt, StressifierRaises,
                  ThreadEnds, Go, Synthesis
    <3>2. CASE \/ AssertsPass(c) \/ AssertsFail(c) \/ TextRaises(c) \/ InferenceEnds(c)
               \/ StyleRead(c) \/ StyleUnreadable(c) \/ ReplaceFails(c) \/ UrlFails(c)
      BY <3>2 DEF StageInv, AssertsPass, AssertsFail, TextRaises, InferenceEnds, StyleRead,
                  StyleUnreadable, ReplaceFails, UrlFails, ThreadEnds, Go, Synthesis
    <3>3. CASE OpenPart(c) \/ Downloaded(c) \/ DownloadFails(c) \/ Replaced(c) \/ Unlinked(c)
      BY <3>3 DEF StageInv, OpenPart, PartOpened, Downloaded, DownloadFails, Replaced,
                  Unlinked, ThreadEnds, Go, Synthesis
    <3>4. QED
      BY <1>5, <3>1, <3>2, <3>3 DEF ThreadStep
  <2>3. At("synthesizing")' \subseteq At("synthesizing")
    BY <2>2 DEF At
  <2>4. QED
    BY <1>2, <2>1, <2>2, <2>3 DEF SlotInv, Synthesis
<1>6. ASSUME NEW c \in Callers, CutShort(c)
      PROVE  SlotInv'
  <2>1. At("synthesizing")' \subseteq At("synthesizing")
    BY <1>6 DEF StageInv, CutShort, At
  <2>2. QED
    BY <1>2, <1>6, <2>1 DEF StageInv, SlotInv, CutShort, Synthesis, Loading
<1>7. CASE Restart
  <2>1. At("synthesizing")' \subseteq At("synthesizing")
    BY <1>7 DEF Restart, At
  <2>2. QED
    BY <1>2, <1>7, <2>1 DEF SlotInv, Restart, Synthesis
<1>8. CASE UNCHANGED vars
  <2>1. At("synthesizing")' \subseteq At("synthesizing")
    BY <1>8 DEF vars, At
  <2>2. QED
    BY <1>2, <1>8, <2>1 DEF SlotInv, vars
<1>9. QED
  BY <1>3, <1>4, <1>5, <1>6, <1>7, <1>8 DEF Next

LEMMA FieldsStep == ASSUME StageInv, LoadInv, FieldsInv, [Next]_vars
                    PROVE  FieldsInv'
<1>1. ASSUME NEW c \in Callers,
             AlreadyLoaded(c) \/ LoadReturnsAtOnce(c) \/ StartLoad(c)
      PROVE  FieldsInv'
  <2>1. CASE AlreadyLoaded(c)
    BY <2>1 DEF StageInv, FieldsInv, AlreadyLoaded, Go, Synthesis
  <2>2. CASE LoadReturnsAtOnce(c)
    BY <2>2 DEF StageInv, LoadInv, FieldsInv, LoadReturnsAtOnce, At, Go, Synthesis, Loading
  <2>3. CASE StartLoad(c)
    BY <2>3 DEF StageInv, FieldsInv, StartLoad, Go, Synthesis
  <2>4. QED
    BY <1>1, <2>1, <2>2, <2>3
<1>2. ASSUME NEW c \in Callers,
             ModelBuilt(c) \/ ModelFails(c) \/ StressifierBuilt(c) \/ StressifierRaises(c)
      PROVE  FieldsInv'
  <2>1. CASE ModelBuilt(c)
    BY <2>1 DEF StageInv, FieldsInv, ModelBuilt, Synthesis
  <2>2. CASE ModelFails(c)
    BY <2>2 DEF StageInv, FieldsInv, ModelFails, ThreadEnds, Go, Synthesis
  <2>3. CASE StressifierBuilt(c)
    BY <2>3 DEF StageInv, FieldsInv, StressifierBuilt, ThreadEnds, Go, Synthesis
  <2>4. CASE StressifierRaises(c)
    BY <2>4 DEF StageInv, FieldsInv, StressifierRaises, ThreadEnds, Go, Synthesis
  <2>5. QED
    BY <1>2, <2>1, <2>2, <2>3, <2>4
<1>3. ASSUME NEW c \in Callers,
             \/ AssertsPass(c) \/ AssertsFail(c) \/ TextRaises(c) \/ InferenceEnds(c)
             \/ StyleRead(c) \/ StyleUnreadable(c) \/ ReplaceFails(c) \/ UrlFails(c)
             \/ OpenPart(c) \/ Downloaded(c) \/ DownloadFails(c) \/ Replaced(c) \/ Unlinked(c)
      PROVE  FieldsInv'
  <2>1. UNCHANGED <<model, stressify, loaded, setbacks>>
    BY <1>3 DEF AssertsPass, AssertsFail, TextRaises, InferenceEnds, StyleRead,
                StyleUnreadable, ReplaceFails, UrlFails, OpenPart, PartOpened,
                Downloaded, DownloadFails, Replaced, Unlinked
  <2>2. /\ \A d \in Callers \ {c} : stage'[d] = stage[d] /\ thread'[d] = thread[d]
        /\ thread[c] \in Synthesis
        /\ stage'[c] \in {stage[c], "idle"}
        /\ \/ thread'[c] = "none"
           \/ thread'[c] \in Synthesis \ {"starting"} /\ stage'[c] = stage[c]
        /\ thread[c] = "starting" /\ thread'[c] # "none" => model /\ stressify
    BY <1>3 DEF StageInv, AssertsPass, AssertsFail, TextRaises, InferenceEnds, StyleRead,
                StyleUnreadable, ReplaceFails, UrlFails, OpenPart, PartOpened,
                Downloaded, DownloadFails, Replaced, Unlinked, ThreadEnds, Go, Loading, Synthesis
  <2>3. QED
    BY <2>1, <2>2 DEF StageInv, FieldsInv, Synthesis
<1>4. ASSUME NEW c \in Callers, StartSynthesis(c)
      PROVE  FieldsInv'
  BY <1>4 DEF StageInv, FieldsInv, StartSynthesis, Go, Synthesis
<1>5. ASSUME NEW c \in Callers, CutShort(c)
      PROVE  FieldsInv'
  BY <1>5 DEF StageInv, FieldsInv, CutShort, Loading, Synthesis
<1>6. CASE Restart
  BY <1>6 DEF StageInv, FieldsInv, Restart, Synthesis
<1>7. CASE UNCHANGED vars
  BY <1>7 DEF FieldsInv, vars
<1>8. QED
  BY <1>1, <1>2, <1>3, <1>4, <1>5, <1>6, <1>7 DEF Next, ThreadStep

-----------------------------------------------------------------------------
(* There is one name more for copies than can be in use without a .part. *)
LEMMA UnusedCopyExists == ASSUME CopiesInv, part = NoCopy
                          PROVE  UnusedCopy \in Free \ InUse
<1> DEFINE Written == {writes[c] : c \in Callers}
           n == Cardinality(Callers)
<1>1. n \in Nat
  BY StyleAssumption, FS_CardinalityType
<1>2. IsFiniteSet(Written) /\ Cardinality(Written) <= n
  <2>1. writes \in Surjection(Callers, Written)
    BY DEF CopiesInv, Surjection
  <2> HIDE DEF n, Written
  <2>2. IsFiniteSet(Written) /\ Cardinality(Written) <= Cardinality(Callers)
    BY StyleAssumption, <2>1, FS_Surjection
  <2>3. QED
    BY <2>2 DEF n
<1>3. Cardinality(Written) \in Nat
  BY <1>2, FS_CardinalityType
<1>4. /\ IsFiniteSet(Written \cup {voice_file})
      /\ Cardinality(Written \cup {voice_file}) <= n + 1
  <2>1. /\ IsFiniteSet(Written \cup {voice_file})
        /\ Cardinality(Written \cup {voice_file})
              = IF voice_file \in Written THEN Cardinality(Written)
                                          ELSE Cardinality(Written) + 1
    <3> HIDE DEF Written
    <3>1. QED
      BY <1>2, FS_AddElement
  <2> HIDE DEF n, Written
  <2>2. QED
    BY <1>1, <1>2, <1>3, <2>1
<1>5. InUse \subseteq Written \cup {voice_file}
  BY DEF InUse
<1>6. IsFiniteSet(Free) /\ Cardinality(Free) = n + 2
  <2> HIDE DEF n
  <2>1. Free = 1 .. n + 2
    BY DEF Free, n
  <2>2. QED
    BY <1>1, <2>1, FS_Interval
<1>7. ~ (Free \subseteq Written \cup {voice_file})
  <2> HIDE DEF n, Written
  <2>1. SUFFICES ASSUME Free \subseteq Written \cup {voice_file}
                 PROVE  FALSE
    OBVIOUS
  <2>2. Cardinality(Free) <= Cardinality(Written \cup {voice_file})
    BY <1>4, <2>1, FS_Subset
  <2>3. Cardinality(Written \cup {voice_file}) \in Nat
    BY <1>4, FS_CardinalityType
  <2>4. QED
    BY <1>1, <1>4, <1>6, <2>2, <2>3
<1>8. \E i : i \in Free \ InUse
  BY <1>5, <1>7
<1>9. QED
  BY <1>8 DEF UnusedCopy

(* Until a synthesis is cut short a single slot means a single thread. *)
LEMMA OneSynthesis ==
    ASSUME SlotInv, Limit = 1, "synthesis_cut_short" \notin setbacks,
           NEW c \in Callers, NEW d \in Callers,
           thread[c] \in Synthesis, thread[d] \in Synthesis
    PROVE  c = d
<1>1. SUFFICES ASSUME c # d
               PROVE  FALSE
  OBVIOUS
<1> DEFINE Both == {c, d}
<1>2. Both \subseteq At("synthesizing")
  BY DEF SlotInv, At
<1>3. Cardinality(Both) = 2
  <2>1. IsFiniteSet({c}) /\ Cardinality({c}) = 1
    BY FS_Singleton
  <2>2. d \notin {c}
    BY <1>1
  <2>3. Cardinality({c} \cup {d}) = Cardinality({c}) + 1
    BY <2>1, <2>2, FS_AddElement
  <2>4. Both = {c} \cup {d}
    OBVIOUS
  <2> HIDE DEF Both
  <2>5. Cardinality(Both) = 1 + 1
    BY <2>1, <2>3, <2>4, Zenon
  <2>6. QED
    BY <2>5
<1> HIDE DEF Both
<1>4. IsFiniteSet(At("synthesizing"))
  BY StyleAssumption, FS_Subset DEF At
<1> DEFINE taken == Cardinality(At("synthesizing"))
<1>5. Cardinality(Both) <= taken
  BY <1>2, <1>4, FS_Subset
<1>6. taken \in Nat
  BY <1>4, FS_CardinalityType
<1>7. taken <= 1
  BY DEF SlotInv
<1> HIDE DEF taken
<1>8. QED
  BY <1>3, <1>5, <1>6, <1>7

-----------------------------------------------------------------------------
(* The steps that leave the files alone, and what they do to the threads. *)
LEMMA FilesUntouched ==
    ASSUME StageInv, NEW c \in Callers,
           \/ AlreadyLoaded(c) \/ LoadReturnsAtOnce(c) \/ StartLoad(c)
           \/ ModelBuilt(c) \/ ModelFails(c) \/ StressifierBuilt(c) \/ StressifierRaises(c)
           \/ AssertsPass(c) \/ AssertsFail(c) \/ TextRaises(c) \/ InferenceEnds(c)
           \/ StyleUnreadable(c) \/ StyleRead(c) \/ ReplaceFails(c) \/ UrlFails(c)
           \/ StartSynthesis(c) \/ CutShort(c)
    PROVE  /\ UNCHANGED <<voice_file, part, writes, copies>>
           /\ setbacks \subseteq setbacks'
           /\ \A d \in Callers \ {c} : thread'[d] = thread[d]
           /\ thread[c] = "downloading" <=> thread'[c] = "downloading"
           /\ thread'[c] = "renaming" => thread[c] = "renaming"
<1>1. CASE AlreadyLoaded(c) \/ LoadReturnsAtOnce(c) \/ StartLoad(c)
  BY <1>1 DEF StageInv, AlreadyLoaded, LoadReturnsAtOnce, StartLoad, Go, files
<1>2. CASE ModelBuilt(c) \/ ModelFails(c) \/ StressifierBuilt(c) \/ StressifierRaises(c)
  BY <1>2 DEF StageInv, ModelBuilt, ModelFails, StressifierBuilt, StressifierRaises,
              ThreadEnds, Go, files
<1>3. CASE AssertsPass(c) \/ AssertsFail(c) \/ TextRaises(c) \/ InferenceEnds(c)
  BY <1>3 DEF StageInv, AssertsPass, AssertsFail, TextRaises, InferenceEnds, ThreadEnds,
              Go, files
<1>4. CASE StyleUnreadable(c) \/ StyleRead(c) \/ ReplaceFails(c) \/ UrlFails(c)
  BY <1>4 DEF StageInv, StyleUnreadable, StyleRead, ReplaceFails, UrlFails, ThreadEnds, Go,
              files
<1>5. CASE StartSynthesis(c) \/ CutShort(c)
  BY <1>5 DEF StageInv, StartSynthesis, CutShort, Go, files
<1>6. QED
  BY <1>1, <1>2, <1>3, <1>4, <1>5

LEMMA CopiesAre ==
    ASSUME NEW state, CopiesBecome(state), \A i \in InUse' : state[i] \in States
    PROVE  copies' \in [InUse' -> States]
BY DEF CopiesBecome

LEMMA CopiesStep == ASSUME StageInv, CopiesInv, [Next]_vars
                    PROVE  CopiesInv'
<1>1. ASSUME NEW c \in Callers, OpenPart(c)
      PROVE  CopiesInv'
  <2>1. part' \in Free
    BY <1>1, UnusedCopyExists DEF OpenPart, CopiesInv
  <2>2. /\ writes' = [writes EXCEPT ![c] = part'] /\ voice_file' = voice_file
        /\ thread' = [thread EXCEPT ![c] = "downloading"]
    BY <1>1 DEF OpenPart, PartOpened
  <2>3. part' # NoCopy
    BY <2>1 DEF Free, NoCopy
  <2>4. CopiesBecome(Became(part', c))
    BY <1>1 DEF OpenPart, PartOpened
  <2>5. InUse' \subseteq {part'} \cup DOMAIN copies
    BY <2>2 DEF CopiesInv, InUse
  <2>6. \A i \in InUse' : Became(part', c)[i] \in States
    BY <2>5 DEF CopiesInv, Became, States
  <2>7. copies' \in [InUse' -> States]
    BY <2>4, <2>6, CopiesAre
  <2>8. QED
    BY <2>1, <2>2, <2>3, <2>7 DEF StageInv, CopiesInv
<1>2. ASSUME NEW c \in Callers, Downloaded(c) \/ DownloadFails(c)
      PROVE  CopiesInv'
  <2>1. /\ writes' = [writes EXCEPT ![c] = NoCopy] /\ voice_file' = voice_file
        /\ part' = part
    BY <1>2 DEF Downloaded, DownloadFails, Closed
  <2>2. /\ \A d \in Callers \ {c} : thread'[d] = thread[d]
        /\ thread'[c] # "downloading"
    BY <1>2 DEF StageInv, Downloaded, DownloadFails
  <2> DEFINE i == writes[c]
             done == IF Downloaded(c) THEN "whole" ELSE "torn"
             state == IF copies[i] = c THEN Became(i, done) ELSE copies
  <2>3. CopiesBecome(state)
    BY <1>2 DEF Downloaded, DownloadFails, Closed
  <2>4. InUse' \subseteq DOMAIN copies
    BY <2>1 DEF CopiesInv, InUse
  <2>5. \A j \in InUse' : state[j] \in States
    BY <2>4 DEF CopiesInv, Became, States
  <2>6. copies' \in [InUse' -> States]
    BY <2>3, <2>5, CopiesAre
  <2>7. QED
    BY <2>1, <2>2, <2>6 DEF CopiesInv
<1>3. ASSUME NEW c \in Callers, Replaced(c) \/ Unlinked(c)
      PROVE  CopiesInv'
  <2>1. InUse' \subseteq InUse
    BY <1>3 DEF Replaced, Unlinked, InUse
  <2>2. copies' \in [InUse' -> States]
    BY <1>3, <2>1, CopiesAre DEF CopiesInv, Replaced, Unlinked
  <2>3. CASE Replaced(c)
    BY <2>2, <2>3 DEF StageInv, CopiesInv, Replaced
  <2>4. CASE Unlinked(c)
    BY <2>2, <2>4 DEF StageInv, CopiesInv, Unlinked, ThreadEnds, Go
  <2>5. QED
    BY <1>3, <2>3, <2>4
<1>4. CASE Restart
  <2>1. InUse' \subseteq InUse
    BY <1>4 DEF Restart, InUse
  <2>2. copies' \in [InUse' -> States]
    BY <1>4, <2>1, CopiesAre DEF CopiesInv, Restart, States
  <2>3. QED
    BY <1>4, <2>2 DEF CopiesInv, Restart
<1>5. ASSUME UNCHANGED <<voice_file, part, writes, copies>>,
             \A d \in Callers : thread[d] = "downloading" <=> thread'[d] = "downloading"
      PROVE  CopiesInv'
  BY <1>5 DEF CopiesInv, InUse
<1>6. CASE UNCHANGED vars
  BY <1>5, <1>6 DEF vars, files
<1>7. QED
  BY <1>1, <1>2, <1>3, <1>4, <1>5, <1>6, FilesUntouched DEF Next, ThreadStep

LEMMA FileStep == ASSUME StageInv, SlotInv, CopiesInv, FileInv, [Next]_vars
                  PROVE  FileInv'
<1>1. CASE ~ (Limit = 1 /\ "synthesis_cut_short" \notin setbacks')
  BY <1>1 DEF FileInv
<1>2. CASE UNCHANGED vars
  BY <1>2 DEF FileInv, vars, files
<1>3. ASSUME Limit = 1, "synthesis_cut_short" \notin setbacks', Restart
      PROVE  FileInv'
  <2>1. voice_file # NoCopy => copies[voice_file] = "whole" /\ part # voice_file
    BY <1>3 DEF FileInv, Restart
  <2>2. voice_file # NoCopy => voice_file \in InUse' /\ voice_file \in DOMAIN copies
    BY <1>3 DEF CopiesInv, InUse, Restart
  <2>3. voice_file # NoCopy => copies'[voice_file] = "whole"
    BY <1>3, <2>1, <2>2 DEF Restart, CopiesBecome
  <2>4. QED
    BY <1>3, <2>1, <2>3 DEF FileInv, Restart
<1>4. ASSUME Limit = 1, "synthesis_cut_short" \notin setbacks', NEW c \in Callers,
             OpenPart(c) \/ Downloaded(c) \/ DownloadFails(c) \/ Replaced(c) \/ Unlinked(c)
      PROVE  FileInv'
  <2>1. "synthesis_cut_short" \notin setbacks
    BY <1>4 DEF OpenPart, PartOpened, Downloaded, DownloadFails, Replaced, Unlinked
  <2>2. /\ voice_file # NoCopy => copies[voice_file] = "whole" /\ part # voice_file
        /\ thread[c] = "downloading" => writes[c] = part /\ part # NoCopy /\ copies[part] = c
        /\ thread[c] = "renaming" => part # NoCopy /\ copies[part] = "whole"
    BY <1>4, <2>1 DEF FileInv
  <2>3. thread[c] \in Synthesis
    BY <1>4 DEF OpenPart, Downloaded, DownloadFails, Replaced, Unlinked, Synthesis
  <2>4. \A d \in Callers : d # c => thread[d] \notin Synthesis
    BY <1>4, <2>1, <2>3, OneSynthesis
  <2>5. \A d \in Callers : d # c => thread'[d] \notin {"downloading", "renaming"}
    <3>1. \A d \in Callers : d # c => thread'[d] = thread[d]
      BY <1>4 DEF StageInv, OpenPart, PartOpened, Downloaded, DownloadFails, Replaced,
                  Unlinked, ThreadEnds, Go
    <3>2. QED
      BY <2>4, <3>1 DEF Synthesis
  <2>6. /\ voice_file # NoCopy => voice_file \in DOMAIN copies
        /\ part # NoCopy => part \in DOMAIN copies
    BY DEF CopiesInv, InUse
  <2>7. CASE OpenPart(c)
    <3>1. /\ part' # NoCopy
          /\ voice_file # NoCopy => part' # voice_file
      BY <2>2, <2>7, UnusedCopyExists DEF OpenPart, InUse, Free, NoCopy
    <3>2. /\ part' \in InUse'
          /\ voice_file # NoCopy => voice_file \in InUse'
          /\ copies' = [i \in InUse' |-> Became(part', c)[i]]
          /\ voice_file' = voice_file
      BY <2>7, <3>1 DEF OpenPart, PartOpened, CopiesBecome, InUse
    <3>3. /\ copies'[part'] = c
          /\ voice_file # NoCopy => copies'[voice_file] = copies[voice_file]
      BY <2>6, <3>1, <3>2 DEF Became
    <3>4. /\ thread'[c] = "downloading" /\ writes'[c] = part' /\ voice_file' = voice_file
      BY <2>7 DEF StageInv, CopiesInv, OpenPart, PartOpened
    <3>5. QED
      BY <2>2, <2>5, <3>1, <3>3, <3>4 DEF FileInv
  <2>8. CASE Downloaded(c)
    <3>1. /\ copies' = [i \in InUse' |-> Became(part, "whole")[i]]
          /\ voice_file' = voice_file /\ part' = part
          /\ thread'[c] = "renaming"
      BY <2>2, <2>8 DEF StageInv, Downloaded, Closed, CopiesBecome
    <3>2. /\ part \in InUse'
          /\ voice_file # NoCopy => voice_file \in InUse'
      BY <2>2, <2>8, <3>1 DEF Downloaded, InUse
    <3>3. /\ copies'[part'] = "whole"
          /\ voice_file # NoCopy => copies'[voice_file] = copies[voice_file]
      BY <2>2, <2>6, <2>8, <3>1, <3>2 DEF Became, Downloaded
    <3>4. QED
      BY <2>2, <2>5, <2>8, <3>1, <3>3 DEF FileInv, Downloaded
  <2>9. CASE DownloadFails(c)
    <3>1. /\ copies' = [i \in InUse' |-> Became(part, "torn")[i]]
          /\ voice_file' = voice_file /\ part' = part
          /\ thread'[c] = "unlinking"
      BY <2>2, <2>9 DEF StageInv, DownloadFails, Closed, CopiesBecome
    <3>2. voice_file # NoCopy => voice_file \in InUse'
      BY <3>1 DEF InUse
    <3>3. voice_file # NoCopy => copies'[voice_file] = copies[voice_file]
      BY <2>2, <2>6, <3>1, <3>2 DEF Became
    <3>4. QED
      BY <2>2, <2>5, <3>1, <3>3 DEF FileInv
  <2>10. CASE Replaced(c)
    <3>1. /\ copies' = [i \in InUse' |-> copies[i]]
          /\ voice_file' = part /\ part' = NoCopy
          /\ thread'[c] = "reading"
      BY <2>10 DEF StageInv, Replaced, CopiesBecome
    <3>2. part # NoCopy /\ copies[part] = "whole"
      BY <2>2, <2>10 DEF Replaced
    <3>3. part \in InUse'
      BY <3>1, <3>2 DEF InUse
    <3>4. QED
      BY <2>5, <3>1, <3>2, <3>3 DEF FileInv
  <2>11. CASE Unlinked(c)
    <3>1. /\ copies' = [i \in InUse' |-> copies[i]]
          /\ voice_file' = voice_file /\ part' = NoCopy
          /\ thread'[c] = "none"
      BY <2>11 DEF StageInv, Unlinked, CopiesBecome, ThreadEnds, Go
    <3>2. voice_file # NoCopy => voice_file \in InUse'
      BY <3>1 DEF InUse
    <3>3. QED
      BY <2>2, <2>5, <3>1, <3>2 DEF FileInv
  <2>12. QED
    BY <1>4, <2>7, <2>8, <2>9, <2>10, <2>11
<1>5. ASSUME Limit = 1, "synthesis_cut_short" \notin setbacks', NEW c \in Callers,
             UNCHANGED <<voice_file, part, writes, copies>>,
             setbacks \subseteq setbacks',
             \A d \in Callers \ {c} : thread'[d] = thread[d],
             thread[c] = "downloading" <=> thread'[c] = "downloading",
             thread'[c] = "renaming" => thread[c] = "renaming"
      PROVE  FileInv'
  BY <1>5 DEF FileInv
<1>6. QED
  BY <1>1, <1>2, <1>3, <1>4, <1>5, FilesUntouched DEF Next, ThreadStep

-----------------------------------------------------------------------------
(* All of it together, for every set of requests and every concurrency. *)
THEOREM InvHolds == Spec => []StyleInv
<1>1. Init => StyleInv
  <2>1. ASSUME Init
        PROVE  Cardinality(At("synthesizing")) <= Limit
    <3>1. At("synthesizing") = {}
      BY <2>1 DEF Init, At
    <3>2. Cardinality(At("synthesizing")) = 0
      BY <3>1, FS_EmptySet
    <3>3. QED
      BY <3>2, StyleAssumption
  <2>2. ASSUME Init
        PROVE  StageInv /\ LoadInv /\ FieldsInv /\ FileInv
    BY <2>2 DEF Init, StageInv, LoadInv, FieldsInv, FileInv, Stages, Loading, Synthesis
  <2>3. ASSUME Init
        PROVE  CopiesInv
    BY <2>3 DEF Init, CopiesInv, InUse
  <2>4. ASSUME Init
        PROVE  SlotInv
    BY <2>1, <2>4 DEF Init, SlotInv, Synthesis
  <2>5. QED
    BY <2>2, <2>3, <2>4 DEF StyleInv
<1>2. StyleInv /\ [Next]_vars => StyleInv'
  BY StageStep, LoadStep, SlotStep, FieldsStep, CopiesStep, FileStep DEF StyleInv
<1>3. QED
  BY <1>1, <1>2, PTL DEF Spec

(* Every field, thread and copy is of its kind, and who awaits a thread has one. *)
THEOREM StyleTyped == Spec => []TypeOK
<1>1. StyleInv => TypeOK
  BY DEF StyleInv, StageInv, CopiesInv, TypeOK, At, On, States
<1>2. QED
  BY InvHolds, <1>1, PTL

(* Until a synthesis is cut short at most Limit threads use the model, and
   until a load is cut short none while another still builds it.             *)
THEOREM ModelIsGuarded == Spec => []ModelUsedWithinLimit
<1>1. StyleInv => ModelUsedWithinLimit
  <2>1. SUFFICES ASSUME StyleInv
                 PROVE  ModelUsedWithinLimit
    OBVIOUS
  <2>2. ASSUME "synthesis_cut_short" \notin setbacks
        PROVE  Cardinality(On(Synthesis)) <= Limit
    <3>1. On(Synthesis) \subseteq At("synthesizing")
      BY <2>1, <2>2 DEF StyleInv, SlotInv, On, At
    <3>2. IsFiniteSet(At("synthesizing"))
      BY StyleAssumption, FS_Subset DEF At
    <3>3. /\ IsFiniteSet(On(Synthesis))
          /\ Cardinality(On(Synthesis)) <= Cardinality(At("synthesizing"))
      BY <3>1, <3>2, FS_Subset
    <3>4. Cardinality(On(Synthesis)) \in Nat /\ Cardinality(At("synthesizing")) \in Nat
      BY <3>2, <3>3, FS_CardinalityType
    <3>5. Cardinality(At("synthesizing")) <= Limit
      BY <2>1 DEF StyleInv, SlotInv
    <3>6. QED
      BY <3>3, <3>4, <3>5, StyleAssumption
  <2>3. ASSUME "load_cut_short" \notin setbacks,
               NEW c \in Callers, thread[c] = "inferring",
               NEW d \in Callers, thread[d] \in Loading
        PROVE  FALSE
    <3>1. model /\ stressify
      BY <2>1, <2>3 DEF StyleInv, FieldsInv, Synthesis
    <3>2. loaded /\ ~ loaded
      BY <2>1, <2>3, <3>1 DEF StyleInv, LoadInv
    <3>3. QED
      BY <3>2
  <2>4. QED
    BY <2>2, <2>3 DEF ModelUsedWithinLimit, On
<1>2. QED
  BY InvHolds, <1>1, PTL

(* Until a load is cut short, one thread at a time builds the model, and none
   once it is there.                                                         *)
THEOREM LoadsOnce == Spec => []BuiltOnce
<1>1. StyleInv => BuiltOnce
  <2>1. SUFFICES ASSUME StyleInv, "load_cut_short" \notin setbacks
                 PROVE  /\ Cardinality(On(Loading)) <= 1
                        /\ On({"building_model"}) # {} => ~ model
    BY DEF BuiltOnce
  <2>2. \A c, d \in On(Loading) : c = d
    BY <2>1 DEF StyleInv, StageInv, LoadInv, On
  <2>3. On(Loading) = {} \/ \E c \in On(Loading) : On(Loading) = {c}
    BY <2>2
  <2>4. Cardinality(On(Loading)) = 0 \/ Cardinality(On(Loading)) = 1
    BY <2>3, FS_EmptySet, FS_Singleton
  <2>5. On({"building_model"}) # {} => ~ model
    BY <2>1 DEF StyleInv, LoadInv, On
  <2>6. QED
    BY <2>4, <2>5
<1>2. QED
  BY InvHolds, <1>1, PTL

(* A synthesis thread that starts finds the model and the stressifier, unless
   a load was cut short or a stressifier could not be built before.          *)
THEOREM AssertionsPass == Spec => []LoadedIsUsable
<1>1. StyleInv => LoadedIsUsable
  BY DEF StyleInv, FieldsInv, LoadedIsUsable, On, Synthesis
<1>2. QED
  BY InvHolds, <1>1, PTL

(* One request at a time, and none cut short: the file of a voice is whole,
   whichever downloads failed and however often the server was restarted.    *)
THEOREM VoiceFilesAreWhole == Spec => []VoiceFileWhole
<1>1. StyleInv => VoiceFileWhole
  BY DEF StyleInv, FileInv, VoiceFileWhole
<1>2. QED
  BY InvHolds, <1>1, PTL
=============================================================================
