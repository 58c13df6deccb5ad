----------------------------- MODULE StyleTTS2 -----------------------------
(***************************************************************************)
(* providers/styletts2_uk.py: the in-process GPU provider.  load() and     *)
(* synthesize() do their work in threads (asyncio.to_thread).  A request   *)
(* that is cut short by its wait_for abandons its thread, which runs on    *)
(* and keeps writing the provider's fields and the files of the voices,    *)
(* of which one is modelled: it is downloaded into a .part file that is    *)
(* renamed.  Both names refer to copies (inodes), so who writes a copy     *)
(* still does after it was renamed or unlinked.                            *)
(*                                                                         *)
(* The registry lets one request at a time into load(), the gate at most   *)
(* Limit into synthesize(); the order in which they queue there does not   *)
(* matter here (see ProviderLoad and ConcurrencyController).               *)
(***************************************************************************)
EXTENDS Naturals, FiniteSets

CONSTANTS
    Callers,     \* concurrent requests
    Limit        \* the provider's concurrency, 1 unless configured

ASSUME StyleAssumption == /\ IsFiniteSet(Callers)
                          /\ Callers \cap {"whole", "torn"} = {}
                          /\ Limit \in Nat \ {0}

VARIABLES
    stage,       \* where each request's coroutine is
    thread,      \* what the thread it started is doing
    model,       \* _model is set
    stressify,   \* _stressify is set
    loaded,      \* ProviderEntry.loaded
    voice_cached,  \* _voice_cache holds the voice
    voice_file,  \* the copy under the voice's name, or NoCopy
    part,        \* the copy under its .part name, or NoCopy
    writes,      \* the copy each thread has open to write
    copies,      \* of each copy in use: "whole", "torn", or the thread that
                 \* emptied it last, which makes it whole when it is done
    setbacks     \* history: what went wrong so far, of Setbacks

files == <<voice_cached, voice_file, part, writes, copies>>
vars == <<stage, thread, model, stressify, loaded, files, setbacks>>

NoCopy == 0

Stages == {"idle", "loading", "queued", "synthesizing"}
Loading == {"building_model", "building_stressifier"}
Synthesis == {"starting", "opening", "downloading", "renaming", "unlinking", "reading",
              "inferring"}
Setbacks == {"load_cut_short", "synthesis_cut_short", "no_stressifier"}

On(S) == {c \in Callers : thread[c] \in S}
At(p) == {c \in Callers : stage[c] = p}

Init == /\ stage = [c \in Callers |-> "idle"]
        /\ thread = [c \in Callers |-> "none"]
        /\ model = FALSE
        /\ stressify = FALSE
        /\ loaded = FALSE
        /\ voice_cached = FALSE
        /\ voice_file = NoCopy
        /\ part = NoCopy
        /\ writes = [c \in Callers |-> NoCopy]
        /\ copies = <<>>
        /\ setbacks = {}

-----------------------------------------------------------------------------
Go(c, place, work) == /\ stage' = [stage EXCEPT ![c] = place]
                      /\ thread' = [thread EXCEPT ![c] = work]

(* ensure_loaded() and load() up to the thread.  A request whose thread still
   runs after it was cut short comes back under another name.               *)
AlreadyLoaded(c) ==
    /\ stage[c] = "idle" /\ thread[c] = "none"
    /\ loaded
    /\ Go(c, "queued", "none")
    /\ UNCHANGED <<model, stressify, loaded, files, setbacks>>

LoadReturnsAtOnce(c) ==
    /\ stage[c] = "idle" /\ thread[c] = "none"
    /\ ~ loaded /\ At("loading") = {}
    /\ model
    /\ Go(c, "queued", "none")
    /\ loaded' = TRUE
    /\ UNCHANGED <<model, stressify, files, setbacks>>

StartLoad_NoCheck(c) ==
    /\ stage[c] = "idle" /\ thread[c] = "none"
    /\ Go(c, "loading", "building_model")
    /\ UNCHANGED <<model, stressify, loaded, files, setbacks>>

StartLoad(c) ==
    /\ stage[c] = "idle" /\ thread[c] = "none"
    /\ ~ loaded /\ At("loading") = {}
    /\ ~ model
    /\ Go(c, "loading", "building_model")
    /\ UNCHANGED <<model, stressify, loaded, files, setbacks>>

(* The thread of c ends; its request, if it still awaits it, moves on. *)
ThreadEnds_Unheard(c, place) == Go(c, stage[c], "none")

ThreadEnds(c, place) == Go(c, IF stage[c] = "idle" THEN "idle" ELSE place, "none")

(* _load_blocking() *)
ModelBuilt(c) ==
    /\ thread[c] = "building_model"
    /\ model' = TRUE
    /\ thread' = [thread EXCEPT ![c] = "building_stressifier"]
    /\ UNCHANGED <<stage, stressify, loaded, files, setbacks>>

ModelFails(c) ==
    /\ thread[c] = "building_model"
    /\ ThreadEnds(c, "idle")
    /\ UNCHANGED <<model, stressify, loaded, files, setbacks>>

StressifierBuilt_NotKept(c) ==
    /\ thread[c] = "building_stressifier"
    /\ loaded' = (loaded \/ stage[c] = "loading")
    /\ ThreadEnds(c, "queued")
    /\ UNCHANGED <<model, stressify, files, setbacks>>

StressifierBuilt(c) ==
    /\ thread[c] = "building_stressifier"
    /\ stressify' = TRUE
    /\ loaded' = (loaded \/ stage[c] = "loading")
    /\ ThreadEnds(c, "queued")
    /\ UNCHANGED <<model, files, setbacks>>

StressifierRaises(c) ==
    /\ thread[c] = "building_stressifier"
    /\ ThreadEnds(c, "idle")
    /\ setbacks' = setbacks \cup {"no_stressifier"}
    /\ UNCHANGED <<model, stressify, loaded, files>>

(* A gate slot is free: synthesize() runs to its thread; its own `await
   self.load()` returns at once, the model being set.                       *)
StartSynthesis_Ungated(c) ==
    /\ stage[c] = "queued"
    /\ Go(c, "synthesizing", "starting")
    /\ UNCHANGED <<model, stressify, loaded, files, setbacks>>

StartSynthesis(c) ==
    /\ stage[c] = "queued"
    /\ Cardinality(At("synthesizing")) < Limit
    /\ Go(c, "synthesizing", "starting")
    /\ UNCHANGED <<model, stressify, loaded, files, setbacks>>

(* _synthesize_blocking(): the two assertions, the phonemes, and where the
   voice's style comes from                                                 *)
AssertsPass(c) ==
    /\ thread[c] = "starting"
    /\ model /\ stressify
    /\ thread' = [thread EXCEPT ![c] = IF voice_cached THEN "inferring"
                                       ELSE IF voice_file # NoCopy THEN "reading"
                                       ELSE "opening"]
    /\ UNCHANGED <<stage, model, stressify, loaded, files, setbacks>>

AssertsFail(c) ==
    /\ thread[c] = "starting"
    /\ ~ (model /\ stressify)
    /\ ThreadEnds(c, "idle")
    /\ UNCHANGED <<model, stressify, loaded, files, setbacks>>

(* normalisation, stress, phonemes or tokens *)
TextRaises(c) ==
    /\ thread[c] = "starting"
    /\ model /\ stressify
    /\ ThreadEnds(c, "idle")
    /\ UNCHANGED <<model, stressify, loaded, files, setbacks>>

(* the audio is there, or the model or the encoder raised *)
InferenceEnds(c) ==
    /\ thread[c] = "inferring"
    /\ ThreadEnds(c, "idle")
    /\ UNCHANGED <<model, stressify, loaded, files, setbacks>>

-----------------------------------------------------------------------------
Free == 1 .. Cardinality(Callers) + 2
InUse == ({voice_file, part} \cup {writes[c] : c \in Callers}) \ {NoCopy}
UnusedCopy == CHOOSE i \in Free \ InUse : TRUE

(* Copies that nothing refers to any more are gone. *)
CopiesBecome(state) == copies' = [i \in InUse' |-> state[i]]

Became(i, what) == [j \in {i} \cup DOMAIN copies |-> IF j = i THEN what ELSE copies[j]]

(* urlretrieve() opens the URL, then .part: a copy that is there is emptied. *)
PartOpened(c, i) ==
    /\ writes' = [writes EXCEPT ![c] = i]
    /\ CopiesBecome(Became(i, c))
    /\ thread' = [thread EXCEPT ![c] = "downloading"]
    /\ UNCHANGED <<stage, model, stressify, loaded, voice_cached, setbacks>>

OpenPart_InPlace(c) ==
    /\ thread[c] = "opening"
    /\ voice_file' = IF voice_file = NoCopy THEN UnusedCopy ELSE voice_file
    /\ part' = voice_file'
    /\ PartOpened(c, voice_file')

OpenPart(c) ==
    /\ thread[c] = "opening"
    /\ part' = IF part = NoCopy THEN UnusedCopy ELSE part
    /\ UNCHANGED voice_file
    /\ PartOpened(c, part')

UrlFails(c) ==
    /\ thread[c] = "opening"
    /\ thread' = [thread EXCEPT ![c] = "unlinking"]
    /\ UNCHANGED <<stage, model, stressify, loaded, files, setbacks>>

Closed(c, i, what) ==
    /\ writes' = [writes EXCEPT ![c] = NoCopy]
    /\ CopiesBecome(IF copies[i] = c THEN Became(i, what) ELSE copies)

Downloaded(c) ==
    /\ thread[c] = "downloading"
    /\ UNCHANGED <<stage, model, stressify, loaded, voice_cached, voice_file, part, setbacks>>
    /\ Closed(c, writes[c], "whole")
    /\ thread' = [thread EXCEPT ![c] = "renaming"]

DownloadFails(c) ==
    /\ thread[c] = "downloading"
    /\ UNCHANGED <<stage, model, stressify, loaded, voice_cached, voice_file, part, setbacks>>
    /\ Closed(c, writes[c], "torn")
    /\ thread' = [thread EXCEPT ![c] = "unlinking"]

(* tmp.replace(target): whichever copy .part is now *)
Replaced(c) ==
    /\ thread[c] = "renaming" /\ part # NoCopy
    /\ voice_file' = part
    /\ part' = NoCopy
    /\ UNCHANGED <<stage, model, stressify, loaded, voice_cached, writes, setbacks>>
    /\ CopiesBecome(copies)
    /\ thread' = [thread EXCEPT ![c] = "reading"]

ReplaceFails(c) ==
    /\ thread[c] = "renaming" /\ part = NoCopy
    /\ thread' = [thread EXCEPT ![c] = "unlinking"]
    /\ UNCHANGED <<stage, model, stressify, loaded, files, setbacks>>

(* `except Exception: tmp.unlink(missing_ok=True); raise`: whichever copy .part
   is now, one that another thread has just written as well                   *)
Unlinked(c) ==
    /\ thread[c] = "unlinking"
    /\ part' = NoCopy
    /\ UNCHANGED <<model, stressify, loaded, voice_cached, voice_file, writes, setbacks>>
    /\ CopiesBecome(copies)
    /\ ThreadEnds(c, "idle")

(* torch.load(): a file that is not whole raises, and stays. *)
StyleRead(c) ==
    /\ thread[c] = "reading" /\ copies[voice_file] = "whole"
    /\ voice_cached' = TRUE
    /\ thread' = [thread EXCEPT ![c] = "inferring"]
    /\ UNCHANGED <<stage, model, stressify, loaded, voice_file, part, writes, copies, setbacks>>

StyleUnreadable(c) ==
    /\ thread[c] = "reading" /\ copies[voice_file] # "whole"
    /\ ThreadEnds(c, "idle")
    /\ UNCHANGED <<model, stressify, loaded, files, setbacks>>

(* The server is killed and started again; the files stay as they are. *)
Restart ==
    /\ stage' = [c \in Callers |-> "idle"]
    /\ thread' = [c \in Callers |-> "none"]
    /\ model' = FALSE /\ stressify' = FALSE /\ loaded' = FALSE
    /\ voice_cached' = FALSE
    /\ writes' = [c \in Callers |-> NoCopy]
    /\ UNCHANGED <<voice_file, part, setbacks>>
    /\ CopiesBecome([i \in DOMAIN copies |-> IF copies[i] = "whole" THEN "whole" ELSE "torn"])

-----------------------------------------------------------------------------
(* wait_for, around ensure_loaded() or around synthesize() *)
CutShort(c) ==
    /\ stage[c] \in {"loading", "synthesizing"}
    /\ stage' = [stage EXCEPT ![c] = "idle"]
    /\ setbacks' = setbacks \cup {IF stage[c] = "loading" THEN "load_cut_short"
                                  ELSE "synthesis_cut_short"}
    /\ UNCHANGED <<thread, model, stressify, loaded, files>>

ThreadStep(c) == \/ ModelBuilt(c) \/ ModelFails(c)
                 \/ StressifierBuilt(c) \/ StressifierRaises(c)
                 \/ AssertsPass(c) \/ AssertsFail(c) \/ TextRaises(c)
                 \/ InferenceEnds(c)
                 \/ OpenPart(c) \/ UrlFails(c) \/ Downloaded(c) \/ DownloadFails(c)
                 \/ Replaced(c) \/ ReplaceFails(c) \/ Unlinked(c)
                 \/ StyleRead(c) \/ StyleUnreadable(c)

Next == \/ \E c \in Callers :
               \/ AlreadyLoaded(c) \/ LoadReturnsAtOnce(c) \/ StartLoad(c)
               \/ ThreadStep(c)
               \/ StartSynthesis(c)
               \/ CutShort(c)
        \/ Restart

Spec == Init /\ [][Next]_vars

(* The operating system runs every thread, and the gate is first-in first-out. *)
Fairness == \A c \in Callers : WF_vars(ThreadStep(c)) /\ SF_vars(StartSynthesis(c))

FairSpec == Spec /\ Fairness
-----------------------------------------------------------------------------
TypeOK ==
    /\ stage \in [Callers -> Stages]
    /\ thread \in [Callers -> Loading \cup Synthesis \cup {"none"}]
    /\ At("loading") \subseteq On(Loading)
    /\ At("synthesizing") \subseteq On(Synthesis)
    /\ At("queued") \subseteq On({"none"})
    /\ <<model, stressify, loaded>> \in BOOLEAN \X BOOLEAN \X BOOLEAN
    /\ voice_cached \in BOOLEAN
    /\ {voice_file, part} \cup {writes[c] : c \in Callers} \subseteq Free \cup {NoCopy}
    /\ copies \in [InUse -> Callers \cup {"whole", "torn"}]
    /\ \A c \in Callers : writes[c] # NoCopy <=> thread[c] = "downloading"
    /\ setbacks \subseteq Setbacks

(* styletts2_uk.py:222-224: calls are serialized by the gate "so the underlying
   model is safe to call without an internal lock": until a synthesis is cut
   short, at most Limit threads use the model, and until a load is, none of
   them while a thread still builds it, whatever else fails.                   *)
ModelUsedWithinLimit ==
    /\ "synthesis_cut_short" \notin setbacks => Cardinality(On(Synthesis)) <= Limit
    /\ "load_cut_short" \notin setbacks
          => On({"inferring"}) = {} \/ On(Loading) = {}

(* "Idempotent warm-up": until a load is cut short the model is built by one
   thread at a time and never again once it is there, however many requests
   ask, and although synthesis threads may have been abandoned.               *)
BuiltOnce ==
    "load_cut_short" \notin setbacks =>
        /\ Cardinality(On(Loading)) <= 1
        /\ On({"building_model"}) # {} => ~ model

(* A thread that reaches the assertions of _synthesize_blocking passes them,
   unless a load was cut short or the stressifier could not be built before;
   a synthesis that was abandoned does no harm here.                          *)
LoadedIsUsable ==
    On({"starting"}) # {} /\ setbacks \subseteq {"synthesis_cut_short"}
        => model /\ stressify

(* A file under a voice's name is complete, whatever downloads failed and
   wherever the server was killed, as long as the provider takes one request
   at a time and no synthesis was cut short: two threads that write one .part
   need a second slot or an abandoned thread.  (A torn file stays: it exists,
   and torch.load() raises in every synthesis with that voice.)              *)
VoiceFileWhole ==
    Limit = 1 /\ "synthesis_cut_short" \notin setbacks /\ voice_file # NoCopy
        => copies[voice_file] = "whole"

(* Every request is answered: a failed load, a failed assertion and a failed
   synthesis all end it, and whoever waits for the slot gets it, also behind
   requests that were cut short.                                              *)
CallAnswered == \A c \in Callers : stage[c] # "idle" ~> stage[c] = "idle"

(* styletts2_uk.py:329-330: "assert self._model is not None" and "assert
   self._stressify is not None" hold whenever a synthesis thread reaches them. *)
AssertionsHold ==
    [][\A c \in Callers :
          thread[c] = "starting" /\ thread'[c] # "starting" => model /\ stressify]_vars
=============================================================================
