--------------------------- MODULE SpeechEndpoint ---------------------------
(***************************************************************************)
(* POST /v1/audio/speech, api/speech.py: any number of requests for one    *)
(* Qwen model, each a coroutine that is checked, looked up in the cache,   *)
(* warms the provider up, passes the concurrency gate, synthesizes under a *)
(* timeout, transcodes, and stores what it answers.  The cache, the load   *)
(* lock and the gate are the components' own modules: a step here is the   *)
(* stretch of create_speech() between two suspensions, so it joins their   *)
(* actions where the code calls them one after the other.  What the        *)
(* provider is asked for and what it clones is worked out by QwenClone.    *)
(***************************************************************************)
EXTENDS Integers, FiniteSets, Sequences, SequencesExt

CONSTANTS
    Requests,        \* client connections; each sends one request at a time
    Bodies,          \* the request bodies they send
    Provider,        \* ProviderEntry.id
    Registered, ByLanguage, Default, Lower,   \* see Routing
    Catalog, Sidecars, Uploads,               \* see QwenClone
    RefVoices,       \* the voices that start with "ref:"
    LongTexts,       \* inputs above caps.max_text_length
    NativeFormat,    \* SynthesisStream.format of the provider
    NativeRate,      \* SynthesisStream.sample_rate of the provider
    Limit,           \* the provider's concurrency
    MaxQueueDepth,   \* settings.server.max_queue_depth
    CacheEnabled,    \* settings.cache.enabled
    MaxEntries,      \* settings.cache.max_entries
    None,
    Cancellable      \* the provider's work stops when its coroutine does

Clone == INSTANCE QwenClone
Routes == INSTANCE Routing WITH
              RefPath <- [v \in {v \in RefVoices : Clone!Resolve(v) # None}
                              |-> Clone!Resolve(v)]

(* One provider's gate and load lock: bodies for another one are left out. *)
ASSUME EndpointAssumption ==
    /\ None \notin Registered /\ None \notin RefVoices /\ None \notin Bodies
    /\ \A b \in Bodies : Routes!ResolveModel(b.model, b.language) \in {Provider, None}
    /\ Cancellable \in BOOLEAN
    /\ IsFiniteSet(Requests) /\ Limit \in Nat \ {0} /\ MaxQueueDepth \in Int
    /\ CacheEnabled \in BOOLEAN /\ MaxEntries \in Int

(* Uploads are in a directory of their own, under names without a hyphen; an id
   is cut at its first hyphen, so it has at most two parts.                    *)
Stems == {f.stem : f \in Catalog}

ASSUME CatalogAssumption ==
    /\ \A id \in RefVoices \cup Stems : id \in Seq(STRING) /\ Len(id) \in {1, 2}
    /\ \A id \in Uploads : id \in Seq(STRING) /\ Len(id) = 1
    /\ Uploads \cap Stems = {} /\ None \notin Uploads \cup Stems
    /\ Lower["auto"] \notin Clone!QwenLanguages

VARIABLES
    pc,           \* the suspension point each request is at
    body,         \* what a request under way asked for
    answer,       \* the response sent last: [asked, kind, audio]
    jobs,         \* requests whose synthesis the provider is still computing
    lru,          \* the cache
    stage, lock_queue, loaded, load_error,   \* the load lock (ProviderLoad)
    task, waiters, value, pending            \* the gate (ConcurrencyController)

load_vars == <<stage, lock_queue, loaded, load_error>>
gate_vars == <<task, waiters, value, pending>>
vars == <<pc, body, answer, jobs, lru, load_vars, gate_vars>>

Cache == INSTANCE CacheOps WITH Enabled <- CacheEnabled, NoAudio <- None
Load  == INSTANCE ProviderLoad WITH Callers <- Requests
Gate  == INSTANCE ConcurrencyController WITH Callers <- Requests, Unbounded <- {}

NoAnswer == [asked |-> None, kind |-> "none", audio |-> None]

Init == /\ pc = [r \in Requests |-> "idle"]
        /\ body = [r \in Requests |-> None]
        /\ answer = NoAnswer
        /\ jobs = {}
        /\ lru = <<>>
        /\ Load!Init
        /\ Gate!Init

-----------------------------------------------------------------------------
VoiceOf(b) == Routes!ResolveVoice(b.voice, Clone!Capabilities)

(* resolve_model(), the length check and _resolve_voice() refuse the others:
   4xx, no effect.                                                           *)
Accepted == {b \in Bodies : /\ Routes!ResolveModel(b.model, b.language) # None
                            /\ b.text \notin LongTexts
                            /\ VoiceOf(b) # None}

(* effective_ref_text: the caller's value wins over the catalog's. *)
RefText(b) == IF b.ref_text # None THEN b.ref_text ELSE VoiceOf(b).ref_text

(* The key is made from the provider and the voice that were resolved. *)
Key == [b \in Accepted |->
           Cache!MakeKey(
               [text |-> b.text, model |-> Provider, voice |-> VoiceOf(b).id,
                language |-> b.language, speed |-> b.speed,
                response_format |-> b.response_format, sample_rate |-> b.sample_rate,
                idempotency_key |-> b.idempotency_key])]

(* SynthesisRequest, what the provider is asked to say and how *)
SynthInput(b) ==
    [text |-> b.text, voice |-> VoiceOf(b).id, voice_kind |-> VoiceOf(b).kind,
     language |-> b.language, ref_text |-> RefText(b)]

(* What the provider does with it: None if the worker answers 400.  Qwen does
   not take the speed.                                                       *)
Spoken == [b \in Accepted |-> Clone!SynthesizeText(Clone!Payload(SynthInput(b)))]

(* CachedAudio as the provider returns it, and after ffmpeg *)
Synthesized(b) ==
    [of |-> Spoken[b], format |-> NativeFormat, sample_rate |-> NativeRate]

NeedsTranscode(b) == \/ b.response_format # NativeFormat
                     \/ b.sample_rate # NativeRate

Transcoded(b) ==
    [of |-> Spoken[b], format |-> b.response_format,
     sample_rate |-> b.sample_rate]

-----------------------------------------------------------------------------
Respond(r, b, kind, audio) ==
    /\ pc' = [pc EXCEPT ![r] = "idle"]
    /\ body' = [body EXCEPT ![r] = None]
    /\ answer' = [asked |-> b, kind |-> kind, audio |-> audio]

Suspend(r, b, point) ==
    /\ pc' = [pc EXCEPT ![r] = point]
    /\ body' = [body EXCEPT ![r] = b]
    /\ UNCHANGED answer

(* ctl.acquire(), and the start of the synthesis if a slot is free *)
Admission(r, b) ==
    /\ Gate!Acquire(r)
    /\ \/ /\ task'[r] = "refused"
          /\ Respond(r, b, "at_capacity", None)
          /\ UNCHANGED jobs
       \/ /\ task'[r] = "waiting"
          /\ Suspend(r, b, "queued")
          /\ UNCHANGED jobs
       \/ /\ task'[r] = "holding"
          /\ Suspend(r, b, "synthesizing")
          /\ jobs' = jobs \cup {r}

(* What follows a step inside ensure_loaded(). *)
AfterLoadStep(r, b) ==
    \/ /\ stage'[r] = "done"
       /\ Admission(r, b)
    \/ /\ stage'[r] \in {"waiting", "loading"}
       /\ Suspend(r, b, "warming")
       /\ UNCHANGED <<jobs, gate_vars>>
    \/ /\ stage'[r] = "unavailable"
       /\ Respond(r, b, "load_failed", None)
       /\ UNCHANGED <<jobs, gate_vars>>
    \/ /\ stage'[r] = "timedOut"
       /\ Respond(r, b, "load_timed_out", None)
       /\ UNCHANGED <<jobs, gate_vars>>

(* A client whose timed-out synthesis still computes comes back under another
   name: the job keeps this one.                                             *)
Free(r) == pc[r] = "idle" /\ r \notin jobs

Reject(r, b) ==
    /\ Free(r)
    /\ b \notin Accepted
    /\ Respond(r, b, "rejected", None)
    /\ UNCHANGED <<jobs, lru, load_vars, gate_vars>>

Hit(r, b) ==
    /\ Free(r)
    /\ b \in Accepted
    /\ Cache!Lookup(lru, Key[b]) # None
    /\ lru' = Cache!AfterGet(lru, Key[b])
    /\ Respond(r, b, "ok", Cache!Lookup(lru, Key[b]))
    /\ UNCHANGED <<jobs, load_vars, gate_vars>>

Miss(r, b) ==
    /\ Free(r)
    /\ b \in Accepted
    /\ Cache!Lookup(lru, Key[b]) = None
    /\ Load!EnsureLoaded(r)
    /\ AfterLoadStep(r, b)
    /\ UNCHANGED lru

WarmUpStep(r, LoadAction) ==
    /\ pc[r] = "warming"
    /\ LoadAction
    /\ AfterLoadStep(r, body[r])
    /\ UNCHANGED lru

TakeLock(r)     == WarmUpStep(r, Load!Resume(r))
Loaded(r)       == WarmUpStep(r, Load!LoadSucceeds(r))
LoadFailed(r)   == WarmUpStep(r, Load!LoadFails(r))
LoadTimesOut(r) == WarmUpStep(r, Load!Timeout(r))

(* The gate hands a slot to a request in its queue: its synthesis starts, and
   with it the request's own synthesis timeout.                              *)
StartQueued(r) ==
    /\ pc[r] = "queued"
    /\ Gate!Resume(r)
    /\ Suspend(r, body[r], "synthesizing")
    /\ jobs' = jobs \cup {r}
    /\ UNCHANGED <<lru, load_vars>>

(* cache.put() and the response; put() raises only on a negative bound *)
Store(r, audio) ==
    /\ lru' = Cache!AfterPut(lru, Key[body[r]], audio)
    /\ IF Cache!PutRaises
       THEN Respond(r, body[r], "server_error", None)
       ELSE Respond(r, body[r], "ok", audio)

(* The `finally: ctl.release()` of the synthesis stage *)
LeaveSynthesis_NoRelease(r) ==
    /\ pc[r] = "synthesizing"
    /\ UNCHANGED gate_vars

LeaveSynthesis(r) ==
    /\ pc[r] = "synthesizing"
    /\ Gate!Release(r)

SynthesisDone(r) ==
    /\ UNCHANGED load_vars
    /\ LeaveSynthesis(r)
    /\ Spoken[body[r]] # None
    /\ jobs' = jobs \ {r}
    /\ IF NeedsTranscode(body[r])
       THEN Suspend(r, body[r], "transcoding") /\ UNCHANGED lru
       ELSE Store(r, Synthesized(body[r]))

SynthesisFails(r) ==
    /\ UNCHANGED <<lru, load_vars>>
    /\ LeaveSynthesis(r)
    /\ jobs' = jobs \ {r}
    /\ Respond(r, body[r], "synthesis_failed", None)

(* A thread, or a sidecar's handler, runs on after its coroutine is gone. *)
SynthesisTimesOut(r) ==
    /\ UNCHANGED <<lru, load_vars>>
    /\ LeaveSynthesis(r)
    /\ jobs' = IF Cancellable THEN jobs \ {r} ELSE jobs
    /\ Respond(r, body[r], "synthesis_timed_out", None)

OrphanEnds(r) ==
    /\ r \in jobs
    /\ pc[r] # "synthesizing"
    /\ jobs' = jobs \ {r}
    /\ UNCHANGED <<pc, body, answer, lru, load_vars, gate_vars>>

TranscodeDone(r) ==
    /\ UNCHANGED <<jobs, load_vars, gate_vars>>
    /\ pc[r] = "transcoding"
    /\ Store(r, Transcoded(body[r]))

(* ffmpeg missing (422), failing or timing out (502) *)
TranscodeFails(r) ==
    /\ UNCHANGED <<jobs, lru, load_vars, gate_vars>>
    /\ pc[r] = "transcoding"
    /\ Respond(r, body[r], "transcode_failed", None)

SynthesisEnds(r) == SynthesisDone(r) \/ SynthesisFails(r) \/ SynthesisTimesOut(r)
TranscodeEnds(r) == TranscodeDone(r) \/ TranscodeFails(r)
LoadEnds(r) == Loaded(r) \/ LoadFailed(r) \/ LoadTimesOut(r)

Arrive(r) == \E b \in Bodies : Reject(r, b) \/ Hit(r, b) \/ Miss(r, b)

Next == \E r \in Requests : \/ Arrive(r)
                            \/ TakeLock(r)
                            \/ LoadEnds(r)
                            \/ StartQueued(r)
                            \/ SynthesisEnds(r)
                            \/ OrphanEnds(r)
                            \/ TranscodeEnds(r)

Spec == Init /\ [][Next]_vars

(* Ready coroutines run; the load and the synthesis of a request are bounded by
   wait_for(request_timeout_seconds), ffmpeg by transcode()'s own 30 seconds.
   The wait at the gate has no timeout.                                       *)
GoesOn(r) == \/ TakeLock(r) \/ LoadEnds(r) \/ StartQueued(r)
             \/ SynthesisEnds(r) \/ TranscodeEnds(r)

Fairness == \A r \in Requests : WF_vars(GoesOn(r))

FairSpec == Spec /\ Fairness
-----------------------------------------------------------------------------
Points == {"idle", "warming", "queued", "synthesizing", "transcoding"}
AtPoint(S) == {r \in Requests : pc[r] \in S}

TypeOK ==
    /\ pc \in [Requests -> Points]
    /\ body \in [Requests -> Bodies \cup {None}]
    /\ \A r \in Requests : body[r] = None <=> pc[r] = "idle"
    /\ jobs \subseteq Requests
    /\ Load!TypeOK
    /\ Gate!TypeOK

(* The gate counts exactly the requests between admission and the end of their
   synthesis: every way out of that stretch, success, provider error, timeout,
   gives its slot and its count back, and no request transcodes on a slot.     *)
GateMatchesRequests ==
    /\ Gate!Inside = AtPoint({"queued", "synthesizing"})
    /\ Gate!In({"holding"}) = AtPoint({"synthesizing"})

(* The text in its language, in the container and at the rate that b asks for;
   cloned from the upload it names, from the clip that the catalogue lists under
   its voice id, or without a voice from the language's own.                    *)
MadeFor(b, audio) ==
    LET spoken == audio.of
    IN  /\ audio.format = b.response_format
        /\ audio.sample_rate = b.sample_rate
        /\ spoken.text = b.text
        /\ spoken.language = Clone!LangMap[Routes!Primary(b.language)]
        /\ IF b.voice = None
           THEN spoken.ref_audio = <<Routes!Primary(b.language)>>
           ELSE b.voice \in {spoken.ref_audio, Clone!VoiceId(spoken.ref_audio)}

(* Every 200 carries what this request asked for, whether it was synthesized,
   transcoded or cached by another request.                                     *)
AnswerMatchesRequest == answer.kind = "ok" => MadeFor(answer.asked, answer.audio)

(* The transcripts that go with the voice of b: those that requests for it bring or
   its id has in the catalogue; where no voice is named, also the built-in one.     *)
TranscriptsFor ==
    [b \in Accepted |->
        LET language == Routes!Primary(b.language)
            alike == {d \in Accepted : /\ VoiceOf(d).id = VoiceOf(b).id
                                       /\ Routes!Primary(d.language) = language}
            builtin == IF b.voice = None /\ language \in DOMAIN Clone!RefTexts
                       THEN {Clone!RefTexts[language]} ELSE {}
        IN  ({RefText(d) : d \in alike} \ {None}) \cup builtin]

(* README.md:281 "mismatch -> broken output", qwen_worker.py:103-106 "refuse instead":
   nothing is ever cloned with the transcript of another voice, nor a named voice with
   the language's built-in one: without a transcript there is no audio.  Which of the
   transcripts of its voice a request gets is another matter (AnswerUsesRefText).      *)
TranscriptOfVoice ==
    answer.kind = "ok" => answer.audio.of.ref_text \in TranscriptsFor[answer.asked]

(* The endpoint keeps the promise stated in SpeechService: it answers each request
   once, for what it asked, with audio made for it; and it tells a request "at
   capacity" when Limit requests synthesize and MaxQueueDepth wait behind them, or
   a negative depth admits nobody, and at no other time.                          *)
Answerable == {b \in Accepted : Spoken[b] # None}
Made(b) == IF NeedsTranscode(b) THEN Transcoded(b) ELSE Synthesized(b)
Renderings == [b \in Bodies |-> {a \in {Made(d) : d \in Answerable} :
                                    b \in Accepted /\ MadeFor(b, a)}]

Capacity == IF MaxQueueDepth < 0 THEN 0 ELSE Limit + MaxQueueDepth

Standing == [idle |-> "away", warming |-> "before", queued |-> "inside",
             synthesizing |-> "inside", transcoding |-> "after"]
Progress == [r \in Requests |-> Standing[pc[r]]]

Service == INSTANCE SpeechService WITH place <- Progress, asked <- body

ImplementsService == Service!Spec

(* No client waits for ever: every request is answered, although others may hold
   the lock or the slots and may fail or time out there.                        *)
EveryRequestAnswered == \A r \in Requests : []<>(pc[r] = "idle")

(* speech.py:95: a ref_text in the body "takes precedence over the catalog
   sidecar's ref_text"; the audio answered was cloned with the effective one,
   where there is one.                                                         *)
AnswerUsesRefText ==
    answer.kind = "ok" /\ RefText(answer.asked) # None
        => answer.audio.of.ref_text = RefText(answer.asked)

(* styletts2_uk.py:222 "The registry serializes synthesize calls via the
   concurrency controller", qwen_worker.py:239-242 "actual concurrency cap is
   enforced by the proxy": the provider computes at most Limit jobs at once.   *)
ProviderWithinLimit == Cardinality(jobs) <= Limit
=============================================================================
