----------------------------- MODULE EdgeSpeech -----------------------------
(***************************************************************************)
(* A request to the edge provider from the cache lookup to its answer:     *)
(* EdgeProvider.synthesize() of providers/edge.py with its attempts, their *)
(* timeouts and pauses, under the request timeout of api/speech.py; then   *)
(* the duration, ffmpeg and normalize_wav() for a client that wants WAV,   *)
(* and the cache, which other requests use meanwhile.  Time is a number of *)
(* seconds that each step advances by what it took.                        *)
(***************************************************************************)
EXTENDS SynthesisCache

CONSTANTS
    Recordings,      \* what the service may say: [file, track, ms, pcm] by name
    Says,            \* the recordings with which it answers each key
    WantsWav,        \* the keys whose response_format is wav
    Lists,           \* sizes of the LIST chunk that ffmpeg inserts, 0: none
    Budgets,         \* values of max_attempts
    AttemptTimeout,  \* per_attempt_timeout_s
    RequestTimeout,  \* server.request_timeout_seconds
    Latencies        \* how long an attempt that ends by itself takes

Mp3 == INSTANCE Mp3
Wav == INSTANCE Wav

ASSUME EdgeAssumption ==
    /\ WantsWav \subseteq Keys
    /\ Budgets \subseteq Int
    /\ AttemptTimeout \in Nat /\ RequestTimeout \in Nat
    /\ \A d \in Latencies : d \in 0 .. AttemptTimeout - 1

(* `ms` is what the frames of a recording play, and the service's audio is what
   ffmpeg decodes, at 24 kHz, and never nothing.                              *)
ASSUME RecordingsAssumption ==
    /\ Lists \subseteq Nat
    /\ Says \in [Keys -> SUBSET DOMAIN Recordings]
    /\ \A m \in DOMAIN Recordings :
          LET r == Recordings[m]
          IN  /\ Mp3!IsFile(r.file) /\ Mp3!IsTrack(r.file, r.track)
              /\ r.ms = Mp3!PlayingTime(r.file, r.track)
    /\ \A k \in WantsWav : \A m \in Says[k] :
          /\ Recordings[m].pcm \in Nat \ {0}
          /\ Wav!Lasts(Recordings[m].pcm, 24000) = Recordings[m].ms

VARIABLES
    budget,    \* EdgeProvider._max_attempts
    request,   \* the request under way, with its `attempt`, `last_exc`
    answer     \* what it was answered, until it asks again

edge_vars == <<request, answer>>
all_vars == <<vars, budget, edge_vars>>

None == "none"

(* elapsed counts from the start of synthesize(); slowest and outcome are
   history: the longest attempt, and how the last one ended.                *)
Idle == [stage |-> "idle", key |-> None, attempt |-> 0, elapsed |-> 0,
         last_exc |-> None, slowest |-> 0, outcome |-> None]
NoAnswer == [kind |-> None, cause |-> None, audio |-> NoAudio, request |-> Idle]

EdgeInit == /\ Init
            /\ budget \in Budgets
            /\ request = Idle
            /\ answer = NoAnswer

-----------------------------------------------------------------------------
(* `min(2 ** (attempt - 1), 8)` *)
Backoff_Late(attempt) == Min({2 ^ attempt, 8})
Backoff(attempt) == IF attempt > 3 THEN 8 ELSE 2 ^ (attempt - 1)

Answered(r, kind, cause, audio) ==
    /\ request' = Idle
    /\ answer' = [kind |-> kind, cause |-> cause, audio |-> audio, request |-> r]

GoesOn(r) == request' = r /\ answer' = NoAnswer

(* CachedAudio of a recording, as MP3 or through ffmpeg and normalize_wav();
   ffmpeg cannot seek back in its pipe to fill in the sizes.                 *)
FfmpegWav(list, pcm) ==
    LET data == IF list = 0 THEN 36 ELSE 36 + 8 + list + (list % 2)
    IN  [riff |-> TRUE, declared |-> Wav!Placeholder, length |-> data + 8 + pcm,
         chunks |-> [p \in {12, 36, data} |->
                        IF p = 12 THEN [id |-> "fmt", size |-> 16]
                        ELSE IF p = data THEN [id |-> "data", size |-> Wav!Placeholder]
                        ELSE [id |-> "LIST", size |-> list]]]

AsMp3(m) == [of |-> m, wav |-> NoAudio, ms |-> Mp3!DurationMs(Recordings[m].file)]
AsWav(m, list) ==
    [AsMp3(m) EXCEPT !.wav = Wav!NormalizeWav(FfmpegWav(list, Recordings[m].pcm))]

(* WAV goes through ffmpeg.  A key that asks for MP3 asks for the provider's own
   sample rate, and so for its bytes as they are.                              *)
Renderings(k) == IF k \in WantsWav
                 THEN {AsWav(m, list) : m \in Says[k], list \in Lists}
                 ELSE {AsMp3(m) : m \in Says[k]}

-----------------------------------------------------------------------------
(* create_speech() up to the first attempt.  Without any attempt synthesize()
   raises "no audio after retries".                                          *)
Ask(k) ==
    /\ request = Idle
    /\ Get(k)
    /\ LET r == [Idle EXCEPT !.stage = "trying", !.key = k, !.attempt = 1]
       IN  IF result' # NoAudio THEN Answered(r, "ok", None, result')
           ELSE IF budget < 1 THEN Answered([r EXCEPT !.attempt = 0], "failed", None, NoAudio)
           ELSE GoesOn(r)
    /\ UNCHANGED budget

(* An attempt ends with `outcome` after d seconds. *)
Ended(outcome, d) ==
    [request EXCEPT !.elapsed = @ + d, !.slowest = Max({@, d}), !.outcome = outcome]

InTime(d) == request.elapsed + d <= RequestTimeout

(* cache.put() and the answer; put() raises when max_entries is negative. *)
Delivered(r, audio) ==
    /\ Put(r.key, audio)
    /\ IF PutRaises THEN Answered(r, "server_error", None, NoAudio)
       ELSE Answered(r, "ok", None, audio)

(* Audio: synthesize() returns; MP3 is stored and answered at once. *)
Speaks ==
    /\ request.stage = "trying"
    /\ \E d \in Latencies : InTime(d) /\
          IF request.key \in WantsWav
          THEN /\ GoesOn([Ended("audio", d) EXCEPT !.stage = "rendering"])
               /\ UNCHANGED vars
          ELSE \E audio \in Renderings(request.key) : Delivered(Ended("audio", d), audio)
    /\ UNCHANGED budget

(* A TimeoutError of the last attempt is taken for the request's own. *)
Raised(r, exc) ==
    Answered(r, IF exc = "timeout" THEN "timed_out" ELSE "failed", exc, NoAudio)

(* last_exc after an empty body or a retried exception *)
LastExc_FirstKept(outcome) ==
    IF outcome = "empty" /\ request.last_exc # None THEN request.last_exc ELSE outcome
LastExc(outcome) == outcome

(* The exceptions that are retried: EdgeTTSException (NoAudioReceived),
   ConnectionError, OSError and ClientError; and the attempt's TimeoutError. *)
Retried == {"dropped", "timeout"}

(* No audio: an exception that is retried, one that is not, or an empty body. *)
Fails ==
    /\ request.stage = "trying"
    /\ \E outcome \in Retried \cup {"empty", "fatal"},
          d \in Latencies \cup {AttemptTimeout} :
          LET r == [Ended(outcome, d) EXCEPT !.last_exc = LastExc(outcome)]
          IN  /\ InTime(d)
              /\ d = AttemptTimeout => outcome = "timeout"
              /\ IF outcome \notin Retried \cup {"empty"} THEN Raised(r, outcome)
                 ELSE IF request.attempt >= budget THEN Raised(r, r.last_exc)
                 ELSE GoesOn([r EXCEPT !.stage = "pausing"])
    /\ UNCHANGED <<vars, budget>>

TriesAgain ==
    /\ request.stage = "pausing"
    /\ InTime(Backoff(request.attempt))
    /\ GoesOn([request EXCEPT !.stage = "trying", !.attempt = @ + 1,
                              !.elapsed = @ + Backoff(request.attempt)])
    /\ UNCHANGED <<vars, budget>>

(* wait_for(_drain_synthesis()) gives up in an attempt or a pause that would
   last that long; the cancellation is no exception that is retried.        *)
CutShort ==
    LET left == RequestTimeout - request.elapsed
    IN  \/ /\ request.stage = "trying" /\ left <= AttemptTimeout
           /\ Answered(Ended("cut", left), "timed_out", None, NoAudio)
           /\ UNCHANGED <<vars, budget>>
        \/ /\ request.stage = "pausing" /\ left <= Backoff(request.attempt)
           /\ Answered([request EXCEPT !.elapsed = RequestTimeout],
                       "timed_out", None, NoAudio)
           /\ UNCHANGED <<vars, budget>>

(* _maybe_transcode() and cache.put() *)
Transcoded ==
    /\ request.stage = "rendering"
    /\ \E audio \in Renderings(request.key) : Delivered(request, audio)
    /\ UNCHANGED budget

TranscodeFails ==
    /\ request.stage = "rendering"
    /\ Answered(request, "transcode_failed", None, NoAudio)
    /\ UNCHANGED <<vars, budget>>

(* Other requests on the same cache *)
Others ==
    /\ \/ \E k \in Keys : Get(k)
       \/ \E k \in Keys : \E audio \in Renderings(k) : Put(k, audio)
       \/ Clear
    /\ UNCHANGED <<budget, edge_vars>>

EdgeNext == \/ \E k \in Keys : Ask(k)
            \/ Speaks \/ Fails \/ TriesAgain \/ CutShort
            \/ Transcoded \/ TranscodeFails
            \/ Others

EdgeSpec == EdgeInit /\ [][EdgeNext]_all_vars

-----------------------------------------------------------------------------
(* The seconds spent pausing before the n-th attempt, in all *)
Pauses(n) == IF n > 4 THEN 7 + 8 * (n - 4) ELSE 2 ^ (n - 1) - 1

(* A request is given up by its timeout only if one of its attempts was slower
   than a budget of equal ones could afford beside the pauses; and, if there is
   time for it, not before a silent first attempt was followed by a second.   *)
TimeoutNeedsSlowAttempt ==
    LET r == answer.request
    IN  answer.kind = "timed_out" /\ r.elapsed = RequestTimeout =>
            /\ budget * r.slowest + Pauses(budget) >= RequestTimeout
            /\ AttemptTimeout + 1 < RequestTimeout => r.attempt >= 2

(* A request that fails before its timeout has failed as often as max_attempts
   allows, none if that is not positive, or with an error that is not retried;
   and the error it reports is the one of its last attempt.                   *)
FailureUsesBudget ==
    LET r == answer.request
    IN  /\ answer.kind \in {"failed", "timed_out"} /\ r.elapsed < RequestTimeout
              => r.outcome = "fatal" \/ r.attempt = IF budget < 1 THEN 0 ELSE budget
        /\ answer.kind = "failed" => answer.cause = r.outcome

(* X-Duration-Ms is how long the audio answered plays, whether it comes from the
   service or the cache and whatever tags surround the frames; 0 for a file in
   which the parser loses the frames.                                         *)
DurationTrue ==
    answer.kind = "ok" => answer.audio.ms = Recordings[answer.audio.of].ms

(* A strict reader of a WAV that is answered finds format and samples, all of
   them and nothing else, and computes the duration the header announces.     *)
WavReadable ==
    answer.kind = "ok" /\ answer.request.key \in WantsWav =>
        LET f == answer.audio.wav
        IN  /\ Wav!Parses(f)
            /\ f.declared = f.length - 8
            /\ Wav!DataSize(f) = Recordings[answer.audio.of].pcm
            /\ Wav!DurationMs(f, 24000) = answer.audio.ms
            /\ Wav!NormalizeWav(f) = f
=============================================================================
