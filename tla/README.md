# tts-server in TLA+

A verification project for tts-server, a FastAPI service that puts one HTTP API
in front of several text-to-speech providers. The modules in this directory
model its core logic, TLC checks them on small instances, and TLAPS proves for
every instance all of the safety properties that TLC finds to hold, among them that
the concurrency controller and the speech endpoint implement their abstract
specifications. Paths below are relative to `src/src/tts_server/`.

## 1. The system

One Python process, one asyncio event loop. Between two `await`s a coroutine
runs alone, so a step of a model is the code between two suspensions. Real
parallelism exists in three places only: threads of `asyncio.to_thread`
(StyleTTS2), child processes (the Qwen sidecar, ffmpeg), and the crash of the
server itself, which interrupts a step and keeps the files.

| Part | State it keeps | Operations | What makes it correct |
|---|---|---|---|
| Concurrency controller, `core/concurrency.py` | a semaphore, `_pending` | `acquire(max_queue_depth)`, `release`, `async with`, `queue_depth`, `in_flight` | no slot, count or wake-up is lost in a cancellation; never more than limit + queue bound inside; first in, first out |
| Synthesis cache, `core/cache.py` | an `OrderedDict` | `make_key`, `get`, `put`, `clear` | holds exactly the keys used last, each with the audio stored last |
| Provider registry, `core/registry.py` | `_entries`, per entry `loaded`, `load_error`, `load_lock` | `startup`, `shutdown`, `get`, `ensure_loaded`, `readiness` | a provider is loaded once; required providers stop the start; every provider is terminated |
| Speech endpoint, `api/speech.py` | one coroutine per request | `create_speech` | every request is answered, with its own audio, and leaves no slot behind |
| Transcoder, `core/transcode.py` | an ffmpeg child per call | `transcode` | ends within its timeout; runs outside the gate |
| Qwen provider, `providers/qwen.py`, and worker, `sidecars/qwen_worker.py` | `_proc`, `_load_lock`; the sidecar process and its port | `load`, `synthesize` with self-healing, `teardown` | no sidecar escapes its handle; a dead one is replaced |
| StyleTTS2 provider, `providers/styletts2_uk.py` | `_model`, `_stressify`, `_voice_cache`; the voice files on disk | `load`, `synthesize`, both in threads; a voice is downloaded on first use | loaded means usable; one thread in the model; a voice file is complete |
| Edge provider, `providers/edge.py` | none | `synthesize` with retries, `probe_voice`; the duration of an MP3 | the attempts are used up before a request fails, and room is left for them; the duration announced is the one that plays |
| WAV helpers, `core/wav.py` | none | `normalize_wav`, `wav_duration_ms` | a strict reader finds all of the samples |
| Reference store, `core/refs.py`, `api/refs.py` | files in `upload_dir`, a sweep task | `store`, `resolve`, `sweep_once` | no torn clip, kept for the TTL, swept afterwards |
| Routing, `api/routing.py`; voices, `_resolve_voice` | none | pure | every request goes to a registered provider and a voice it accepts |
| Probing and catalogue, `core/probing.py`, `api/models.py` | `entry.voice_status` | background probe | status appears as a whole or not at all |
| Lifespan, `app.py` | two background tasks | startup, shutdown | tasks are stopped before providers |
| Auth, settings, errors, CLI | none | stateless | |

How they meet: `create_speech` resolves model and voice, looks the cache up,
calls `registry.ensure_loaded` (load lock) and `ConcurrencyController.acquire`
(gate), runs `provider.synthesize` under `wait_for`, releases the gate,
transcodes, and stores the result. The registry's shutdown calls each
provider's `terminate`. `/readyz` reads the registry.

What is hard here: cancellation by `wait_for` at any suspension, hand-over of
locks and semaphore units to tasks that have not run yet, values read before an
`await` and used after it, work that outlives the coroutine that asked for it,
processes found again by their port. `PROJECT.json` lists these hazards line by
line with the properties that would notice them.

## 2. The modules

A name with an underscore (`Release_NoSemaphore`, `MakeKey_NoVoice`) is never
part of a specification: it is the definition after it with one plausible bug,
kept to show that the property aimed at it can fail.

**ConcurrencyController**: one action per stretch of code between suspensions:
`Acquire` (refused, at once, or queued), `Resume` (the semaphore's woken waiter
runs), `Cancel` and `Unwind` (cancellation is requested, then the task unwinds),
`Release`. `waiters` and `value` are those of CPython 3.12's `asyncio.Semaphore`,
whose quirks matter: a newcomer waits behind a woken task although
a unit is free, and a cancelled woken task must pass its unit on. **AdmissionControl**
is what the class promises: a bounded first-in first-out waiting room, without
semaphore, counter or wake-ups: who is `serving`, who is in the `queue`, and which of
two in it arrived `ahead` of the other. The refinement reads the three off the
concrete state.

**CacheOps** has the cache's methods as operators on a sequence of entries, least
recent first; **SynthesisCache** has its calls as actions, and the audio stored last
as history.

**EdgeSpeech** extends it by one request to the edge provider, from the lookup to the
answer, while other requests use the cache: the loop of attempts (audio, an empty
body, an exception that is retried or one that is not, a timeout), the pauses between
them, the request timeout around all of it, ffmpeg and `normalize_wav` for WAV. Time is
the number of seconds since `synthesize` began; each step adds what it takes. Storing
may raise here as in SpeechEndpoint: the cache bound is a setting that nobody
validates.
**Mp3** is the duration parser over files given by where their frame headers are, tags
and junk included; **Wav** is `normalize_wav` and Python's reader over files given by
where their chunks are. A byte is never in the model, an offset always is: these two
functions are all about offsets. What a file plays is said apart from the parser:
a `track` lists its frames, each with its offset and the time at which it starts, and
`IsTrack` holds it against the file one frame at a time. Each recording brings its
track along.

**ProviderLoad**: `ensure_loaded` on one entry by many callers; the fast path, the
lock, the second check, `load()` that returns, raises, or is cut short by the
caller's timeout. A caller that is cancelled unwinds at once.

**SpeechEndpoint** composes the three: `INSTANCE CacheOps`, `INSTANCE ProviderLoad`,
`INSTANCE ConcurrencyController`, all with the requests as callers. Each action is
what `create_speech` does between two suspensions and joins the components'
actions, as it is proved to do (section 5): the step in which a load returns also enters the gate and, if a slot is
free, starts the synthesis. `jobs` is the work the provider still does; it
outlives a timed-out request unless `Cancellable`. The provider is a Qwen one.
**SpeechService** is what the endpoint promises, without cache, lock, gate or
provider: a request is away, `before` admission, `inside` or `after`; it gets one
answer, and for what it asked; a 200 carries one of its `Renderings`; it is let in
while fewer than `Capacity` are inside and turned away only when as many are; and each
error belongs to one of the places. The mapping reads the places off `pc`, and
`Renderings` are made of the audio of all answerable requests by the text, language,
clip, format and rate asked for (`MadeFor`), not by the cache key.

**QwenClone** is what happens to a voice on its way: the provider's scan of the
catalogue, the reference store's `resolve`, the JSON the proxy posts, and the worker's
`synthesize_text`. Each maps ids, files and transcripts by its own code;
SpeechEndpoint's answers say which clip was cloned with which transcript. `place` is
where a voice stands in the provider's list, which is sorted by stem; it matters
where two stems have one id, `en` and `en-default`. SpeechEndpoint assumes of the
catalogue what the naming of files gives: an id has one or two parts, and an upload's
has one and is no stem of the catalogue.

**Routing**: `resolve_model` and `_resolve_voice` as operators; an exception is `None`.
A language tag is the sequence of its subtags. SpeechEndpoint takes an instance of it
and sends each body through it, so a body carries what the client wrote ("auto", a
voice, a language) and the cache key what it was resolved to.

**ProviderRegistry**: the loop of `startup` one provider at a time, the outcomes of
lazy loads (`load_error` is `str(exc)`, which may be empty), the loop of
`shutdown`, and `Ready` for `/readyz`, of which nothing is claimed (section 3).

**Lifespan** drives it as `app.py` does, and is proved to take the registry only through steps of
its own specification: the registry's startup, the background probe
of every voice while the server serves (`VoiceAnswers`, or `VoiceFails` where the
provider raises or is too slow), the cancellation of that task, shutdown. `results` is the gather under way, one outcome per voice; `voice_status` is set
when the gather is complete. `Listed` is what `/v1/voices` shows.

**QwenSidecar**: callers inside `load()` and `_post_with_self_healing`, the handle
`_proc`, and any number of operating-system processes, of which one can serve the
port. Processes preload, bind the port or find it taken, serve, and may die at any
time. A sidecar of an earlier server may serve already (`foreign`). `dropped` is a
history variable: the live processes whose handle healing threw away. A probe of
`/health` may take a serving sidecar for a dead one, by answering late (`FoundDown`);
`misread` remembers that it happened.

**StyleTTS2**: coroutines and the threads they start. `thread[c]` goes on after
`stage[c]` was cut short. `model` and `stressify` are set by two different steps of
one thread, as in `_load_blocking`. `setbacks` is a history variable that says which
kinds of mishap have happened; each property names the kinds it does not survive.
The file of one voice is modelled as the file system sees it: `voice_file` and `part`
are names that refer to copies, a thread writes the copy it opened whatever it is
called by now, a download that fails unlinks in a step of its own (`Unlinked`) whatever
copy then has the name, and `Restart` kills every thread and keeps the files.

**RefStore**: `store` cut into its system calls, because a crash may fall between
them, the sweep with its timer and its failing unlinks, and files that survive
restarts. An upload whose target exists changes nothing and has no action.

**SequenceLemmas** and the modules that end in `_proofs`: section 5.

## 3. The runs

| Run | Instance | Shows |
|---|---|---|
| `controller` | 5 callers, one unbounded, 2 slots, 1 queue place, fair | conservation of units, exact count, bounded admission, no lost wake-up, exact reports, implements AdmissionControl, each waiter leaves the queue |
| `edge` | 3 keys, one asked for as WAV, cache of 2 entries, 5 recordings, 0 or 3 attempts | the cache's eviction order and last write; a timeout needs a slow attempt, a failure the whole budget, and it reports the last error; duration and WAV header tell the truth |
| `load` | 4 callers, fair | exclusive, never stranded lock; no reload; who goes on has a loaded provider, and who is refused has tried himself; each waiter answered |
| `speech` | 3 clients, 6 bodies, 1 slot, 1 queue place, cache of one entry, fair | the gate counts what the endpoint does; implements SpeechService: 503 exactly when full, own audio; no voice is cloned with the transcript of another, nor a named one with the built-in sentence; every request answered |
| `lifespan` | 5 configured ids: required, unknown, repeated, two with sidecars; a voice that is gone; fair | required ones stop the start; shutdown reaches all, after the probes; dead voices leave the list although probes fail; a shutdown completes although `terminate()` raises |
| `qwen` | 2 callers cut short anywhere, 3 process slots, fair, foreign sidecar possible | exclusive load lock, no orphan but a dropped handle's, no second spawn beside a live one unless a probe misread it, every call answered |
| `styletts2` | 3 requests, 1 slot, timeouts, restarts, failing loads, downloads and stressifier, fair | until which setback the model is built once, used by one thread, loaded means usable, and, one request at a time, the voice file is whole; calls answered always |
| `refs` | 2 clips, one with two extensions, TTL 2, sweep every 2, clock to 5 | atomic upload, kept, swept |

Type invariants (`TypeOK`) stand in the components' modules, or, where only the proofs
need one, there; `lifespan` runs the one that says something of the code, and all
of them are proved.

The runs that state liveness use `FairSpec` for their safety properties as well:
fairness removes no finite behaviour.

The bounds: the limit of the gate, the queue bound and the cache size enter only in
comparisons, so an instance with every side of each comparison occupied (slots
full, queue full, one more to refuse, one waiting behind a woken one) has the
interesting cases; five callers around two slots do. Three process slots let a
dropped sidecar, its successor and a terminated one coexist; dead slots are reused.
Five ticks let a clip be stored, expire, be swept and be stored again, and a leftover
of an interrupted upload outlive the TTL and one interval.

`edge` has the real timeouts, 60 s and 120 s, and latencies of 1, 38 and 58 s: quick, so
slow that three attempts and their pauses still just fit (3 * 38 + 3 = 117), and so
slow that the request timeout falls into the third attempt; 60 s itself is the
attempt's timeout, where it falls into the second. A budget of 0 is a configuration
the code accepts. The recordings have a frame header for every branch of the parser,
junk of exactly 1024 bytes and of one more, and the LIST chunks an even and an odd
size. `Wav!Placeholder`, 10^6, stands for 0xFFFFFFFF: all that matters is that it
exceeds every file. One voice file is enough for StyleTTS2, as voices share nothing, and
three threads can be at three different points of its download; ids of copies are
reused when nothing refers to them. The catalogue of `speech` has English's own clip,
with a sidecar, a named clip in two formats with another, and a clip in a language that
Qwen lacks. Its bodies are those between which audio and transcripts could be
exchanged: for the voice `en-default`; without a voice, which is the same clip with the
worker's own transcript; for an upload, with `ref_text` and without, which have one
cache key, so that the second is answered from the cache or refused by the worker. Two
more are rejected, for their route and for their length.

`CHECK_DEADLOCK FALSE` stands where the system stops for good: a crashed or stopped
server (`lifespan`, `qwen`), a clock at its bound (`refs`).

**Runs that end in a violation** each check one sentence of the documentation, a
comment or an assertion against the code:

| Run | The text | What the code does |
|---|---|---|
| `speech_ref_text` | `ref_text` "takes precedence" | the cache key leaves it out: another transcript, the same audio |
| `speech_orphans` | the semaphore enforces the concurrency cap | a timed-out job keeps running beside the next |
| `qwen_handle` | "Reap the dead subprocess handle" (`providers/qwen.py:469`) | a sidecar that still preloads for a healing request which was cut short is dropped alive by the next request that heals, and nothing terminates it later |
| `styletts2_stressifier` | `assert self._stressify is not None` | `_model` is published first and taken for the whole; one failure of the stressifier and every later synthesis fails |

Sentences that the modules also show to be read with care, without a run of their
own:

* "re-synthesizing the same text twice doesn't re-spend GPU minutes" (`README.md`):
  SpeechEndpoint has no second lookup after the wait, as the code has none, so two
  concurrent requests for one text synthesize twice.
* `idempotency_key` "bypasses the content hash" (`README.md`): `MakeKey` salts the
  key with it, and the same idempotency key with another text is a miss.
* "failure of a required provider -> /readyz 503" (`README.md`): `SkipUnknown` drops a
  misspelt required id, and `Ready` asks the registered entries only.
  `RequiredAreRegistered` is therefore stated for built-in ids. A required provider
  whose factory raises stops the server instead (`FactoryFails`).
* "503 if a required provider failed to load" (`README.md`): `load_error` outlives the
  retry that succeeds (`core/registry.py:183-189`, `LoadSucceeds`), so `/readyz` stays at
  503 beside a provider that serves. And `loaded` outlives the provider: a required
  sidecar that dies and cannot be started again is healed past `ensure_loaded`, and
  `/readyz` stays at 200. The documents speak of neither, so no property does.
* `describe()` and the `concurrency` option are read outside the `try` of
  `core/registry.py:113-128`: one that raises there stops the start, also for a provider
  that is not required (`DescribeFails`).
* "restarting the API server does not reload the model" (`providers/qwen.py`):
  `Shutdown` terminates the sidecar, so only one left by a crash is found again.
* "Uploads are kept for `refs.upload_ttl_hours`" (`README.md`): counted from the first
  upload; a second upload of the same clip does not renew the file's age.
* unavailable voices are flagged "instead of failing at synthesis" (`README.md`):
  `Listed` leaves them out, but `ResolveVoice` does not ask for the status, and the
  probe runs once: a request that names such a voice still fails in its synthesis.
* "null = use the provider's default voice" (`api/speech.py:82`): for Qwen the worker
  then clones `<lang>.mp3`, but with the built-in transcript even if `<lang>.json` has
  another one (`ref:<lang>-default` uses that), and in languages without a built-in
  transcript it refuses. `TranscriptOfVoice` therefore allows the built-in one where no
  voice is named.
* "List ref ids backed by audio files in the catalog directory" (`core/refs.py:79`): ids are made of
  lower-cased stems, and `resolve` looks for files in lower case, so on a
  case-sensitive file system `EN-Owen.mp3` is listed and never found; QwenClone takes
  stems to be in lower case.
* "keeps just `fmt ` and `data`" (`core/wav.py:45`): `Payload` is everything behind the
  header of `data`, so a chunk that follows it would be played. ffmpeg writes none
  there.
* Three attempts of 60 s (`providers/edge.py`) cannot be used up in 120 s: if the first
  two fall silent, the request times out in the second. `TimeoutNeedsSlowAttempt` says
  what does hold. If the last attempt of the budget ends by its own timeout, the
  client is told that the request timed out, though its time was not up.
* A voice file that was torn by two threads stays: it exists, so it is never
  downloaded again, and every synthesis with that voice fails until somebody deletes
  it. `VoiceFileWhole` excludes two threads only: a synthesis that was cut short leaves
  one behind, and a configured concurrency above 1 (`core/registry.py:131-139`) starts
  two that download the same voice, with no setback at all: `_ensure_voice_file` writes
  to one `.part` name for both.
* A load of StyleTTS2 that was cut short also lets a synthesis reach its assertions
  too early: this is why `LoadedIsUsable` excludes that setback.

## 4. Fairness

Weak fairness of a step that a ready coroutine takes: the event loop runs every
ready task. Weak fairness of the end of an awaited operation where the code bounds
it: load and synthesis by `wait_for(request_timeout_seconds)`, taken to be
positive, ffmpeg by 30 s, the sidecar's startup by its own deadline, a terminated
process by SIGKILL. Threads are run by the operating system. `StyleTTS2` uses
strong fairness for the gate, which stands for the first-in first-out order that
ConcurrencyController shows. Nothing is assumed of clients, of cancellations, or
of processes that hang or die. `WaiterLeavesQueue` assumes that a holder releases,
which is what SpeechEndpoint establishes for its requests.

## 5. Proofs

Every theorem holds for all values of its module's constants that satisfy the
assumptions named there: finite sets of callers, positive limits, numbers that are
integers, what section 2 says of names in the catalogue, and `RecordingsAssumption` of
EdgeSpeech: `ms` of a recording is what its frames play, read one by one, and what
ffmpeg makes of it is not empty and lasts as long. TLC evaluates each of them in a run. A theorem about a
property of section 3 states that very definition.

Each proof is one inductive invariant, a conjunction of named parts, and one step per
action; the parts are there because the property alone is not inductive:

* **ConcurrencyController_proofs** (the six invariants of `controller`). `Inv` is
  `TypeOK`, `SlotConservation`, `PendingExact`, `BoundedAdmission`, `WaitersAreSuspended`
  and `NoLostWakeup`. The last needs to know who is in the queue to see that a wake-up
  finds somebody; `BoundedAdmission` compares `_pending`, so it needs `PendingExact` to
  speak of callers; `SlotConservation` needs the queue's content to see that handing a
  unit on keeps the sum. `ReportsExact` follows. `KeepsThePromise` is the refinement:
  `RefuseRefines` to `ReleaseRefines` map each action to one of AdmissionControl's. A
  step that wakes waiters, some of whom were cancelled meanwhile, is where the order
  counts: `HandOnIsHandOver` shows that nobody is passed.
* **ProviderLoad_proofs** (`LockExclusive`, `NeverReloads`, `AnswersTruthful`).
  `LoadingIsUnloaded` has to be added: who loads does so while nobody else has.
* **QwenSidecar_proofs** (`LockExclusive`, `NoOrphan`, `SpawnsAlone`). `CallInv` says
  where callers are with respect to the lock and who has a process in mind; `ProcInv`
  says whose each process is: a foreign one serves and is never the handle's, and a
  dropped one is running. The halves meet only where a caller terminates or spawns.
* **EdgeSpeech_proofs**. `CacheInv(A)` says that the dictionary is the end of the history
  of uses, entry by entry, with the audio written last. It is stated for any set `A`
  of audio, so that the cache by itself (`Spec`) and the cache among the requests
  (`EdgeSpec`) share the proof. `WithinBudget` adds up the time of a request: at most
  its slowest attempt, times the attempts, plus their pauses. It gives
  `TimeoutNeedsSlowAttempt` and `FailureUsesBudget` for every budget and all timeouts.
  `AudioInv` says that all audio in the cache and the answer is a rendering for its key;
  `DurationTrue` and `WavReadable` are then statements about files. `WavRepaired`: the
  file written has two chunks, whatever ffmpeg's had before them. `Mp3Duration`: from
  frame i of a track the parser adds up what is left of it, by induction from the last
  frame back, and gives up where the track does. By `EveryFileHasTrack` no file escapes
  it, and a file that could be read as two tracks would play as long in both. The two
  parsers are recursive functions, which TLA+ defines by CHOOSE: that there is such a
  function is proved first.
* **StyleTTS2_proofs**. `StageInv`, `LoadInv`, `SlotInv` and `FieldsInv` say which thread
  works for whom until which setback, `CopiesInv` and `FileInv` what the file names
  refer to. An attempt to prove `VoiceFileWhole` for every concurrency got stuck in
  `OpenPart`, where a second thread empties the copy that the first is about to rename;
  TLC confirms it with two slots. The property therefore says `Limit = 1`, the default.
* **Lifespan_proofs** has the two things that `app.py` starts and ends. For the registry
  and the probes: `RequiredSoFar` (startup passes a required provider only by
  registering it), `StopsInOrder` (what is still to stop is the rest of the entries),
  `ProbeInv` (results belong to the entry being probed), and `DrivesTheRegistry`, a
  refinement without a mapping. For the reference store: `StoredIsYoung`, the file under
  a name is no older than the last upload, and `SweptLastTime`, how long ago the last
  sweep was, as seen from the next one. `Init`, `Next`, `Spec` and `vars` are the store's
  there.
* **SpeechEndpoint_proofs** composes. `UsesTheGate` and `UsesTheLoadLock` show that
  every step of the endpoint is a step of the gate's specification, and of the lock's,
  or leaves it alone; so all that is proved of the two holds in it, the refinement
  included (`EndpointAdmits`). `PlaceInv` ties a request's point in the handler to its
  places there, which gives `GateMatchesRequests`. `AnswerInv` says of the cache and the
  last answer that the audio is what a request with the same key would get;
  `FitsIsMadeFor` follows it through the provider's scan, the reference store and the
  worker to see that it is for what was asked. The three give `KeepsThePromise`: that
  SpeechService is implemented, action by action (`Responding` to `SynthesisServes`), the
  room it sees being the room that the gate's counter shows (`RoomIsTheGates`).

The same invariant gives what the answers are made of. `AnswersAreMadeForThem`: text,
language, clip, format and rate are those asked for. `TranscriptsStayWithVoices`: the
transcript is one of that voice's, and the built-in sentence only goes with a request
that names no voice. Both hold for every catalogue and set of bodies that section 2
allows. Neither says which of a voice's transcripts it is, and more is not true: `ref_text`
is not in the key (run `speech_ref_text`); without a voice the worker pairs a language's
own clip with its built-in text (`sidecars/qwen_worker.py:101-108`) although the catalogue
lists the sidecar's (`providers/qwen.py:190-198`); a clip `en-default.mp3` that is listed
lends its transcript to `en.ogg`, which is found by the same id and not listed.

`SequenceLemmas` has what the proofs need about queues and the library lacks: removing
an element from an injective sequence, appending to it, its tail, and the order of two
elements under each of them. It also has the induction over data that the parsers
need, in a form that takes sets instead of operators (the library's theorems take an
operator, which the provers at hand cannot instantiate): `NatSetInduction` is proved
from the finiteness of intervals, and `LeastOfNats`, `BackwardInduction` and
`ForwardRecursion` (a function defined by values further on exists) from it.

Model-checked only:

* liveness (`WaiterAnswered`, `EveryRequestAnswered`, `CallAnswered`, ...), which is beyond
  this prover, as is `ENABLED`;
* the runs that end in a violation.

A caution for whoever extends the proofs: the Zenon of this release accepts
`S \subseteq A \cap B` from `S \subseteq B` alone. No statement in the modules has that
form; write two conjuncts. Strings with a blank in them break the SMT translation.

## 6. What is not modelled

* The bytes: audio, text, HTTP headers, JSON envelopes. Audio is a record of what it
  was made from; MP3 and WAV files are offsets of frames and chunks.
* The content hash is injective. Speed is compared in the four decimals of the key.
* Cancellation of a request handler from outside: uvicorn does not cancel a handler
  when its client disconnects. The controller's own module has cancellation.
* QwenSidecar: a probe's answer is acted on at once, `terminate()` does not raise. A
  probe is not believed to find what is not there. A terminated process dies, also
  where a request is cut short while it waits for that and the SIGKILL that would
  follow is lost (`providers/qwen.py:369-381`); it counts as gone from its port, and as
  no longer running, from the signal on.
* QwenClone: the catalogue does not change while the server runs (the code scans it
  once, resolves live, and the worker caches its paths at its start); stems are in
  lower case, their language tag has two or three letters.
* EdgeSpeech: the choice of the voice, the speed as a percentage, `probe_voice`; the gate
  and the load lock, which is free for a provider that loads nothing, are
  SpeechEndpoint's. Pauses and attempts take whole seconds. MP3 at another sample rate
  than the provider's, which goes through ffmpeg as WAV does.
* StyleTTS2: what `_normalize_uk` and the number words make of a text.
* The ffmpeg child inside `transcode`: it is started, fed, waited for at most 30 s and
  killed within one call that nothing else cancels.
* RefStore: one server per directory, digests do not collide, `iterdir` does not fail.
* A second registration of one provider id forgets the first instance, which has
  no resources before its `load`.
* Lifespan: probes are a matter of the providers' `probe_voice`; the time they take is
  not in the model. The filters of `/v1/voices` only narrow `Listed`.
* Routing: `resolve()` of the reference store is a function, `RefPath`, that does not
  change between the lookup and the synthesis. An upload whose TTL ends between the two
  is unlinked before the provider reads it (`api/speech.py:369`); RefStore has the store's
  half, that nothing is unlinked earlier.
* The recordings of `Mp3`: the reference reads headers, junk and ends by the rules that
  the parser has (`Length`, `MaxJunk`, `AudioEnd`), so a rule that is wrong in both would
  not show.
* Not at all: the fake provider, auth, settings, command line.

## 7. Plan

1. The order of the sweep task, the probes and the registry in one shutdown.
2. Routing: that `ResolveVoice` accepts what `/v1/voices` lists, for every provider.
3. `probe_voice` of the Edge provider, with the catalogue it shortens.
