-------------------------- MODULE MCSpeechEndpoint --------------------------
(* Three requests in front of one slot and one queue place, so that the third
   is refused; bodies that miss, hit, transcode and are rejected: for English's own
   clip, which has a sidecar; without a voice, which is for the same clip, but with
   the worker's built-in text; and for an upload, once with a transcript and once
   without, under one cache key.                                                   *)
EXTENDS SpeechEndpoint

CONSTANTS r1, r2, r3

ThreeRequests == {r1, r2, r3}

Plain == [text |-> "hello", model |-> "m", voice |-> <<"en", "default">>,
          language |-> <<"EN", "us">>, speed |-> 100000, response_format |-> "wav",
          sample_rate |-> 24000, idempotency_key |-> "", ref_text |-> None]
Misrouted == [Plain EXCEPT !.model = "auto", !.language = <<"fr">>]
TooLong == [Plain EXCEPT !.text = "too long"]
Unvoiced == [Plain EXCEPT !.voice = None, !.response_format = "mp3"]
Unsaid == [Plain EXCEPT !.model = "auto", !.voice = <<"a1b2">>]
Said == [Unsaid EXCEPT !.ref_text = "spoken"]
OtherRefText == [Plain EXCEPT !.ref_text = "said"]

EveryKind == {Plain, Misrouted, TooLong, Unvoiced, Unsaid, Said}
OnePlain == {Plain}
TwoRefTexts == {Plain, OtherRefText}

(* French is routed to a provider that is not enabled. *)
OneProvider == {"m"}
RoutingTable == [en |-> "m", fr |-> "off"]
LowerCase == [EN |-> "en", fr |-> "fr", uk |-> "uk", auto |-> "auto"]

Clips == {[stem |-> <<"en">>, ext |-> ".mp3"], [stem |-> <<"en", "owen">>, ext |-> ".wav"],
          [stem |-> <<"en", "owen">>, ext |-> ".ogg"], [stem |-> <<"uk">>, ext |-> ".wav"]}
Transcripts == <<"en", "owen">> :> "sidecar" @@ <<"en">> :> "curated"
OneUpload == {<<"a1b2">>}
Ids == {<<"en", "owen">>, <<"en", "default">>, <<"a1b2">>}
NoLongTexts == {"too long"}
=============================================================================
