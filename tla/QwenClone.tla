----------------------------- MODULE QwenClone -----------------------------
(***************************************************************************)
(* Which recording a Qwen voice is cloned from, and with which transcript. *)
(* Four places read the catalogue of reference clips: the provider lists   *)
(* its voices (providers/qwen.py), the reference store resolves their ids  *)
(* (core/refs.py), the provider words its request to the worker, and the   *)
(* worker (sidecars/qwen_worker.py) fills in what was left out.            *)
(*                                                                         *)
(* A clip is named by its stem, <<lang>> or <<lang, name>> in lower case;  *)
(* an id by what follows "ref:", cut at its first hyphen.  Several files   *)
(* of one stem are the same recording.                                     *)
(***************************************************************************)
EXTENDS Sequences, SequencesExt, TLC

CONSTANTS
    Catalog,     \* files of the catalogue: [stem, ext]
    Sidecars,    \* stem -> ref_text, where <stem>.json has one
    Uploads,     \* ids of uploaded clips
    Lower,       \* str.lower() on the primary subtags that requests use
    None

(* providers/qwen_constants.py *)
QwenLanguages == {"en", "de", "fr", "it", "es", "ru", "ja", "ko", "zh", "pt"}
LangMap == [l \in QwenLanguages |->
                CASE l = "en" -> "English" [] l = "de" -> "German"
                  [] l = "fr" -> "French"  [] l = "es" -> "Spanish"
                  [] l = "ru" -> "Russian" [] l = "ja" -> "Japanese"
                  [] l = "ko" -> "Korean"  [] l = "zh" -> "Chinese"
                  [] l = "pt" -> "Portuguese" [] l = "it" -> "Italian"]
RefTexts == "en" :> "Hello, my name is your English teacher."

RefExts == {".wav", ".mp3"}
Listable == {f.stem : f \in {g \in Catalog : g.ext \in RefExts}}

-----------------------------------------------------------------------------
VoiceId(stem) == IF Len(stem) = 1 THEN Append(stem, "default") ELSE stem

(* VoiceInfo.metadata["ref_text"] *)
CatalogText(stem) ==
    IF stem \in DOMAIN Sidecars THEN Sidecars[stem]
    ELSE IF Len(stem) = 1 /\ stem[1] \in DOMAIN RefTexts THEN RefTexts[stem[1]]
    ELSE None

(* The list is sorted by stem, of which <<l>> precedes <<l, "default">>: no other
   two have one id.                                                            *)
ScanVoices == {[id |-> VoiceId(stem), place |-> Len(stem), ref_text |-> CatalogText(stem),
                accepts_voice_id |-> FALSE, accepts_clone_ref |-> TRUE] :
                   stem \in {s \in Listable : s[1] \in QwenLanguages}}

Capabilities == [voices |-> ScanVoices, supports_voice_id |-> FALSE,
                 supports_voice_cloning |-> TRUE]

(* RefStore.resolve(): a clip of the catalogue, or an upload *)
Resolve(id) ==
    LET stem == IF Last(id) = "default" THEN Front(id) ELSE id
    IN  IF Len(id) = 1 THEN IF id \in Uploads THEN id ELSE None
        ELSE IF stem \in {f.stem : f \in Catalog} THEN stem ELSE None

-----------------------------------------------------------------------------
(* The JSON that QwenProvider.synthesize() posts; an absent field is None. *)
Payload(request) ==
    [text      |-> request.text,
     language  |-> IF request.language = <<>> THEN <<"auto">> ELSE request.language,
     ref_audio |-> IF request.voice_kind = "clone_ref" THEN request.voice ELSE None,
     ref_text  |-> request.ref_text]

(* _ref_audio_cache of a worker *)
DefaultClip(primary) ==
    IF primary \in DOMAIN LangMap /\ <<primary>> \in Listable THEN <<primary>> ELSE None

SynthesizeText_BuiltinForAny(payload) ==
    LET primary == Lower[Head(payload.language)]
        clip    == IF payload.ref_audio # None THEN payload.ref_audio
                   ELSE DefaultClip(primary)
        said    == IF payload.ref_text # None THEN payload.ref_text
                   ELSE IF primary \in DOMAIN RefTexts THEN RefTexts[primary]
                   ELSE None
    IN  IF primary \notin DOMAIN LangMap \/ clip = None \/ said = None THEN None
        ELSE [text |-> payload.text, language |-> LangMap[primary],
              ref_audio |-> clip, ref_text |-> said]

(* What generate_voice_clone() is called with; None for HTTP 400 *)
SynthesizeText(payload) ==
    LET primary == Lower[Head(payload.language)]
        given   == payload.ref_audio # None
        clip    == IF given THEN payload.ref_audio ELSE DefaultClip(primary)
        said    == IF payload.ref_text # None THEN payload.ref_text
                   ELSE IF ~ given /\ primary \in DOMAIN RefTexts THEN RefTexts[primary]
                   ELSE None
    IN  IF primary \notin DOMAIN LangMap \/ clip = None \/ said = None THEN None
        ELSE [text |-> payload.text, language |-> LangMap[primary],
              ref_audio |-> clip, ref_text |-> said]
=============================================================================
