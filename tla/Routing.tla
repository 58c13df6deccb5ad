------------------------------ MODULE Routing ------------------------------
(***************************************************************************)
(* Which provider and which voice a request gets: resolve_model() of       *)
(* api/routing.py and _resolve_voice() of api/speech.py.  Both are pure;   *)
(* None stands for Python's None and for an exception.                     *)
(***************************************************************************)
EXTENDS Integers, Sequences

CONSTANTS
    Registered,   \* ids in the registry
    ByLanguage,   \* [routing.by_language]: primary subtag -> provider id
    Default,      \* routing.default, None when it is empty
    Lower,        \* str.lower() on the primary subtags that requests use
    RefVoices,    \* the voices that start with "ref:"
    RefPath,      \* RefStore.resolve(): those that have a file -> its path
    None

(* A BCP-47 tag is the sequence of its subtags, "" the empty one. *)
Primary(language) == IF language = <<>> THEN "" ELSE Lower[Head(language)]

Route(model, language) ==
    IF model \notin {"", "auto"} THEN model
    ELSE IF Primary(language) \in DOMAIN ByLanguage THEN ByLanguage[Primary(language)]
    ELSE Default

(* A route to a provider that is not registered is an error, also when the
   table names it: the default is not tried then.                           *)
ResolveModel(model, language) ==
    IF Route(model, language) \in Registered THEN Route(model, language) ELSE None

(* VoiceInfo.metadata["ref_text"] of the first clone voice of the catalog *)
SidecarText(voice, caps) ==
    LET known == {v \in caps.voices : v.id = voice /\ v.accepts_clone_ref}
        First(v) == \A w \in known : v.place <= w.place
    IN  IF known = {} THEN None ELSE (CHOOSE v \in known : First(v)).ref_text

ResolveVoice(voice, caps) ==
    IF voice = None
    THEN [id |-> None, kind |-> "none", ref_text |-> None]
    ELSE IF voice \in RefVoices
    THEN IF caps.supports_voice_cloning /\ voice \in DOMAIN RefPath
         THEN [id |-> RefPath[voice], kind |-> "clone_ref",
               ref_text |-> SidecarText(voice, caps)]
         ELSE None
    ELSE IF caps.supports_voice_id
            /\ \E v \in caps.voices : v.id = voice /\ v.accepts_voice_id
    THEN [id |-> voice, kind |-> "id", ref_text |-> None]
    ELSE None
=============================================================================
