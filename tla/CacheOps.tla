------------------------------ MODULE CacheOps ------------------------------
(***************************************************************************)
(* core/cache.py: what the methods of the synthesis cache compute.  The    *)
(* OrderedDict is a sequence of entries, the least recently used first.    *)
(***************************************************************************)
EXTENDS Integers, Sequences, SequencesExt

CONSTANTS
    Enabled,      \* settings.cache.enabled
    MaxEntries,   \* settings.cache.max_entries, an unchecked int
    NoAudio       \* what get() returns on a miss: None

ASSUME CacheAssumption == Enabled \in BOOLEAN /\ MaxEntries \in Int

(* speed in units of 10^-5: "%.4f" rounds to the nearest ten of them. *)
SpeedPart(speed) == (speed + 5) \div 10

(* make_key(): the hashed fields, and the salt.  The empty string stands for
   an absent voice or idempotency key, as in the code.                       *)
MakeKey_NoVoice(b) ==
    [content |-> <<b.text, b.model, b.language, SpeedPart(b.speed),
                   b.response_format, b.sample_rate>>,
     salt    |-> b.idempotency_key]

MakeKey(b) ==
    [content |-> <<b.text, b.model, b.voice, b.language, SpeedPart(b.speed),
                   b.response_format, b.sample_rate>>,
     salt    |-> b.idempotency_key]

Held(s) == {s[i].key : i \in DOMAIN s}

(* A dictionary holds a key once. *)
Place(s, k) == CHOOSE i \in DOMAIN s : s[i].key = k

AudioIn(s, k) == IF k \in Held(s) THEN s[Place(s, k)].audio ELSE NoAudio

Without(s, k) == IF k \in Held(s) THEN RemoveAt(s, Place(s, k)) ELSE s

MoveToEnd_Stays(s, k) == s
MoveToEnd(s, k) == Append(Without(s, k), [key |-> k, audio |-> AudioIn(s, k)])

(* get(): what is returned, and the dictionary afterwards *)
Lookup(s, k) == IF Enabled THEN AudioIn(s, k) ELSE NoAudio

AfterGet(s, k) == IF Lookup(s, k) = NoAudio THEN s ELSE MoveToEnd(s, k)

(* `while len > max_entries: popitem(last=False)` *)
Trimmed(s) ==
    IF Len(s) > MaxEntries THEN SubSeq(s, Len(s) - MaxEntries + 1, Len(s)) ELSE s

AfterPut_KeepsOld(s, k, a) ==
    IF k \in Held(s) THEN MoveToEnd(s, k)
    ELSE Trimmed(Append(s, [key |-> k, audio |-> a]))

AfterPut(s, k, a) ==
    IF Enabled THEN Trimmed(Append(Without(s, k), [key |-> k, audio |-> a])) ELSE s

(* With a negative bound the loop empties the dictionary and pops once more. *)
PutRaises == Enabled /\ MaxEntries < 0
=============================================================================
