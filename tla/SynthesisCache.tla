--------------------------- MODULE SynthesisCache ---------------------------
(***************************************************************************)
(* core/cache.py as an object of its own, driven by any sequence of calls. *)
(* Every method is synchronous, so a call is one step.  What the methods   *)
(* compute is in CacheOps, which SpeechEndpoint uses as well.              *)
(***************************************************************************)
EXTENDS CacheOps

CONSTANTS
    Keys,    \* cache keys, as make_key() returns them
    Audios   \* CachedAudio values

ASSUME AudiosAssumption == NoAudio \notin Audios

VARIABLES
    lru,       \* OrderedDict as a sequence of entries, least recent first
    result,    \* what the last call returned, or "KeyError"
    used,      \* history: every key put or hit since clear(), by last use
    written    \* history: the audio last put under each key since clear()

vars == <<lru, result, used, written>>

-----------------------------------------------------------------------------
Init == /\ lru = <<>>
        /\ result = NoAudio
        /\ used = <<>>
        /\ written = [k \in Keys |-> NoAudio]

Unused(k) == IF k \in Range(used)
             THEN RemoveAt(used, CHOOSE i \in DOMAIN used : used[i] = k)
             ELSE used

Use(k) == used' = Append(Unused(k), k)

Get(k) ==
    /\ result' = Lookup(lru, k)
    /\ lru' = AfterGet(lru, k)
    /\ IF result' = NoAudio THEN UNCHANGED used ELSE Use(k)
    /\ UNCHANGED written

Put(k, a) ==
    /\ lru' = AfterPut(lru, k, a)
    /\ result' = IF PutRaises THEN "KeyError" ELSE NoAudio
    /\ Use(k)
    /\ written' = [written EXCEPT ![k] = a]

Clear ==
    /\ lru' = <<>>
    /\ result' = NoAudio
    /\ used' = <<>>
    /\ written' = [k \in Keys |-> NoAudio]

Next == \/ \E k \in Keys : Get(k)
        \/ \E k \in Keys, a \in Audios : Put(k, a)
        \/ Clear

Spec == Init /\ [][Next]_vars

-----------------------------------------------------------------------------
(* The dictionary holds exactly the max_entries keys used last, in order of use,
   whatever sequence of puts, re-puts, hits and misses led here: a hit and a
   re-put both renew a key, a miss renews nothing.                            *)
HoldsMostRecent ==
    Enabled => [i \in DOMAIN lru |-> lru[i].key]
                 = IF Len(used) > MaxEntries
                   THEN SubSeq(used, Len(used) - MaxEntries + 1, Len(used))
                   ELSE used

(* A hit returns the audio last stored under the key, never an older one that a
   later put replaced or an eviction dropped.                                  *)
ServesLastWritten ==
    [][\A k \in Keys : Get(k) => result' \in {NoAudio, written[k]}]_vars
=============================================================================
