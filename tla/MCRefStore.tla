----------------------------- MODULE MCRefStore -----------------------------
(* One clip uploaded as .wav and as .mp3 and another one, a TTL of two ticks, a
   sweep every two, five ticks in all.                                         *)
EXTENDS RefStore

CONSTANTS c1, c2

Clips == {[content |-> c1, ext |-> "wav"], [content |-> c1, ext |-> "mp3"],
          [content |-> c2, ext |-> "wav"]}
=============================================================================
