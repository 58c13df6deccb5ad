-------------------------------- MODULE Mp3 --------------------------------
(***************************************************************************)
(* _mp3_duration_ms() of providers/edge.py over MP3 files.  A file is its  *)
(* length, the size its ID3v2 tag declares (or NoTag), whether it ends     *)
(* with an ID3v1 trailer, and the frame headers a parser that lands on     *)
(* their offset sees; other bytes show no sync word.                       *)
(***************************************************************************)
EXTENDS Integers, Sequences, FiniteSetsExt

NoTag == -1
MaxJunk == 1024      \* bytes without a sync word before the parser gives up
Malformed == -1

(* Layer III by the 4-bit index; version 3 is MPEG-1, 2 MPEG-2, 0 MPEG-2.5 *)
Bitrates(version) ==
    IF version = 3
    THEN <<0, 32, 40, 48, 56, 64, 80, 96, 112, 128, 160, 192, 224, 256, 320, 0>>
    ELSE <<0, 8, 16, 24, 32, 40, 48, 56, 64, 80, 96, 112, 128, 144, 160, 0>>

SampleRates(version) == CASE version = 3 -> <<44100, 48000, 32000, 0>>
                          [] version = 2 -> <<22050, 24000, 16000, 0>>
                          [] OTHER       -> <<11025, 12000, 8000, 0>>

Bitrate(h) == Bitrates(h.version)[h.bitrate + 1]
Rate(h)    == SampleRates(h.version)[h.rate + 1]
Samples(h) == IF h.version = 3 THEN 1152 ELSE 576

(* "not Layer III, or reserved", free format, or a reserved rate *)
Undecodable(h) == h.layer # 1 \/ h.version = 1 \/ Bitrate(h) = 0 \/ Rate(h) = 0

FrameBytes(h) == (Samples(h) * Bitrate(h) * 1000) \div (8 * Rate(h)) + h.padding

(* Durations are summed exactly: one second is the least common multiple of the
   sample rates, and one millisecond a thousandth of it.                       *)
Second == 14112000
Length(h) == Samples(h) * (Second \div Rate(h))
ToMs(d) == (d + Second \div 2000) \div (Second \div 1000)

AudioStart_AtBody(f) == IF f.id3v2 = NoTag THEN 0 ELSE f.id3v2
AudioStart(f) == IF f.id3v2 = NoTag THEN 0 ELSE 10 + f.id3v2
AudioEnd(f)   == IF f.id3v1 THEN f.length - 128 ELSE f.length

(* The headers that a walk from p may come to *)
Ahead(f, p) == {q \in DOMAIN f.headers : q >= p /\ q + 4 <= AudioEnd(f)}

(* The walk from header to header, from any offset; a byte without sync is
   skipped.                                                                *)
WalkFrom(f) ==
    LET from[p \in Nat] ==
            IF Ahead(f, p) = {}
            THEN IF AudioEnd(f) - 3 - p > MaxJunk THEN Malformed ELSE 0
            ELSE LET q == Min(Ahead(f, p))
                     h == f.headers[q]
                     rest == from[q + FrameBytes(h)]
                 IN  IF q - p > MaxJunk \/ Undecodable(h) \/ rest = Malformed
                     THEN Malformed
                     ELSE Length(h) + rest
    IN  from

Walked(f) == WalkFrom(f)[AudioStart(f)]

DurationMs(f) == IF f.length < 4 \/ Walked(f) = Malformed THEN 0 ELSE ToMs(Walked(f))

-----------------------------------------------------------------------------
(* The reference: what a file plays, as a track of frames [at, starts], each at
   its offset and playing from its time.  A frame is the first header behind the
   one before it, or behind the tag, and at most MaxJunk bytes behind.        *)
Headers == [version : 0 .. 3, layer : 0 .. 3, bitrate : 0 .. 15, rate : 0 .. 3,
            padding : 0 .. 1]

IsFile(f) == /\ f.length \in Nat
             /\ f.id3v2 \in Nat \cup {NoTag}
             /\ f.id3v1 \in BOOLEAN /\ (f.id3v1 => f.length >= 128)
             /\ DOMAIN f.headers \subseteq Nat
             /\ \A q \in DOMAIN f.headers : f.headers[q] \in Headers

FrameAfter(f, p, q) == /\ q \in Ahead(f, p) /\ \A r \in Ahead(f, p) : q <= r
                       /\ q - p <= MaxJunk
                       /\ ~ Undecodable(f.headers[q])

(* Where i frames of a track end, and when. *)
Ends(f, track, i) == IF i = 0 THEN (IF f.id3v2 = NoTag THEN 0 ELSE 10 + f.id3v2)
                     ELSE track[i].at + FrameBytes(f.headers[track[i].at])
Played(f, track, i) == IF i = 0 THEN 0
                       ELSE track[i].starts + Length(f.headers[track[i].at])

IsTrack(f, track) ==
    /\ track \in Seq([at : Nat, starts : Nat])
    /\ \A i \in DOMAIN track : /\ FrameAfter(f, Ends(f, track, i - 1), track[i].at)
                               /\ track[i].starts = Played(f, track, i - 1)
    /\ \A q \in DOMAIN f.headers : ~ FrameAfter(f, Ends(f, track, Len(track)), q)

(* Nothing but a little junk is left behind the track. *)
Whole(f, track) ==
    LET p == Ends(f, track, Len(track))
    IN  Ahead(f, p) = {} /\ AudioEnd(f) - 3 - p <= MaxJunk

PlayingTime(f, track) ==
    IF Whole(f, track) THEN ToMs(Played(f, track, Len(track))) ELSE 0
=============================================================================
