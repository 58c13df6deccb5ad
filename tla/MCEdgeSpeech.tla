---------------------------- MODULE MCEdgeSpeech ----------------------------
(* Three keys, one of them for WAV, around a cache of two entries, and files of
   every kind the duration parser knows: what the service sends today (24 kHz,
   48 kbit/s), frames of MPEG-1 with a tag before them whose last bytes look
   like a frame, a trailer that does too, junk at and above the limit.         *)
EXTENDS EdgeSpeech

CONSTANTS k1, k2, k3

ThreeKeys == {k1, k2, k3}
ForWav == {k3}

Frame == [version |-> 2, layer |-> 1, bitrate |-> 6, rate |-> 1, padding |-> 0]
Frame1 == [version |-> 3, layer |-> 1, bitrate |-> 9, rate |-> 1, padding |-> 0]
FalseSync == [Frame EXCEPT !.layer = 3]

File(length, headers) ==
    [length |-> length, id3v2 |-> -1, id3v1 |-> FALSE, headers |-> headers]

Plain == File(288, (0 :> Frame) @@ (144 :> Frame))
Tagged ==
    [File(1396, (205 :> FalseSync) @@ (210 :> Frame1)
                @@ (594 :> [Frame1 EXCEPT !.padding = 1])
                @@ (979 :> [Frame1 EXCEPT !.rate = 0]))
        EXCEPT !.id3v2 = 200]
Trailed ==
    [File(416, (0 :> Frame) @@ (144 :> Frame) @@ (340 :> FalseSync))
        EXCEPT !.id3v1 = TRUE]
Gap == File(1456, (0 :> Frame) @@ (1168 :> Frame) @@ (1312 :> Frame))
Lost == File(1457, (0 :> Frame) @@ (1169 :> Frame) @@ (1313 :> Frame))

(* Frames of 24 ms each: 338688 ticks *)
Track(offsets) == [i \in DOMAIN offsets |-> [at |-> offsets[i], starts |-> 338688 * (i - 1)]]

Files ==
    [plain   |-> [file |-> Plain,   track |-> Track(<<0, 144>>),        ms |-> 48, pcm |-> 2304],
     tagged  |-> [file |-> Tagged,  track |-> Track(<<210, 594, 979>>), ms |-> 74, pcm |-> 3558],
     trailed |-> [file |-> Trailed, track |-> Track(<<0, 144>>),        ms |-> 48, pcm |-> 2304],
     gap     |-> [file |-> Gap,     track |-> Track(<<0, 1168, 1312>>), ms |-> 72, pcm |-> 3456],
     lost    |-> [file |-> Lost,    track |-> Track(<<0>>),             ms |-> 0,  pcm |-> 3456]]

Spoken == (k1 :> {"plain", "tagged"}) @@ (k2 :> {"trailed", "lost"}) @@ (k3 :> {"plain", "gap"})
=============================================================================
