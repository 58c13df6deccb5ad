-------------------------------- MODULE Wav --------------------------------
(***************************************************************************)
(* core/wav.py over WAV files.  A file is its length, whether it starts    *)
(* with RIFF....WAVE, the RIFF size it declares, and the chunks a parser   *)
(* that lands on their offset sees: [id, size], the size as declared.      *)
(* Bytes that no chunk starts at read as one of an unknown kind and an     *)
(* absurd size.                                                            *)
(***************************************************************************)
EXTENDS Integers, FiniteSetsExt

Placeholder == 1000000    \* 0xFFFFFFFF: more than any file here holds
NoChunk == -1

Chunk(f, p) == IF p \in DOMAIN f.chunks THEN f.chunks[p] ELSE [id |-> "?", size |-> Placeholder]

(* "WAV chunks pad to 2-byte alignment" *)
Padded_Not(p) == p
Padded(p) == p + (p % 2)

(* The loop over the chunks, from any offset: the offsets of the last `fmt `
   before the first `data`, and of that.                                     *)
WalkFrom(f) ==
    LET from[p \in Nat] ==
            IF p + 8 > f.length THEN [fmt |-> NoChunk, data |-> NoChunk]
            ELSE IF Chunk(f, p).id = "data" THEN [fmt |-> NoChunk, data |-> p]
            ELSE LET rest == from[Padded(p + 8 + Chunk(f, p).size)]
                 IN  IF Chunk(f, p).id = "fmt" /\ rest.fmt = NoChunk
                     THEN [fmt |-> p, data |-> rest.data]
                     ELSE rest
    IN  from

Walk(f) == WalkFrom(f)[12]

(* A slice of the file ends where the file ends. *)
Slice(f, p, size) == Min({size, f.length - p})

(* What is kept: the chunk `fmt ` with its header, and everything behind the
   header of `data`, whatever size that declares.                            *)
FmtBytes(f) == IF Walk(f).fmt = NoChunk THEN 0
               ELSE Slice(f, Walk(f).fmt, 8 + f.chunks[Walk(f).fmt].size)

Payload(f) == IF Walk(f).data = NoChunk THEN 0 ELSE f.length - (Walk(f).data + 8)

WavFile(fmt, payload) ==
    [riff |-> TRUE,
     declared |-> 4 + fmt + 8 + payload,
     length |-> 12 + fmt + 8 + payload,
     chunks |-> [p \in {12, 12 + fmt} |->
                    IF p = 12 THEN [id |-> "fmt", size |-> fmt - 8]
                    ELSE [id |-> "data", size |-> payload]]]

NormalizeWav(f) ==
    IF f.riff /\ f.length >= 12 /\ FmtBytes(f) # 0 /\ Payload(f) # 0
    THEN WavFile(FmtBytes(f), Payload(f))
    ELSE f

-----------------------------------------------------------------------------
(* Python's `wave`, which wav_duration_ms() and strict clients parse with: it
   sees no byte past the RIFF size, and takes the size of `data` as declared.  *)
Seen(f) == [f EXCEPT !.length = Slice(f, 0, 8 + f.declared)]
Parses(f) == f.riff /\ Walk(Seen(f)).fmt # NoChunk /\ Walk(Seen(f)).data # NoChunk
DataSize(f) == f.chunks[Walk(Seen(f)).data].size

(* Python's round(n / d): a tie goes to the even neighbour. *)
Rounded(n, d) ==
    LET q == n \div d
        r == 2 * (n % d)
    IN  IF r > d \/ (r = d /\ q % 2 = 1) THEN q + 1 ELSE q

(* wav_duration_ms() of 16-bit mono at `rate` Hz *)
Lasts(size, rate) == Rounded((size \div 2) * 1000, rate)
DurationMs(f, rate) == IF Parses(f) THEN Lasts(DataSize(f), rate) ELSE 0
=============================================================================
