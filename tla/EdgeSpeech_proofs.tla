-------------------------- MODULE EdgeSpeech_proofs --------------------------
(***************************************************************************)
(* The synthesis cache keeps its promises for every set of keys, every     *)
(* bound, and whichever audio is stored: as an object of its own, and      *)
(* shared by the requests of EdgeSpeech.  A request fails or times out     *)
(* only when its attempts account for it; an answer says truly how long it *)
(* plays and, as WAV, where its samples are, for every MP3 file and every  *)
(* output of ffmpeg.                                                       *)
(***************************************************************************)
EXTENDS EdgeSpeech, SequenceLemmas, SequenceTheorems, TLAPS

Entries(A) == [key : Keys, audio : A]

(* How many of n keys the dictionary keeps. *)
Kept(n) == IF n > MaxEntries THEN (IF MaxEntries < 0 THEN 0 ELSE MaxEntries) ELSE n

(* The inductive invariant, for audio in A: the dictionary is the end of the
   history of uses, entry by entry, with the audio written last.             *)
CacheTyped(A) == /\ lru \in Seq(Entries(A))
                 /\ used \in Seq(Keys)
                 /\ IsInjective(used)
                 /\ written \in [Keys -> A \cup {NoAudio}]

EndOfUsed ==
    /\ Len(lru) = Kept(Len(used))
    /\ \A i \in DOMAIN lru : lru[i].key = used[Len(used) - Len(lru) + i]

AudioIsWritten == \A i \in DOMAIN lru : lru[i].audio = written[lru[i].key]

CacheInv(A) == CacheTyped(A) /\ (Enabled => EndOfUsed /\ AudioIsWritten)

-----------------------------------------------------------------------------
(* Moving an element to the end, as a sequence. *)
LEMMA MovedToEnd ==
    ASSUME NEW S, NEW s \in Seq(S), NEW i \in DOMAIN s, NEW e \in S
    PROVE  /\ Append(RemoveAt(s, i), e) \in Seq(S)
           /\ Len(Append(RemoveAt(s, i), e)) = Len(s)
           /\ \A j \in 1 .. Len(s) :
                 Append(RemoveAt(s, i), e)[j] = IF j = Len(s) THEN e
                                                ELSE IF j < i THEN s[j] ELSE s[j + 1]
<1> DEFINE r == RemoveAt(s, i)
<1>1. /\ r \in Seq(S)
      /\ DOMAIN r = 1 .. (Len(s) - 1)
      /\ \A j \in 1 .. (Len(s) - 1) : r[j] = IF j < i THEN s[j] ELSE s[j + 1]
  BY RemoveAtProperties
<1>2. Len(s) \in Nat /\ i \in 1 .. Len(s)
  OBVIOUS
<1> HIDE DEF r
<1>3. Len(r) = Len(s) - 1
  BY <1>1, <1>2
<1> SUFFICES /\ Append(r, e) \in Seq(S)
             /\ Len(Append(r, e)) = Len(s)
             /\ \A j \in 1 .. Len(s) : Append(r, e)[j] = IF j = Len(s) THEN e
                                                ELSE IF j < i THEN s[j] ELSE s[j + 1]
  BY DEF r
<1> QED
  BY <1>1, <1>2, <1>3

(* popitem(last=False) until the bound is kept *)
LEMMA TrimmedIsSuffix ==
    ASSUME NEW S, NEW s \in Seq(S)
    PROVE  /\ Trimmed(s) \in Seq(S)
           /\ Len(Trimmed(s)) = Kept(Len(s))
           /\ \A i \in 1 .. Kept(Len(s)) : Trimmed(s)[i] = s[Len(s) - Kept(Len(s)) + i]
<1>1. Len(s) \in Nat /\ MaxEntries \in Int
  BY CacheAssumption
<1>2. CASE Len(s) > MaxEntries /\ MaxEntries >= 0
  <2> DEFINE t == SubSeq(s, Len(s) - MaxEntries + 1, Len(s))
  <2>1. /\ t \in Seq(S) /\ Len(t) = MaxEntries
        /\ \A i \in 1 .. MaxEntries : t[i] = s[Len(s) - MaxEntries + i]
    BY <1>1, <1>2
  <2>2. Trimmed(s) = t
    BY <1>2 DEF Trimmed
  <2> QED
    BY <1>1, <1>2, <2>1, <2>2 DEF Kept
<1>3. CASE Len(s) > MaxEntries /\ MaxEntries < 0
  <2>1. SubSeq(s, Len(s) - MaxEntries + 1, Len(s)) = <<>>
    BY <1>1, <1>3
  <2> QED
    BY <1>1, <1>3, <2>1 DEF Trimmed, Kept
<1>4. CASE ~ (Len(s) > MaxEntries)
  BY <1>1, <1>4 DEF Trimmed, Kept
<1> QED
  BY <1>1, <1>2, <1>3, <1>4

(* The place of a key in the dictionary is its place in the history. *)
LEMMA SamePlace ==
    ASSUME NEW A, CacheInv(A), Enabled, NEW k \in Keys, k \in Held(lru)
    PROVE  /\ Place(lru, k) \in DOMAIN lru
           /\ lru[Place(lru, k)].key = k
           /\ k \in Range(used)
           /\ (CHOOSE i \in DOMAIN used : used[i] = k)
                = Len(used) - Len(lru) + Place(lru, k)
<1>1. Place(lru, k) \in DOMAIN lru /\ lru[Place(lru, k)].key = k
  BY DEF Held, Place
<1>2. /\ Len(lru) \in Nat /\ Len(used) \in Nat /\ DOMAIN lru = 1 .. Len(lru)
      /\ DOMAIN used = 1 .. Len(used)
      /\ Len(lru) <= Len(used)
  BY CacheAssumption DEF CacheInv, CacheTyped, EndOfUsed, Kept
<1> DEFINE p == Len(used) - Len(lru) + Place(lru, k)
<1>3. p \in DOMAIN used /\ used[p] = k
  BY <1>1, <1>2 DEF CacheInv, EndOfUsed
<1> QED
  BY <1>1, <1>3 DEF CacheInv, CacheTyped, IsInjective, Range

(* What Use does to the history. *)
LEMMA UseProperties ==
    ASSUME NEW A, CacheTyped(A), NEW k \in Keys, Use(k)
    PROVE  /\ used' \in Seq(Keys)
           /\ IsInjective(used')
           /\ Len(used') = IF k \in Range(used) THEN Len(used) ELSE Len(used) + 1
           /\ used'[Len(used')] = k
<1>1. CASE k \in Range(used)
  <2> DEFINE p == CHOOSE i \in DOMAIN used : used[i] = k
             r == RemoveAt(used, p)
  <2>1. p \in DOMAIN used /\ used[p] = k
    BY <1>1 DEF Range
  <2>2. used' = Append(r, k)
    BY <1>1 DEF Use, Unused
  <2> HIDE DEF p
  <2>3. r \in Seq(Keys) /\ IsInjective(r) /\ Range(r) = Range(used) \ {k}
    BY <2>1, QueueRemoveAt DEF CacheTyped
  <2>4. Len(r) = Len(used) - 1
    <3>1. DOMAIN r = 1 .. (Len(used) - 1) /\ Len(used) \in Nat /\ p \in 1 .. Len(used)
      BY <2>1, RemoveAtProperties DEF CacheTyped
    <3> HIDE DEF r
    <3> QED
      BY <2>3, <3>1
  <2> HIDE DEF r
  <2>5. Append(r, k) \in Seq(Keys) /\ IsInjective(Append(r, k))
    BY <2>3, QueueAppend
  <2> QED
    BY <1>1, <2>2, <2>3, <2>4, <2>5 DEF CacheTyped
<1>2. CASE k \notin Range(used)
  <2>1. used' = Append(used, k)
    BY <1>2 DEF Use, Unused
  <2>2. Append(used, k) \in Seq(Keys) /\ IsInjective(Append(used, k))
    BY <1>2, QueueAppend DEF CacheTyped
  <2> QED
    BY <1>2, <2>1, <2>2 DEF CacheTyped
<1> QED
  BY <1>1, <1>2

(* What an entry moved or added to the end leaves of the dictionary. *)
LEMMA PutEntries ==
    ASSUME NEW A, CacheInv(A), Enabled, NEW k \in Keys, NEW a \in A,
           lru' = AfterPut(lru, k, a), Use(k)
    PROVE  /\ lru' \in Seq(Entries(A))
           /\ EndOfUsed'
           /\ \A i \in DOMAIN lru' : \/ i < Len(lru') /\ \E j \in DOMAIN lru : lru'[i] = lru[j]
                                     \/ i = Len(lru') /\ lru'[i] = [key |-> k, audio |-> a]
<1> DEFINE n == Len(used)
           m == Len(lru)
           e == [key |-> k, audio |-> a]
           t == Append(Without(lru, k), e)
<1>1. /\ lru \in Seq(Entries(A)) /\ used \in Seq(Keys) /\ e \in Entries(A)
      /\ n \in Nat /\ m \in Nat /\ m = Kept(n) /\ MaxEntries \in Int
      /\ n = Len(used) /\ m = Len(lru) /\ e.key = k
      /\ DOMAIN lru = 1 .. m /\ DOMAIN used = 1 .. n
      /\ \A i \in 1 .. m : lru[i].key = used[n - m + i]
  <2>1. lru \in Seq(Entries(A)) /\ used \in Seq(Keys) /\ EndOfUsed /\ MaxEntries \in Int
    BY CacheAssumption DEF CacheInv, CacheTyped
  <2>2. e \in Entries(A)
    BY DEF Entries
  <2>3. n \in Nat /\ m \in Nat /\ DOMAIN lru = 1 .. m /\ DOMAIN used = 1 .. n
    BY <2>1
  <2> QED
    BY <2>1, <2>2, <2>3 DEF EndOfUsed
<1>2. lru' = Trimmed(t) /\ t = Append(Without(lru, k), e)
  BY DEF AfterPut
<1> HIDE DEF n, m, e, t
<1>3. CASE k \in Held(lru)
  <2> DEFINE j == Place(lru, k)
             p == CHOOSE i \in DOMAIN used : used[i] = k
  <2>1. /\ j \in DOMAIN lru /\ lru[j].key = k /\ k \in Range(used)
        /\ p = n - m + j
    BY <1>1, <1>3, SamePlace DEF n, m
  <2>2. p \in DOMAIN used
    BY <2>1 DEF Range
  <2>3. t = Append(RemoveAt(lru, j), e)
    BY <1>2, <1>3 DEF Without
  <2>4. used' = Append(RemoveAt(used, p), k)
    BY <2>1 DEF Use, Unused
  <2> HIDE DEF j, p
  <2>5. /\ t \in Seq(Entries(A))
        /\ Len(t) = m
        /\ \A i \in 1 .. m : t[i] = IF i = m THEN e ELSE IF i < j THEN lru[i] ELSE lru[i + 1]
    <3>1. /\ Append(RemoveAt(lru, j), e) \in Seq(Entries(A))
          /\ Len(Append(RemoveAt(lru, j), e)) = Len(lru)
          /\ \A i \in 1 .. Len(lru) :
                Append(RemoveAt(lru, j), e)[i]
                  = IF i = Len(lru) THEN e ELSE IF i < j THEN lru[i] ELSE lru[i + 1]
      <4>1. lru \in Seq(Entries(A)) /\ j \in DOMAIN lru /\ e \in Entries(A)
        BY <1>1, <2>1
      <4> QED
        BY <4>1, MovedToEnd
    <3> QED
      BY <1>1, <2>3, <3>1
  <2>6. /\ used' \in Seq(Keys)
        /\ Len(used') = n
        /\ \A i \in 1 .. n : used'[i] = IF i = n THEN k
                                        ELSE IF i < p THEN used[i] ELSE used[i + 1]
    <3>1. /\ Append(RemoveAt(used, p), k) \in Seq(Keys)
          /\ Len(Append(RemoveAt(used, p), k)) = Len(used)
          /\ \A i \in 1 .. Len(used) :
                Append(RemoveAt(used, p), k)[i]
                  = IF i = Len(used) THEN k ELSE IF i < p THEN used[i] ELSE used[i + 1]
      <4>1. used \in Seq(Keys) /\ p \in DOMAIN used /\ k \in Keys
        BY <1>1, <2>2
      <4> QED
        BY <4>1, MovedToEnd
    <3> QED
      BY <1>1, <2>4, <3>1
  <2>7. Kept(m) = m
    BY <1>1 DEF Kept
  <2>8. /\ lru' \in Seq(Entries(A)) /\ Len(lru') = m
        /\ \A i \in 1 .. m : lru'[i] = t[i]
    <3>1. /\ Trimmed(t) \in Seq(Entries(A)) /\ Len(Trimmed(t)) = m
          /\ \A i \in 1 .. m : Trimmed(t)[i] = t[m - m + i]
      BY <2>5, <2>7, TrimmedIsSuffix
    <3>2. \A i \in 1 .. m : m - m + i = i
      BY <1>1
    <3> QED
      BY <1>2, <3>1, <3>2
  <2>9. DOMAIN lru' = 1 .. m
    BY <2>8
  <2>10. \A i \in 1 .. m : lru'[i].key = used'[n - m + i]
    <3> SUFFICES ASSUME NEW i \in 1 .. m PROVE lru'[i].key = used'[n - m + i]
      OBVIOUS
    <3>1. n - m + i \in 1 .. n /\ m <= n
      BY <1>1 DEF Kept
    <3>2. CASE i = m
      BY <1>1, <2>5, <2>6, <2>8, <3>1, <3>2 DEF e
    <3>3. CASE i < j /\ i # m
      BY <1>1, <2>1, <2>5, <2>6, <2>8, <3>1, <3>3
    <3>4. CASE ~ (i < j) /\ i # m
      <4>1. i + 1 \in 1 .. m /\ ~ (n - m + i < p) /\ n - m + i # n
            /\ n - m + i + 1 = n - m + (i + 1)
        BY <1>1, <2>1, <3>1, <3>4
      <4>2. lru'[i] = lru[i + 1] /\ used'[n - m + i] = used[n - m + i + 1]
        BY <2>5, <2>6, <2>8, <3>1, <3>4, <4>1
      <4> QED
        BY <1>1, <4>1, <4>2
    <3> QED
      BY <3>2, <3>3, <3>4
  <2>11. EndOfUsed'
    BY <1>1, <2>6, <2>8, <2>9, <2>10 DEF EndOfUsed
  <2>12. \A i \in 1 .. m : \/ i < m /\ \E l \in 1 .. m : lru'[i] = lru[l]
                           \/ i = m /\ lru'[i] = e
    <3> SUFFICES ASSUME NEW i \in 1 .. m
                 PROVE  \/ i < m /\ \E l \in 1 .. m : lru'[i] = lru[l]
                        \/ i = m /\ lru'[i] = e
      OBVIOUS
    <3>1. lru'[i] = IF i = m THEN e ELSE IF i < j THEN lru[i] ELSE lru[i + 1]
      BY <2>5, <2>8
    <3>2. m \in Nat /\ i \in 1 .. m /\ (i # m => i < m /\ i + 1 \in 1 .. m)
      BY <1>1
    <3> QED
      BY <3>1, <3>2
  <2> QED
    BY <1>1, <2>8, <2>9, <2>11, <2>12 DEF e
<1>4. CASE k \notin Held(lru)
  <2> DEFINE q == Kept(m + 1)
             l == Len(used')
  <2>1. t = Append(lru, e)
    BY <1>2, <1>4 DEF Without
  <2>2. /\ t \in Seq(Entries(A)) /\ Len(t) = m + 1
        /\ \A i \in 1 .. m : t[i] = lru[i]
        /\ t[m + 1] = e
    BY <1>1, <2>1
  <2>3. /\ l = n + 1 \/ (l = n /\ m < n)
        /\ l \in Nat
        /\ used'[l] = k
        /\ \A i \in 1 .. l : i < l /\ i > l - q => used'[i] = used[i + (n + 1 - l)]
    <3>1. CASE k \notin Range(used)
      <4>1. used' = Append(used, k)
        BY <3>1 DEF Use, Unused
      <4>2. used \in Seq(Keys) /\ Len(used) = n /\ n \in Nat
        BY <1>1
      <4>3. /\ Len(Append(used, k)) = n + 1
            /\ Append(used, k)[n + 1] = k
            /\ \A i \in 1 .. n : Append(used, k)[i] = used[i]
        BY <4>2
      <4>4. l = n + 1
        BY <4>1, <4>3
      <4> HIDE DEF l
      <4>5. \A i \in 1 .. l : i < l => i \in 1 .. n /\ i + (n + 1 - l) = i
        BY <4>2, <4>4
      <4> QED
        BY <4>1, <4>2, <4>3, <4>4, <4>5
    <3>2. CASE k \in Range(used)
      <4> DEFINE p == CHOOSE i \in DOMAIN used : used[i] = k
      <4>1. p \in 1 .. n /\ used[p] = k
        BY <1>1, <3>2 DEF Range
      <4>2. used' = Append(RemoveAt(used, p), k)
        BY <3>2 DEF Use, Unused
      <4> HIDE DEF p
      <4>3. p <= n - m
        <5> SUFFICES ASSUME p > n - m PROVE FALSE
          BY <1>1, <4>1
        <5>1. p - (n - m) \in 1 .. m /\ n - m + (p - (n - m)) = p
          <6>1. n \in Nat /\ m \in Nat /\ p \in 1 .. n
            BY <1>1, <4>1
          <6> QED
            BY <6>1
        <5>2. lru[p - (n - m)].key = k
          BY <1>1, <4>1, <5>1
        <5> QED
          BY <1>1, <1>4, <5>1, <5>2 DEF Held
      <4>4. /\ Len(used') = n
            /\ \A i \in 1 .. n : used'[i] = IF i = n THEN k
                                            ELSE IF i < p THEN used[i] ELSE used[i + 1]
        <5>1. /\ Len(Append(RemoveAt(used, p), k)) = Len(used)
              /\ \A i \in 1 .. Len(used) :
                    Append(RemoveAt(used, p), k)[i]
                      = IF i = Len(used) THEN k ELSE IF i < p THEN used[i] ELSE used[i + 1]
          <6>1. used \in Seq(Keys) /\ p \in DOMAIN used /\ k \in Keys
            BY <1>1, <4>1
          <6> QED
            BY <6>1, MovedToEnd
        <5> QED
          BY <1>1, <4>2, <5>1
      <4>5. m < n /\ q = m
        BY <1>1, <4>1, <4>3 DEF Kept
      <4> HIDE DEF q
      <4> QED
        BY <1>1, <4>1, <4>3, <4>4, <4>5
    <3> QED
      BY <3>1, <3>2
  <2> HIDE DEF l
  <2>4. q \in 0 .. (m + 1) /\ q = Kept(l) /\ q <= l
    BY <1>1, <2>3 DEF Kept
  <2>5. /\ lru' \in Seq(Entries(A)) /\ Len(lru') = q
        /\ \A i \in 1 .. q : lru'[i] = t[m + 1 - q + i]
    <3>1. /\ Trimmed(t) \in Seq(Entries(A)) /\ Len(Trimmed(t)) = Kept(Len(t))
          /\ \A i \in 1 .. Kept(Len(t)) : Trimmed(t)[i] = t[Len(t) - Kept(Len(t)) + i]
      BY <2>2, TrimmedIsSuffix
    <3>2. Len(t) = m + 1 /\ Kept(Len(t)) = q /\ q \in Nat /\ m \in Nat
      BY <1>1, <2>2, <2>4
    <3> HIDE DEF q
    <3> DEFINE u == Trimmed(t)
    <3>3. u \in Seq(Entries(A)) /\ Len(u) = q /\ \A i \in 1 .. q : u[i] = t[m + 1 - q + i]
      BY <3>1, <3>2
    <3> HIDE DEF u
    <3>4. lru' = u
      BY <1>2 DEF u
    <3> QED
      BY <3>3, <3>4
  <2> HIDE DEF q
  <2>6. DOMAIN lru' = 1 .. q
    BY <2>4, <2>5
  <2>7. ASSUME NEW i \in 1 .. q, i # q
        PROVE  /\ m + 1 - q + i \in 1 .. m
               /\ lru'[i] = lru[m + 1 - q + i]
    <3>1. m + 1 - q + i \in 1 .. m
      BY <1>1, <2>4, <2>7
    <3> QED
      BY <2>2, <2>5, <3>1
  <2>8. ASSUME NEW i \in 1 .. q, i = q
        PROVE  lru'[i] = e
    <3>1. m + 1 - q + q = m + 1
      BY <1>1, <2>4
    <3> QED
      BY <2>2, <2>5, <2>8, <3>1
  <2>9. \A i \in 1 .. q : lru'[i].key = used'[l - q + i]
    <3> SUFFICES ASSUME NEW i \in 1 .. q PROVE lru'[i].key = used'[l - q + i]
      OBVIOUS
    <3>1. CASE i = q
      <4>1. l - q + q = l
        BY <2>3, <2>4
      <4> QED
        BY <2>3, <2>8, <3>1, <4>1 DEF e
    <3>2. CASE i # q
      <4>1. lru'[i].key = used[n - m + (m + 1 - q + i)]
        BY <1>1, <2>7, <3>2
      <4>2. l - q + i \in 1 .. l /\ l - q + i < l /\ l - q + i > l - q
        BY <2>3, <2>4, <3>2
      <4>3. used'[l - q + i] = used[l - q + i + (n + 1 - l)]
        BY <2>3, <4>2
      <4>4. l - q + i + (n + 1 - l) = n - m + (m + 1 - q + i)
        BY <1>1, <2>3, <2>4
      <4> QED
        BY <4>1, <4>3, <4>4
    <3> QED
      BY <3>1, <3>2
  <2>10. EndOfUsed'
    BY <2>4, <2>5, <2>6, <2>9 DEF EndOfUsed, l
  <2>11. \A i \in 1 .. q : \/ i < q /\ \E j \in 1 .. m : lru'[i] = lru[j]
                           \/ i = q /\ lru'[i] = e
    BY <2>4, <2>7, <2>8
  <2> QED
    BY <1>1, <2>5, <2>6, <2>10, <2>11 DEF e
<1> QED
  BY <1>3, <1>4

(* An entry stored under a key, or renewed with the audio it has. *)
LEMMA StoringInv ==
    ASSUME NEW A, CacheInv(A), Enabled, NEW k \in Keys, NEW a \in A,
           lru' = AfterPut(lru, k, a), Use(k), written' = [written EXCEPT ![k] = a]
    PROVE  CacheInv(A)'
<1>1. /\ lru' \in Seq(Entries(A))
      /\ EndOfUsed'
      /\ \A i \in DOMAIN lru' : \/ i < Len(lru') /\ \E j \in DOMAIN lru : lru'[i] = lru[j]
                                \/ i = Len(lru') /\ lru'[i] = [key |-> k, audio |-> a]
  BY PutEntries
<1>2. used' \in Seq(Keys) /\ IsInjective(used') /\ used'[Len(used')] = k
  BY UseProperties DEF CacheInv
<1>3. written' \in [Keys -> A \cup {NoAudio}] /\ written'[k] = a
      /\ \A l \in Keys : l # k => written'[l] = written[l]
  BY DEF CacheInv, CacheTyped
<1>4. ASSUME NEW i \in DOMAIN lru' PROVE lru'[i].audio = written'[lru'[i].key]
  <2>1. CASE i = Len(lru') /\ lru'[i] = [key |-> k, audio |-> a]
    BY <1>3, <2>1
  <2>2. CASE i < Len(lru') /\ \E j \in DOMAIN lru : lru'[i] = lru[j]
    <3>1. PICK j \in DOMAIN lru : lru'[i] = lru[j]
      BY <2>2
    <3>2. lru[j].audio = written[lru[j].key] /\ lru[j].key \in Keys
      <4>1. lru \in Seq(Entries(A))
        BY DEF CacheInv, CacheTyped
      <4>2. lru[j] \in Entries(A)
        BY <4>1
      <4> QED
        BY <4>2 DEF CacheInv, AudioIsWritten, Entries
    <3>3. lru'[i].key # k
      <4> DEFINE n == Len(used')
                 m == Len(lru')
      <4>1. /\ lru'[i].key = used'[n - m + i] /\ m = Kept(n)
            /\ DOMAIN lru' = 1 .. m /\ DOMAIN used' = 1 .. n /\ n \in Nat /\ m \in Nat
            /\ MaxEntries \in Int
        BY <1>1, <1>2, CacheAssumption DEF EndOfUsed
      <4>2. i \in 1 .. m /\ i < m
        BY <2>2, <4>1
      <4>3. used'[n] = k
        BY <1>2
      <4> HIDE DEF n, m
      <4>4. n \in 1 .. n /\ n - m + i \in 1 .. n /\ n - m + i # n
        BY <4>1, <4>2 DEF Kept
      <4> QED
        BY <1>2, <4>1, <4>3, <4>4 DEF IsInjective
    <3> QED
      BY <1>3, <3>1, <3>2, <3>3
  <2> QED
    BY <1>1, <2>1, <2>2
<1> QED
  BY <1>1, <1>2, <1>3, <1>4 DEF CacheInv, CacheTyped, AudioIsWritten

(* When the cache is switched off nothing is ever found in it. *)
LEMMA PutInv ==
    ASSUME NEW A, CacheInv(A), NEW k \in Keys, NEW a \in A, Put(k, a)
    PROVE  CacheInv(A)'
<1>1. CASE Enabled
  BY <1>1, StoringInv DEF Put
<1>2. CASE ~ Enabled
  <2>1. used' \in Seq(Keys) /\ IsInjective(used')
    BY UseProperties DEF CacheInv, Put
  <2>2. lru' = lru
    BY <1>2 DEF Put, AfterPut
  <2>3. written' \in [Keys -> A \cup {NoAudio}]
    BY DEF CacheInv, CacheTyped, Put
  <2> QED
    BY <1>2, <2>1, <2>2, <2>3 DEF CacheInv, CacheTyped
<1> QED
  BY <1>1, <1>2

(* A hit returns the audio written last. *)
LEMMA HitIsWritten ==
    ASSUME NEW A, CacheInv(A), NEW k \in Keys, Lookup(lru, k) # NoAudio
    PROVE  /\ Enabled /\ k \in Held(lru)
           /\ AudioIn(lru, k) = written[k] /\ Lookup(lru, k) = written[k]
           /\ written[k] \in A
<1>1. Enabled /\ k \in Held(lru)
  BY DEF Lookup, AudioIn
<1>2. Place(lru, k) \in DOMAIN lru /\ lru[Place(lru, k)].key = k
  BY <1>1, SamePlace
<1>3. lru[Place(lru, k)].audio \in A
  <2>1. lru \in Seq(Entries(A))
    BY DEF CacheInv, CacheTyped
  <2>2. lru[Place(lru, k)] \in Entries(A)
    BY <1>2, <2>1
  <2> QED
    BY <2>2 DEF Entries
<1> QED
  BY <1>1, <1>2, <1>3 DEF CacheInv, AudioIsWritten, AudioIn, Lookup

LEMMA GetInv ==
    ASSUME NEW A, CacheInv(A), NEW k \in Keys, Get(k)
    PROVE  /\ CacheInv(A)'
           /\ result' \in {NoAudio, written[k]}
<1>1. CASE Lookup(lru, k) = NoAudio
  <2>1. lru' = lru /\ used' = used /\ written' = written /\ result' = NoAudio
    BY <1>1 DEF Get, AfterGet
  <2> QED
    BY <2>1 DEF CacheInv, CacheTyped, EndOfUsed, AudioIsWritten
<1>2. CASE Lookup(lru, k) # NoAudio
  <2>1. /\ Enabled /\ k \in Held(lru)
        /\ AudioIn(lru, k) = written[k] /\ Lookup(lru, k) = written[k]
        /\ written[k] \in A
    BY <1>2, HitIsWritten
  <2>2. /\ lru' = MoveToEnd(lru, k) /\ Use(k) /\ written' = written /\ result' = written[k]
    BY <1>2, <2>1 DEF Get, AfterGet
  <2> DEFINE e == [key |-> k, audio |-> written[k]]
             t == Append(Without(lru, k), e)
  <2>3. lru' = t
    BY <2>1, <2>2 DEF MoveToEnd
  <2>4. Trimmed(t) = t
    <3>1. Place(lru, k) \in DOMAIN lru
      BY <2>1, SamePlace
    <3>2. /\ lru \in Seq(Entries(A)) /\ Len(lru) = Kept(Len(used)) /\ e \in Entries(A)
          /\ Len(used) \in Nat
      BY <2>1 DEF CacheInv, CacheTyped, EndOfUsed, Entries
    <3>3. t = Append(RemoveAt(lru, Place(lru, k)), e)
      BY <2>1 DEF Without
    <3> HIDE DEF e
    <3>4. Len(Append(RemoveAt(lru, Place(lru, k)), e)) = Len(lru)
      BY <3>1, <3>2, MovedToEnd
    <3>5. Len(lru) \in Nat /\ Len(lru) >= 1
      BY <3>1, <3>2
    <3>6. ~ (Len(t) > MaxEntries)
      <4> HIDE DEF t
      <4> QED
        BY <3>2, <3>3, <3>4, <3>5, CacheAssumption DEF Kept
    <3> QED
      BY <3>6 DEF Trimmed
  <2>5. lru' = AfterPut(lru, k, written[k])
    BY <2>1, <2>3, <2>4 DEF AfterPut
  <2>6. written' = [written EXCEPT ![k] = written[k]]
    BY <2>2 DEF CacheInv, CacheTyped
  <2> QED
    BY <2>1, <2>2, <2>5, <2>6, StoringInv
<1> QED
  BY <1>1, <1>2

LEMMA EmptyInv ==
    ASSUME NEW A, lru = <<>>, used = <<>>, written = [k \in Keys |-> NoAudio]
    PROVE  CacheInv(A)
<1>1. Len(lru) = Kept(Len(used)) /\ DOMAIN lru = {} /\ DOMAIN used = {}
  BY CacheAssumption DEF Kept
<1>2. IsInjective(used)
  BY <1>1 DEF IsInjective
<1> QED
  BY <1>1, <1>2 DEF CacheInv, CacheTyped, EndOfUsed, AudioIsWritten

LEMMA ClearInv == ASSUME NEW A, Clear PROVE CacheInv(A)'
<1>1. Len(lru') = Kept(Len(used')) /\ DOMAIN lru' = {} /\ DOMAIN used' = {}
  BY CacheAssumption DEF Clear, Kept
<1>2. IsInjective(used')
  BY <1>1 DEF IsInjective
<1> QED
  BY <1>1, <1>2 DEF Clear, CacheInv, CacheTyped, EndOfUsed, AudioIsWritten

LEMMA StutterInv ==
    ASSUME NEW A, CacheInv(A), UNCHANGED vars
    PROVE  CacheInv(A)'
BY DEF vars, CacheInv, CacheTyped, EndOfUsed, AudioIsWritten

(* The invariant says what HoldsMostRecent does. *)
LEMMA InvIsMostRecent == ASSUME NEW A, CacheInv(A) PROVE HoldsMostRecent
<1> SUFFICES ASSUME Enabled
             PROVE  [i \in DOMAIN lru |-> lru[i].key]
                      = IF Len(used) > MaxEntries
                        THEN SubSeq(used, Len(used) - MaxEntries + 1, Len(used))
                        ELSE used
  BY DEF HoldsMostRecent
<1> DEFINE n == Len(used)
           m == Kept(Len(used))
           keys == [i \in DOMAIN lru |-> lru[i].key]
<1>1. /\ used \in Seq(Keys) /\ DOMAIN lru = 1 .. m /\ n \in Nat /\ MaxEntries \in Int
      /\ m \in 0 .. n
      /\ \A i \in 1 .. m : lru[i].key = used[n - m + i]
  <2>1. /\ used \in Seq(Keys) /\ lru \in Seq(Entries(A)) /\ EndOfUsed /\ MaxEntries \in Int
    BY CacheAssumption DEF CacheInv, CacheTyped
  <2>2. Len(used) \in Nat /\ Len(lru) = m /\ DOMAIN lru = 1 .. Len(lru)
    BY <2>1 DEF EndOfUsed
  <2>3. m \in 0 .. n
    BY <2>1, <2>2 DEF Kept
  <2> QED
    BY <2>1, <2>2, <2>3 DEF EndOfUsed
<1>2. Trimmed(used) \in Seq(Keys) /\ Len(Trimmed(used)) = m
      /\ \A i \in 1 .. m : Trimmed(used)[i] = used[n - m + i]
  BY <1>1, TrimmedIsSuffix
<1>3. keys = Trimmed(used)
  <2> DEFINE u == Trimmed(used)
  <2>1. u \in Seq(Keys) /\ Len(u) = m /\ \A i \in 1 .. m : u[i] = used[n - m + i]
    BY <1>2
  <2> HIDE DEF u, m, n
  <2>2. u = [i \in 1 .. m |-> u[i]]
    BY <1>1, <2>1
  <2>3. \A i \in 1 .. m : u[i] = lru[i].key
    BY <1>1, <2>1
  <2>4. keys = [i \in 1 .. m |-> lru[i].key]
    BY <1>1
  <2> QED
    BY <2>2, <2>3, <2>4 DEF u
<1> QED
  BY <1>3 DEF Trimmed
-----------------------------------------------------------------------------
(* The cache by itself. *)
Inv == CacheInv(Audios)

LEMMA NextInv == Inv /\ [Next]_vars => Inv'
<1> SUFFICES ASSUME Inv, [Next]_vars PROVE Inv'
  OBVIOUS
<1>1. CASE UNCHANGED vars
  BY <1>1, StutterInv DEF Inv
<1>2. ASSUME NEW k \in Keys, Get(k) PROVE Inv'
  BY <1>2, GetInv DEF Inv
<1>3. ASSUME NEW k \in Keys, NEW a \in Audios, Put(k, a) PROVE Inv'
  BY <1>3, PutInv DEF Inv
<1>4. CASE Clear
  BY <1>4, ClearInv DEF Inv
<1> QED
  BY <1>1, <1>2, <1>3, <1>4 DEF Next

THEOREM CacheInvHolds == Spec => []Inv
<1>1. Init => Inv
  BY EmptyInv DEF Init, Inv
<1> QED
  BY <1>1, NextInv, PTL DEF Spec

(* Whatever is put, hit, missed and cleared, the cache holds exactly the
   max_entries keys used last (core/cache.py:71-88).                         *)
THEOREM CacheHoldsMostRecent == Spec => []HoldsMostRecent
<1>1. Inv => HoldsMostRecent
  BY InvIsMostRecent DEF Inv
<1> QED
  BY <1>1, CacheInvHolds, PTL

THEOREM CacheServesLastWritten == Spec => ServesLastWritten
<1>1. Inv /\ [Next]_vars => [\A k \in Keys : Get(k) => result' \in {NoAudio, written[k]}]_vars
  BY GetInv DEF Inv
<1> QED
  BY <1>1, CacheInvHolds, PTL DEF Spec, ServesLastWritten
-----------------------------------------------------------------------------
(* The WAV files: what the walk over their chunks finds. *)
Places == [fmt : Int, data : Int]
WalkStep(f, p, rest) ==
    IF p + 8 > f.length THEN [fmt |-> Wav!NoChunk, data |-> Wav!NoChunk]
    ELSE IF Wav!Chunk(f, p).id = "data" THEN [fmt |-> Wav!NoChunk, data |-> p]
    ELSE IF Wav!Chunk(f, p).id = "fmt" /\ rest.fmt = Wav!NoChunk
         THEN [fmt |-> p, data |-> rest.data]
         ELSE rest
NextChunk(f, p) == Wav!Padded(p + 8 + Wav!Chunk(f, p).size)

(* The recursive function is what its definition says it is. *)
LEMMA WavWalk ==
    ASSUME NEW f, f.length \in Nat, \A p \in Nat : Wav!Chunk(f, p).size \in Nat
    PROVE  \A p \in Nat : /\ Wav!WalkFrom(f)[p] = WalkStep(f, p, Wav!WalkFrom(f)[NextChunk(f, p)])
                          /\ Wav!WalkFrom(f)[p] \in Places
<1> DEFINE v == [fmt |-> 0, data |-> 0]
           next == [p \in Nat |-> NextChunk(f, p)]
           step == [p \in Nat |-> [r \in Places |-> WalkStep(f, p, r)]]
<1>1. \A p \in Nat : NextChunk(f, p) \in Nat /\ NextChunk(f, p) > p
  <2> SUFFICES ASSUME NEW p \in Nat PROVE NextChunk(f, p) \in Nat /\ NextChunk(f, p) > p
    OBVIOUS
  <2> DEFINE q == p + 8 + Wav!Chunk(f, p).size
  <2>1. q \in Nat /\ q > p
    OBVIOUS
  <2> HIDE DEF q
  <2>2. q + (q % 2) \in Nat /\ q + (q % 2) > p
    BY <2>1
  <2> QED
    BY <2>2 DEF NextChunk, Wav!Padded, q
<1>2. \A p \in Nat : \A r \in Places : WalkStep(f, p, r) \in Places
  BY DEF WalkStep, Places, Wav!NoChunk
<1>3. \A p \in Nat : p >= f.length => \A a, b \in Places : WalkStep(f, p, a) = WalkStep(f, p, b)
  BY DEF WalkStep
<1>4. \E g \in [Nat -> Places] : \A p \in Nat : g[p] = WalkStep(f, p, g[NextChunk(f, p)])
  <2>1. v \in Places
    BY DEF Places
  <2>2. next \in [Nat -> Nat] /\ \A p \in Nat : next[p] > p
    BY <1>1
  <2>3. step \in [Nat -> [Places -> Places]]
    BY <1>2
  <2>4. \A p \in Nat : p >= f.length => \A a, b \in Places : step[p][a] = step[p][b]
    BY <1>3
  <2> HIDE DEF next, step, v
  <2>5. GoesForward(Places, f.length, next, step)
    BY <2>1, <2>2, <2>3, <2>4 DEF GoesForward
  <2>6. PICK g \in [Nat -> Places] : \A p \in Nat : g[p] = step[p][g[next[p]]]
    BY <2>5, ForwardRecursion
  <2>7. \A p \in Nat : step[p][g[next[p]]] = WalkStep(f, p, g[NextChunk(f, p)])
    BY <1>1, <2>6 DEF step, next
  <2> QED
    BY <2>6, <2>7
<1>5. PICK g \in [Nat -> Places] : \A p \in Nat : g[p] = WalkStep(f, p, g[NextChunk(f, p)])
  BY <1>4
<1> DEFINE Is(h) == h = [p \in Nat |-> WalkStep(f, p, h[NextChunk(f, p)])]
<1>6. Is(g)
  BY <1>5
<1>7. Is(Wav!WalkFrom(f))
  <2> DEFINE w == CHOOSE h : Is(h)
  <2>1. Is(w)
    BY <1>6
  <2>2. Wav!WalkFrom(f) = w
    BY DEF Wav!WalkFrom, WalkStep, NextChunk
  <2> HIDE DEF w
  <2> QED
    BY <2>1, <2>2
<1> DEFINE w == Wav!WalkFrom(f)
           T == {p \in Nat : w[p] \in Places}
<1>8. \A p \in Nat : w[p] = WalkStep(f, p, w[next[p]])
  BY <1>7
<1>9. \A p \in Nat : p \in T
  <2>1. \A p \in Nat : next[p] \in Nat /\ next[p] > p
    BY <1>1
  <2>2. \A p \in Nat : p >= f.length => p \in T
    <3> SUFFICES ASSUME NEW p \in Nat, p >= f.length PROVE w[p] \in Places
      OBVIOUS
    <3>1. p + 8 > f.length
      OBVIOUS
    <3>2. w[p] = [fmt |-> Wav!NoChunk, data |-> Wav!NoChunk]
      BY <1>8, <3>1 DEF WalkStep
    <3> QED
      BY <3>2 DEF Places, Wav!NoChunk
  <2>3. \A p \in Nat : next[p] \in T => p \in T
    BY <1>2, <1>8, <2>1
  <2> DEFINE length == f.length
  <2>4. length \in Nat /\ \A p \in Nat : p >= length => p \in T
    BY <2>2
  <2> HIDE DEF next, T, length
  <2> QED
    BY <2>1, <2>3, <2>4, BackwardInduction
<1> QED
  BY <1>8, <1>9

(* Format first, then samples at d, after a LIST chunk if there is one. *)
LEMMA WavFound ==
    ASSUME NEW f, f.length \in Nat, \A p \in Nat : Wav!Chunk(f, p).size \in Nat,
           Wav!Chunk(f, 12) = [id |-> "fmt", size |-> 16],
           NEW d \in Nat, Wav!Chunk(f, d).id = "data", d + 8 <= f.length,
           d = 36 \/ (d > 36 /\ Wav!Chunk(f, 36).id = "LIST" /\ NextChunk(f, 36) = d)
    PROVE  Wav!Walk(f) = [fmt |-> 12, data |-> d]
<1> DEFINE w == Wav!WalkFrom(f)
<1>1. \A p \in Nat : w[p] = WalkStep(f, p, w[NextChunk(f, p)])
  BY WavWalk
<1> HIDE DEF w
<1>2. w[d] = [fmt |-> Wav!NoChunk, data |-> d]
  <2>1. w[d] = WalkStep(f, d, w[NextChunk(f, d)])
    BY <1>1
  <2>2. ~ (d + 8 > f.length)
    OBVIOUS
  <2> QED
    BY <2>1, <2>2 DEF WalkStep
<1>3. w[36] = [fmt |-> Wav!NoChunk, data |-> d]
  <2> SUFFICES ASSUME d > 36, Wav!Chunk(f, 36).id = "LIST", NextChunk(f, 36) = d
               PROVE  w[36] = w[d]
    BY <1>2
  <2>1. w[36] = WalkStep(f, 36, w[d])
    BY <1>1
  <2>2. ~ (36 + 8 > f.length)
    OBVIOUS
  <2> QED
    BY <2>1, <2>2 DEF WalkStep
<1>4. NextChunk(f, 12) = 36
  <2>1. 12 + 8 + 16 = 36 /\ 36 % 2 = 0 /\ 36 + 0 = 36
    OBVIOUS
  <2> QED
    BY <2>1 DEF NextChunk, Wav!Padded
<1>5. w[12] = [fmt |-> 12, data |-> d]
  <2>1. w[12] = WalkStep(f, 12, w[36])
    BY <1>1, <1>4
  <2>2. ~ (12 + 8 > f.length)
    OBVIOUS
  <2> QED
    BY <1>3, <2>1, <2>2 DEF WalkStep
<1> QED
  BY <1>5 DEF Wav!Walk, w

LEMMA WavSlice ==
    ASSUME NEW f, NEW p \in Int, NEW size \in Int, f.length \in Int, p + size <= f.length
    PROVE  Wav!Slice(f, p, size) = size
BY DEF Wav!Slice, Wav!Min

(* The file that normalize_wav() writes: its chunks, and what wave.open sees. *)
LEMMA WavWritten ==
    ASSUME NEW pcm \in Nat
    PROVE  LET f == Wav!WavFile(24, pcm)
           IN  /\ f.length = 44 + pcm /\ f.declared = f.length - 8 /\ f.riff = TRUE
               /\ f.chunks[12] = [id |-> "fmt", size |-> 16]
               /\ f.chunks[36] = [id |-> "data", size |-> pcm]
               /\ Wav!Walk(f) = [fmt |-> 12, data |-> 36]
               /\ Wav!Seen(f) = f
<1> DEFINE f == Wav!WavFile(24, pcm)
<1>1. /\ 12 + 24 = 36 /\ 24 - 8 = 16 /\ 4 + 24 + 8 = 36 /\ 12 + 24 + 8 = 44
      /\ 36 + pcm = 44 + pcm - 8 /\ 44 + pcm \in Nat
  OBVIOUS
<1>2. f = [riff |-> TRUE, declared |-> 36 + pcm, length |-> 44 + pcm,
           chunks |-> [p \in {12, 36} |-> IF p = 12 THEN [id |-> "fmt", size |-> 16]
                                          ELSE [id |-> "data", size |-> pcm]]]
  BY <1>1 DEF Wav!WavFile
<1> HIDE DEF f
<1>3. /\ f.length = 44 + pcm /\ f.declared = f.length - 8 /\ f.riff = TRUE
      /\ f.chunks[12] = [id |-> "fmt", size |-> 16]
      /\ f.chunks[36] = [id |-> "data", size |-> pcm]
      /\ DOMAIN f.chunks = {12, 36}
  BY <1>1, <1>2
<1>4. \A p \in Nat : Wav!Chunk(f, p).size \in Nat
  BY <1>3 DEF Wav!Chunk, Wav!Placeholder
<1>5. Wav!Walk(f) = [fmt |-> 12, data |-> 36]
  <2>1. /\ Wav!Chunk(f, 12) = [id |-> "fmt", size |-> 16] /\ Wav!Chunk(f, 36).id = "data"
        /\ 36 + 8 <= f.length /\ f.length \in Nat
    BY <1>1, <1>3 DEF Wav!Chunk
  <2> QED
    BY <1>4, <2>1, WavFound
<1>6. Wav!Slice(f, 0, 8 + f.declared) = f.length
  <2>1. 8 + f.declared = f.length /\ 0 + f.length <= f.length /\ f.length \in Int
    BY <1>1, <1>3
  <2> QED
    BY <2>1, WavSlice
<1>7. Wav!Seen(f) = f
  BY <1>2, <1>6 DEF Wav!Seen
<1> QED
  BY <1>3, <1>5, <1>7 DEF f

(* normalize_wav() leaves a file that it wrote as it is. *)
LEMMA WavNormalized ==
    ASSUME NEW pcm \in Nat \ {0}
    PROVE  Wav!NormalizeWav(Wav!WavFile(24, pcm)) = Wav!WavFile(24, pcm)
<1> DEFINE f == Wav!WavFile(24, pcm)
<1>1. /\ f.length = 44 + pcm /\ f.riff = TRUE
      /\ f.chunks[12] = [id |-> "fmt", size |-> 16]
      /\ Wav!Walk(f) = [fmt |-> 12, data |-> 36]
  BY WavWritten
<1> HIDE DEF f
<1>2. Wav!FmtBytes(f) = 24
  <2>1. Wav!Slice(f, 12, 8 + 16) = 8 + 16
    BY <1>1, WavSlice
  <2> QED
    BY <1>1, <2>1 DEF Wav!FmtBytes, Wav!NoChunk
<1>3. Wav!Payload(f) = pcm
  BY <1>1 DEF Wav!Payload, Wav!NoChunk
<1> QED
  BY <1>1, <1>2, <1>3 DEF Wav!NormalizeWav, f

(* normalize_wav() makes of what ffmpeg writes to a pipe, whatever it puts before the
   samples and without its sizes, a file with the same samples and true sizes
   (core/wav.py:36-80).                                                            *)
THEOREM WavRepaired ==
    ASSUME NEW list \in Nat, NEW pcm \in Nat \ {0}
    PROVE  Wav!NormalizeWav(FfmpegWav(list, pcm)) = Wav!WavFile(24, pcm)
<1> DEFINE f == FfmpegWav(list, pcm)
           d == IF list = 0 THEN 36 ELSE 36 + 8 + list + (list % 2)
<1>1. d \in Nat /\ d >= 36 /\ (d = 36 <=> list = 0)
  OBVIOUS
<1>2. f = [riff |-> TRUE, declared |-> Wav!Placeholder, length |-> d + 8 + pcm,
           chunks |-> [p \in {12, 36, d} |->
                          IF p = 12 THEN [id |-> "fmt", size |-> 16]
                          ELSE IF p = d THEN [id |-> "data", size |-> Wav!Placeholder]
                          ELSE [id |-> "LIST", size |-> list]]]
  BY DEF FfmpegWav
<1>3. list # 0 => (36 + 8 + list) + ((36 + 8 + list) % 2) = d
  OBVIOUS
<1> HIDE DEF f, d
<1>4. /\ f.riff = TRUE /\ f.length = d + 8 + pcm
      /\ DOMAIN f.chunks = {12, 36, d}
      /\ f.chunks[12] = [id |-> "fmt", size |-> 16]
      /\ f.chunks[d] = [id |-> "data", size |-> Wav!Placeholder]
      /\ d # 36 => f.chunks[36] = [id |-> "LIST", size |-> list]
  BY <1>1, <1>2
<1>5. /\ Wav!Chunk(f, 12) = [id |-> "fmt", size |-> 16]
      /\ Wav!Chunk(f, d) = [id |-> "data", size |-> Wav!Placeholder]
      /\ d # 36 => Wav!Chunk(f, 36) = [id |-> "LIST", size |-> list]
      /\ \A p \in Nat : p \notin {12, 36, d} => Wav!Chunk(f, p).size = Wav!Placeholder
  BY <1>4 DEF Wav!Chunk
<1>6. \A p \in Nat : Wav!Chunk(f, p).size \in Nat
  BY <1>5 DEF Wav!Placeholder
<1>7. d # 36 => NextChunk(f, 36) = d
  BY <1>1, <1>3, <1>5 DEF NextChunk, Wav!Padded
<1>8. Wav!Walk(f) = [fmt |-> 12, data |-> d]
  <2>1. f.length \in Nat /\ d + 8 <= f.length
    BY <1>1, <1>4
  <2>2. d = 36 \/ (d > 36 /\ Wav!Chunk(f, 36).id = "LIST" /\ NextChunk(f, 36) = d)
    BY <1>1, <1>5, <1>7
  <2> QED
    BY <1>1, <1>5, <1>6, <2>1, <2>2, WavFound
<1>9. Wav!FmtBytes(f) = 24
  <2>1. Wav!Slice(f, 12, 8 + 16) = 8 + 16
    BY <1>1, <1>4, WavSlice
  <2> QED
    BY <1>4, <1>8, <2>1 DEF Wav!FmtBytes, Wav!NoChunk
<1>10. Wav!Payload(f) = pcm
  BY <1>1, <1>4, <1>8 DEF Wav!Payload, Wav!NoChunk
<1>11. f.length >= 12
  BY <1>1, <1>4
<1> QED
  BY <1>4, <1>9, <1>10, <1>11 DEF Wav!NormalizeWav, f
-----------------------------------------------------------------------------
(* The MP3 files: what the walk over their frame headers adds up to. *)
(* A frame that can be decoded takes bytes and plays for a time. *)
LEMMA BytesOfFrame ==
    \A a, b, c \in Nat : b > 0 /\ a >= b => (a \div b) + c \in Nat /\ (a \div b) + c > 0
<1> SUFFICES ASSUME NEW a \in Nat, NEW b \in Nat, b > 0, a >= b
             PROVE  a \div b \in Nat /\ a \div b > 0
  OBVIOUS
<1> QED
  OBVIOUS

LEMMA FrameTakes ==
    ASSUME NEW h \in Mp3!Headers, ~ Mp3!Undecodable(h)
    PROVE  /\ Mp3!FrameBytes(h) \in Nat \ {0}
           /\ Mp3!Length(h) \in Nat
<1>1. /\ h.version \in {0, 2, 3} /\ h.bitrate \in 0 .. 15 /\ h.rate \in 0 .. 3
      /\ h.padding \in 0 .. 1
  BY DEF Mp3!Headers, Mp3!Undecodable
<1>2. Mp3!Rate(h) \in {8000, 11025, 12000, 16000, 22050, 24000, 32000, 44100, 48000}
  <2>1. h.rate + 1 \in {1, 2, 3, 4}
    BY <1>1
  <2>2. /\ Mp3!SampleRates(3) = <<44100, 48000, 32000, 0>>
        /\ Mp3!SampleRates(2) = <<22050, 24000, 16000, 0>>
        /\ Mp3!SampleRates(0) = <<11025, 12000, 8000, 0>>
    BY DEF Mp3!SampleRates
  <2>3. Mp3!Rate(h) # 0
    BY DEF Mp3!Undecodable
  <2> QED
    BY <1>1, <2>1, <2>2, <2>3 DEF Mp3!Rate
<1>3. Mp3!Bitrate(h) \in Nat /\ Mp3!Bitrate(h) >= 8
  <2>1. h.bitrate + 1 \in 1 .. 16
    BY <1>1
  <2>2. Mp3!Bitrate(h) # 0
    BY DEF Mp3!Undecodable
  <2>3. CASE h.version = 3
    BY <2>1, <2>2, <2>3 DEF Mp3!Bitrate, Mp3!Bitrates
  <2>4. CASE h.version # 3
    BY <2>1, <2>2, <2>4 DEF Mp3!Bitrate, Mp3!Bitrates
  <2> QED
    BY <2>3, <2>4
<1>4. Mp3!Samples(h) \in {576, 1152}
  BY DEF Mp3!Samples
<1> DEFINE r == Mp3!Rate(h)
           b == Mp3!Bitrate(h)
           s == Mp3!Samples(h)
<1>5. /\ s * b * 1000 \in Nat /\ 8 * r \in Nat /\ 8 * r > 0 /\ s * b * 1000 >= 8 * r
  <2> HIDE DEF r, b, s
  <2>1. s * b >= 576 * 8 /\ s * b \in Nat
    BY <1>3, <1>4 DEF b, s
  <2> QED
    BY <1>2, <2>1 DEF r
<1>6. Mp3!FrameBytes(h) \in Nat \ {0}
  <2> DEFINE bits == s * b * 1000
             rate == 8 * r
             pad == h.padding
  <2>1. bits \in Nat /\ rate \in Nat /\ rate > 0 /\ bits >= rate /\ pad \in Nat
    BY <1>1, <1>5
  <2> HIDE DEF bits, rate, pad
  <2>2. (bits \div rate) + pad \in Nat \ {0}
    BY <2>1, BytesOfFrame
  <2> QED
    BY <2>2 DEF Mp3!FrameBytes, bits, rate, pad
<1>7. Mp3!Length(h) \in Nat
  <2> HIDE DEF r, s
  <2>1. Mp3!Second \div r \in Nat
    BY <1>2 DEF r, Mp3!Second
  <2> QED
    BY <1>4, <2>1 DEF Mp3!Length, r, s
<1> QED
  BY <1>6, <1>7

(* The walk over the headers of a file is what its definition says it is. *)
SyncStep(f, p, rest) ==
    IF Mp3!Ahead(f, p) = {}
    THEN IF Mp3!AudioEnd(f) - 3 - p > Mp3!MaxJunk THEN Mp3!Malformed ELSE 0
    ELSE LET q == Mp3!Min(Mp3!Ahead(f, p))
             h == f.headers[q]
         IN  IF q - p > Mp3!MaxJunk \/ Mp3!Undecodable(h) \/ rest = Mp3!Malformed
             THEN Mp3!Malformed
             ELSE Mp3!Length(h) + rest

NextSync(f, p) == LET q == Mp3!Min(Mp3!Ahead(f, p))
                  IN  IF Mp3!Ahead(f, p) = {} \/ Mp3!Undecodable(f.headers[q]) THEN p + 1
                      ELSE q + Mp3!FrameBytes(f.headers[q])

LEMMA FirstAhead ==
    ASSUME NEW f, Mp3!IsFile(f), NEW p \in Nat, Mp3!Ahead(f, p) # {}
    PROVE  LET q == Mp3!Min(Mp3!Ahead(f, p))
           IN  /\ q \in Mp3!Ahead(f, p) /\ q \in Nat /\ q >= p
               /\ f.headers[q] \in Mp3!Headers
               /\ \A r \in Mp3!Ahead(f, p) : q <= r
<1>1. Mp3!Ahead(f, p) \subseteq Nat
  BY DEF Mp3!Ahead, Mp3!IsFile
<1>2. \E q \in Mp3!Ahead(f, p) : \A r \in Mp3!Ahead(f, p) : q <= r
  BY <1>1, LeastOfNats
<1> DEFINE q == Mp3!Min(Mp3!Ahead(f, p))
<1>3. q \in Mp3!Ahead(f, p) /\ \A r \in Mp3!Ahead(f, p) : q <= r
  BY <1>2 DEF Mp3!Min
<1> HIDE DEF q
<1> QED
  BY <1>1, <1>3 DEF Mp3!Ahead, Mp3!IsFile, q

LEMMA Mp3Walk ==
    ASSUME NEW f, Mp3!IsFile(f)
    PROVE  \A p \in Nat : /\ Mp3!WalkFrom(f)[p] = SyncStep(f, p, Mp3!WalkFrom(f)[NextSync(f, p)])
                          /\ NextSync(f, p) \in Nat /\ NextSync(f, p) > p
<1> DEFINE next == [p \in Nat |-> NextSync(f, p)]
           step == [p \in Nat |-> [r \in Int |-> SyncStep(f, p, r)]]
           length == Mp3!AudioEnd(f)
<1>1. \A p \in Nat : NextSync(f, p) \in Nat /\ NextSync(f, p) > p
  <2> SUFFICES ASSUME NEW p \in Nat PROVE NextSync(f, p) \in Nat /\ NextSync(f, p) > p
    OBVIOUS
  <2> DEFINE q == Mp3!Min(Mp3!Ahead(f, p))
  <2>1. CASE Mp3!Ahead(f, p) = {} \/ Mp3!Undecodable(f.headers[q])
    BY <2>1 DEF NextSync
  <2>2. CASE ~ (Mp3!Ahead(f, p) = {} \/ Mp3!Undecodable(f.headers[q]))
    <3>1. q \in Nat /\ q >= p /\ f.headers[q] \in Mp3!Headers
      BY <2>2, FirstAhead
    <3>2. Mp3!FrameBytes(f.headers[q]) \in Nat \ {0}
      BY <2>2, <3>1, FrameTakes
    <3>3. NextSync(f, p) = q + Mp3!FrameBytes(f.headers[q])
      BY <2>2 DEF NextSync
    <3> HIDE DEF q
    <3> QED
      BY <3>1, <3>2, <3>3
  <2> QED
    BY <2>1, <2>2
<1>2. \A p \in Nat : \A r \in Int : SyncStep(f, p, r) \in Int
  <2> SUFFICES ASSUME NEW p \in Nat, NEW r \in Int PROVE SyncStep(f, p, r) \in Int
    OBVIOUS
  <2> DEFINE q == Mp3!Min(Mp3!Ahead(f, p))
  <2>1. ASSUME Mp3!Ahead(f, p) # {}, ~ Mp3!Undecodable(f.headers[q])
        PROVE  Mp3!Length(f.headers[q]) + r \in Int
    <3>1. f.headers[q] \in Mp3!Headers
      BY <2>1, FirstAhead
    <3>2. Mp3!Length(f.headers[q]) \in Nat
      BY <2>1, <3>1, FrameTakes
    <3> QED
      BY <3>2
  <2> QED
    BY <2>1 DEF SyncStep, Mp3!Malformed
<1>3. length \in Nat /\ \A p \in Nat : p >= length => Mp3!Ahead(f, p) = {}
  <2>1. length \in Nat
    BY DEF Mp3!AudioEnd, Mp3!IsFile
  <2> HIDE DEF length
  <2> QED
    BY <2>1 DEF Mp3!Ahead, Mp3!IsFile, length
<1>4. \E g \in [Nat -> Int] : \A p \in Nat : g[p] = SyncStep(f, p, g[NextSync(f, p)])
  <2>2. next \in [Nat -> Nat] /\ \A p \in Nat : next[p] > p
    BY <1>1
  <2>3. step \in [Nat -> [Int -> Int]]
    BY <1>2
  <2>4. \A p \in Nat : p >= length => \A a, b \in Int : step[p][a] = step[p][b]
    <3> HIDE DEF length
    <3> QED
      BY <1>3 DEF SyncStep
  <2> HIDE DEF next, step, length
  <2>5. GoesForward(Int, length, next, step)
    BY <1>3, <2>2, <2>3, <2>4 DEF GoesForward
  <2>6. PICK g \in [Nat -> Int] : \A p \in Nat : g[p] = step[p][g[next[p]]]
    BY <2>5, ForwardRecursion
  <2>7. \A p \in Nat : step[p][g[next[p]]] = SyncStep(f, p, g[NextSync(f, p)])
    BY <1>1, <2>6 DEF step, next
  <2> QED
    BY <2>6, <2>7
<1>5. PICK g \in [Nat -> Int] : \A p \in Nat : g[p] = SyncStep(f, p, g[NextSync(f, p)])
  BY <1>4
<1> DEFINE Is(w) == w = [p \in Nat |-> SyncStep(f, p, w[NextSync(f, p)])]
<1>6. Is(g)
  BY <1>5
<1>7. Is(Mp3!WalkFrom(f))
  <2> DEFINE w == CHOOSE h : Is(h)
             Body(p, h) ==
               IF Mp3!Ahead(f, p) = {}
               THEN IF Mp3!AudioEnd(f) - 3 - p > Mp3!MaxJunk THEN Mp3!Malformed ELSE 0
               ELSE LET q == Mp3!Min(Mp3!Ahead(f, p))
                        rest == h[q + Mp3!FrameBytes(f.headers[q])]
                    IN  IF q - p > Mp3!MaxJunk \/ Mp3!Undecodable(f.headers[q]) \/ rest = Mp3!Malformed
                        THEN Mp3!Malformed
                        ELSE Mp3!Length(f.headers[q]) + rest
  <2>1. Is(w)
    BY <1>6
  <2>2. \A h : \A p \in Nat : Body(p, h) = SyncStep(f, p, h[NextSync(f, p)])
    BY DEF SyncStep, NextSync
  <2>3. Mp3!WalkFrom(f) = CHOOSE h : h = [p \in Nat |-> Body(p, h)]
    BY DEF Mp3!WalkFrom
  <2>4. \A h : h = [p \in Nat |-> Body(p, h)] <=> Is(h)
    <3> HIDE DEF Body
    <3> QED
      BY <2>2
  <2>5. Mp3!WalkFrom(f) = w
    <3> HIDE DEF Body, Is
    <3> QED
      BY <2>3, <2>4
  <2> HIDE DEF w
  <2> QED
    BY <2>1, <2>5
<1> QED
  BY <1>1, <1>7

(* The frames of a file as far as they have been read: a track, or the start of one *)
Frames(f, t) ==
    /\ t \in Seq([at : Nat, starts : Nat])
    /\ \A i \in DOMAIN t : /\ Mp3!FrameAfter(f, Mp3!Ends(f, t, i - 1), t[i].at)
                           /\ t[i].starts = Mp3!Played(f, t, i - 1)

LEMMA FramesTyped ==
    ASSUME NEW f, Mp3!IsFile(f), NEW t, Frames(f, t)
    PROVE  /\ Len(t) \in Nat /\ DOMAIN t = 1 .. Len(t)
           /\ \A i \in 1 .. Len(t) : t[i].at \in Nat /\ t[i].starts \in Nat
<1> DEFINE R == [at : Nat, starts : Nat]
<1>1. t \in Seq(R)
  BY DEF Frames
<1> HIDE DEF R
<1>2. Len(t) \in Nat /\ DOMAIN t = 1 .. Len(t) /\ \A i \in 1 .. Len(t) : t[i] \in R
  BY <1>1
<1> QED
  BY <1>2 DEF R

LEMMA FrameOf ==
    ASSUME NEW f, Mp3!IsFile(f), NEW t, Frames(f, t), NEW i \in 1 .. Len(t)
    PROVE  LET h == f.headers[t[i].at]
           IN  /\ Mp3!FrameAfter(f, Mp3!Ends(f, t, i - 1), t[i].at)
               /\ t[i].starts = Mp3!Played(f, t, i - 1)
               /\ h \in Mp3!Headers
               /\ Mp3!FrameBytes(h) \in Nat \ {0} /\ Mp3!Length(h) \in Nat
               /\ Mp3!Ends(f, t, i) = t[i].at + Mp3!FrameBytes(h)
               /\ Mp3!Played(f, t, i) = t[i].starts + Mp3!Length(h)
<1>1. Mp3!FrameAfter(f, Mp3!Ends(f, t, i - 1), t[i].at) /\ t[i].starts = Mp3!Played(f, t, i - 1)
  BY FramesTyped DEF Frames
<1>2. f.headers[t[i].at] \in Mp3!Headers /\ ~ Mp3!Undecodable(f.headers[t[i].at])
  BY <1>1 DEF Mp3!FrameAfter, Mp3!Ahead, Mp3!IsFile
<1>3. /\ Mp3!FrameBytes(f.headers[t[i].at]) \in Nat \ {0}
      /\ Mp3!Length(f.headers[t[i].at]) \in Nat
  BY <1>2, FrameTakes
<1>4. i # 0
  BY FramesTyped
<1> QED
  BY <1>1, <1>2, <1>3, <1>4 DEF Mp3!Ends, Mp3!Played

(* Each frame takes a byte at least, so there are no more frames than bytes. *)
LEMMA FramesFit ==
    ASSUME NEW f, Mp3!IsFile(f), NEW t, Frames(f, t)
    PROVE  Len(t) <= f.length
<1> DEFINE n == Len(t)
           E(i) == Mp3!Ends(f, t, i)
           S == {k \in Nat : k <= n => E(k) \in Nat /\ E(k) >= k}
<1>1. n \in Nat /\ \A i \in 1 .. n : t[i].at \in Nat
  BY FramesTyped
<1>2. \A i \in 1 .. n : /\ E(i) = t[i].at + Mp3!FrameBytes(f.headers[t[i].at])
                        /\ Mp3!FrameBytes(f.headers[t[i].at]) \in Nat \ {0}
                        /\ Mp3!FrameAfter(f, E(i - 1), t[i].at)
  BY FrameOf
<1>3. \A i \in 1 .. n : t[i].at >= E(i - 1) /\ t[i].at + 4 <= Mp3!AudioEnd(f)
  BY <1>2 DEF Mp3!FrameAfter, Mp3!Ahead
<1>4. E(0) \in Nat
  BY DEF Mp3!Ends, Mp3!IsFile, Mp3!NoTag
<1> HIDE DEF n, E
<1>5. 0 \in S
  BY <1>4
<1>6. ASSUME NEW k \in Nat, k \in S PROVE k + 1 \in S
  <2> SUFFICES ASSUME k + 1 <= n PROVE E(k + 1) \in Nat /\ E(k + 1) >= k + 1
    OBVIOUS
  <2> DEFINE i == k + 1
             h == f.headers[t[i].at]
  <2>1. i \in 1 .. n /\ i - 1 = k /\ E(k) >= k /\ E(k) \in Nat
    BY <1>1, <1>6
  <2> HIDE DEF i
  <2>2. /\ t[i].at \in Nat /\ t[i].at >= E(k) /\ E(i) = t[i].at + Mp3!FrameBytes(h)
        /\ Mp3!FrameBytes(h) \in Nat \ {0}
    BY <1>1, <1>2, <1>3, <2>1
  <2> HIDE DEF h
  <2>3. E(i) \in Nat /\ E(i) >= k + 1
    BY <2>1, <2>2
  <2> QED
    BY <2>3 DEF i
<1>7. \A k \in Nat : k \in S
  <2> HIDE DEF S
  <2> QED
    BY <1>5, <1>6, NatSetInduction
<1>8. f.length \in Nat /\ Mp3!AudioEnd(f) <= f.length /\ Mp3!AudioEnd(f) \in Int
  BY DEF Mp3!IsFile, Mp3!AudioEnd
<1>9. CASE n = 0
  BY <1>8, <1>9 DEF n
<1>10. CASE n # 0
  <2>1. n \in 1 .. n /\ n - 1 \in Nat /\ n - 1 <= n
    BY <1>1, <1>10
  <2>2. E(n - 1) \in Nat /\ E(n - 1) >= n - 1
    BY <1>7, <2>1
  <2>3. t[n].at \in Nat /\ t[n].at >= E(n - 1) /\ t[n].at + 4 <= Mp3!AudioEnd(f)
    BY <1>1, <1>3, <2>1
  <2>4. n <= f.length
    BY <1>1, <1>8, <2>2, <2>3
  <2> QED
    BY <2>4 DEF n
<1> QED
  BY <1>9, <1>10

LEMMA FramesGrow ==
    ASSUME NEW f, Mp3!IsFile(f), NEW t, Frames(f, t), NEW q,
           Mp3!FrameAfter(f, Mp3!Ends(f, t, Len(t)), q)
    PROVE  \E u : Frames(f, u) /\ Len(u) = Len(t) + 1
<1> DEFINE n == Len(t)
           R == [at : Nat, starts : Nat]
           e == [at |-> q, starts |-> Mp3!Played(f, t, n)]
           u == Append(t, e)
<1>1. n \in Nat /\ DOMAIN t = 1 .. n /\ t \in Seq(R)
  BY FramesTyped DEF Frames
<1>2. q \in Nat
  BY DEF Mp3!FrameAfter, Mp3!Ahead, Mp3!IsFile
<1>3. Mp3!Played(f, t, n) \in Nat
  <2>1. CASE n = 0
    BY <2>1 DEF Mp3!Played
  <2>2. CASE n # 0
    <3>1. n \in 1 .. n
      BY <1>1, <2>2
    <3>2. /\ t[n].starts \in Nat
          /\ Mp3!Played(f, t, n) = t[n].starts + Mp3!Length(f.headers[t[n].at])
          /\ Mp3!Length(f.headers[t[n].at]) \in Nat
      BY <3>1, FramesTyped, FrameOf
    <3> QED
      BY <3>2
  <2> QED
    BY <2>1, <2>2
<1>4. e \in R /\ e.at = q /\ e.starts = Mp3!Played(f, t, n)
  BY <1>2, <1>3
<1> HIDE DEF e, R
<1>5. /\ u \in Seq(R) /\ Len(u) = n + 1 /\ DOMAIN u = 1 .. n + 1
      /\ u[n + 1] = e /\ \A i \in 1 .. n : u[i] = t[i]
  BY <1>1, <1>4, AppendProperties
<1> HIDE DEF u, n
<1>6. \A i \in 0 .. n : /\ Mp3!Ends(f, u, i) = Mp3!Ends(f, t, i)
                        /\ Mp3!Played(f, u, i) = Mp3!Played(f, t, i)
  <2> SUFFICES ASSUME NEW i \in 0 .. n
               PROVE  /\ Mp3!Ends(f, u, i) = Mp3!Ends(f, t, i)
                      /\ Mp3!Played(f, u, i) = Mp3!Played(f, t, i)
    OBVIOUS
  <2>1. i = 0 \/ i \in 1 .. n
    BY <1>1
  <2> QED
    BY <1>5, <2>1 DEF Mp3!Ends, Mp3!Played
<1>7. ASSUME NEW i \in DOMAIN u
      PROVE  /\ Mp3!FrameAfter(f, Mp3!Ends(f, u, i - 1), u[i].at)
             /\ u[i].starts = Mp3!Played(f, u, i - 1)
  <2>1. /\ i - 1 \in 0 .. n
        /\ i \in 1 .. n \/ i = n + 1
    BY <1>1, <1>5
  <2>2. /\ Mp3!Ends(f, u, i - 1) = Mp3!Ends(f, t, i - 1)
        /\ Mp3!Played(f, u, i - 1) = Mp3!Played(f, t, i - 1)
    BY <1>6, <2>1
  <2>3. CASE i \in 1 .. n
    BY <1>1, <1>5, <2>2, <2>3 DEF Frames
  <2>4. CASE i = n + 1
    <3>1. i - 1 = n /\ u[i] = e
      BY <1>1, <1>5, <2>4
    <3> QED
      BY <1>4, <2>2, <3>1 DEF n
  <2> QED
    BY <2>1, <2>3, <2>4
<1>8. Frames(f, u)
  BY <1>5, <1>7 DEF Frames, R
<1> QED
  BY <1>5, <1>8 DEF n

(* Every file has a track: what a recording plays is settled by its file. *)
THEOREM EveryFileHasTrack ==
    ASSUME NEW f, Mp3!IsFile(f)
    PROVE  \E track : Mp3!IsTrack(f, track)
<1> SUFFICES ASSUME \A t : ~ Mp3!IsTrack(f, t) PROVE FALSE
  OBVIOUS
<1> DEFINE S == {n \in Nat : \E t : Frames(f, t) /\ Len(t) = n}
<1>1. 0 \in S
  <2>1. <<>> \in Seq([at : Nat, starts : Nat]) /\ DOMAIN <<>> = {} /\ Len(<<>>) = 0
    OBVIOUS
  <2>2. Frames(f, <<>>)
    BY <2>1 DEF Frames
  <2> QED
    BY <2>1, <2>2
<1>2. ASSUME NEW n \in Nat, n \in S PROVE n + 1 \in S
  <2>1. PICK t : Frames(f, t) /\ Len(t) = n
    BY <1>2
  <2>2. PICK q : Mp3!FrameAfter(f, Mp3!Ends(f, t, Len(t)), q)
    BY <2>1 DEF Frames, Mp3!IsTrack
  <2>3. \E u : Frames(f, u) /\ Len(u) = Len(t) + 1
    BY <2>1, <2>2, FramesGrow
  <2> QED
    BY <2>1, <2>3
<1>3. \A n \in Nat : n \in S
  <2> HIDE DEF S
  <2> QED
    BY <1>1, <1>2, NatSetInduction
<1>4. f.length \in Nat
  BY DEF Mp3!IsFile
<1>5. PICK t : Frames(f, t) /\ Len(t) = f.length + 1
  BY <1>3, <1>4
<1> QED
  BY <1>4, <1>5, FramesFit

(* What _mp3_duration_ms() computes of a file is what a reading of it frame by frame
   comes to, be there a tag, a trailer, junk or an end that cannot be read
   (providers/edge.py:342-397).                                                     *)
THEOREM Mp3Duration ==
    ASSUME NEW f, Mp3!IsFile(f), NEW track, Mp3!IsTrack(f, track)
    PROVE  Mp3!DurationMs(f) = Mp3!PlayingTime(f, track)
<1> DEFINE n == Len(track)
           w == Mp3!WalkFrom(f)
           E(i) == Mp3!Ends(f, track, i)
           P(i) == Mp3!Played(f, track, i)
           whole == Mp3!Whole(f, track)
           Claim(i) == /\ w[E(i)] = IF whole THEN P(n) - P(i) ELSE Mp3!Malformed
                       /\ P(i) <= P(n)
<1>0. Frames(f, track)
  BY DEF Frames, Mp3!IsTrack
<1>1. /\ n \in Nat /\ DOMAIN track = 1 .. n
      /\ \A i \in 1 .. n : track[i].at \in Nat /\ track[i].starts \in Nat
  BY <1>0, FramesTyped
<1>2. \A p \in Nat : w[p] = SyncStep(f, p, w[NextSync(f, p)])
  BY Mp3Walk
<1>3. ASSUME NEW i \in 1 .. n
      PROVE  /\ Mp3!FrameAfter(f, E(i - 1), track[i].at)
             /\ track[i].starts = P(i - 1)
             /\ f.headers[track[i].at] \in Mp3!Headers
             /\ Mp3!FrameBytes(f.headers[track[i].at]) \in Nat
             /\ Mp3!Length(f.headers[track[i].at]) \in Nat
             /\ E(i) = track[i].at + Mp3!FrameBytes(f.headers[track[i].at])
             /\ P(i) = track[i].starts + Mp3!Length(f.headers[track[i].at])
  BY <1>0, FrameOf
<1>4. E(0) \in Nat /\ E(0) = Mp3!AudioStart(f) /\ P(0) = 0
  BY DEF Mp3!Ends, Mp3!Played, Mp3!AudioStart, Mp3!IsFile, Mp3!NoTag
<1>5. \A i \in 0 .. n : E(i) \in Nat /\ P(i) \in Nat
  <2> SUFFICES ASSUME NEW i \in 1 .. n PROVE E(i) \in Nat /\ P(i) \in Nat
    <3>1. \A i \in 0 .. n : i = 0 \/ i \in 1 .. n
      BY <1>1
    <3> HIDE DEF E, P, n
    <3> QED
      BY <1>4, <3>1
  <2> DEFINE h == f.headers[track[i].at]
  <2>1. /\ track[i].at \in Nat /\ track[i].starts \in Nat
        /\ Mp3!FrameBytes(h) \in Nat /\ Mp3!Length(h) \in Nat
        /\ E(i) = track[i].at + Mp3!FrameBytes(h) /\ P(i) = track[i].starts + Mp3!Length(h)
    BY <1>1, <1>3
  <2> HIDE DEF E, P, n, h
  <2> QED
    BY <2>1
<1>6. Claim(n)
  <2> DEFINE p == E(n)
             q == Mp3!Min(Mp3!Ahead(f, p))
  <2>1. p \in Nat /\ P(n) \in Nat /\ w[p] = SyncStep(f, p, w[NextSync(f, p)])
    <3>1. n \in 0 .. n
      BY <1>1
    <3> HIDE DEF E, P, n, w
    <3> QED
      BY <1>2, <1>5, <3>1
  <2>2. whole <=> Mp3!Ahead(f, p) = {} /\ Mp3!AudioEnd(f) - 3 - p <= Mp3!MaxJunk
    BY DEF Mp3!Whole
  <2>3. Mp3!AudioEnd(f) \in Int /\ Mp3!MaxJunk \in Int
    BY DEF Mp3!AudioEnd, Mp3!IsFile, Mp3!MaxJunk
  <2>4. Mp3!Ahead(f, p) # {} => q - p > Mp3!MaxJunk \/ Mp3!Undecodable(f.headers[q])
    <3> SUFFICES ASSUME Mp3!Ahead(f, p) # {}, ~ Mp3!Undecodable(f.headers[q])
                 PROVE  q - p > Mp3!MaxJunk
      OBVIOUS
    <3>1. q \in Mp3!Ahead(f, p) /\ q \in Nat /\ \A r \in Mp3!Ahead(f, p) : q <= r
      BY <2>1, FirstAhead
    <3>2. ~ Mp3!FrameAfter(f, p, q)
      BY <3>1 DEF Mp3!IsTrack, Mp3!Ahead
    <3>3. ~ (q - p <= Mp3!MaxJunk)
      <4> HIDE DEF p, q
      <4> QED
        BY <3>1, <3>2 DEF Mp3!FrameAfter
    <3> HIDE DEF p, q
    <3> QED
      BY <2>1, <2>3, <3>1, <3>3
  <2> HIDE DEF p, w, whole, P
  <2>5. w[p] = IF whole THEN 0 ELSE Mp3!Malformed
    <3>1. CASE Mp3!Ahead(f, p) = {}
      <4>1. w[p] = IF Mp3!AudioEnd(f) - 3 - p > Mp3!MaxJunk THEN Mp3!Malformed ELSE 0
        BY <2>1, <3>1 DEF SyncStep
      <4> QED
        BY <2>1, <2>2, <2>3, <3>1, <4>1
    <3>2. CASE Mp3!Ahead(f, p) # {}
      BY <2>1, <2>2, <2>4, <3>2 DEF SyncStep
    <3> QED
      BY <3>1, <3>2
  <2>6. P(n) - P(n) = 0 /\ P(n) <= P(n)
    BY <2>1
  <2> QED
    BY <2>5, <2>6 DEF p
<1>7. ASSUME NEW i \in 0 .. n, i < n, Claim(i + 1) PROVE Claim(i)
  <2> DEFINE p == E(i)
             q == track[i + 1].at
             h == f.headers[q]
  <2>1. /\ i + 1 \in 1 .. n /\ i + 1 \in 0 .. n /\ n \in 0 .. n
        /\ i + 1 - 1 = i
    BY <1>1, <1>7
  <2>2. /\ Mp3!FrameAfter(f, p, q)
        /\ Mp3!FrameBytes(h) \in Nat /\ Mp3!Length(h) \in Nat
        /\ E(i + 1) = q + Mp3!FrameBytes(h)
        /\ P(i + 1) = P(i) + Mp3!Length(h)
    <3> HIDE DEF E, P, n
    <3> QED
      BY <1>3, <2>1 DEF p
  <2>3. p \in Nat /\ q \in Nat /\ P(i) \in Nat /\ P(n) \in Nat /\ P(i + 1) \in Nat
    <3> HIDE DEF E, P, n
    <3> QED
      BY <1>1, <1>5, <2>1 DEF p
  <2>4. Mp3!Ahead(f, p) # {} /\ Mp3!Min(Mp3!Ahead(f, p)) = q
    <3> DEFINE m == Mp3!Min(Mp3!Ahead(f, p))
    <3>1. q \in Mp3!Ahead(f, p) /\ \A r \in Mp3!Ahead(f, p) : q <= r
      BY <2>2 DEF Mp3!FrameAfter
    <3>2. m \in Mp3!Ahead(f, p) /\ m \in Nat /\ \A r \in Mp3!Ahead(f, p) : m <= r
      BY <2>3, <3>1, FirstAhead
    <3>3. m <= q /\ q <= m
      BY <3>1, <3>2
    <3> HIDE DEF m, p, q
    <3>4. m = q
      BY <2>3, <3>2, <3>3
    <3> QED
      BY <3>1, <3>4 DEF m
  <2>5. ~ Mp3!Undecodable(h) /\ q - p <= Mp3!MaxJunk
    BY <2>2 DEF Mp3!FrameAfter
  <2>6. NextSync(f, p) = E(i + 1)
    BY <2>2, <2>4, <2>5 DEF NextSync
  <2> DEFINE rest == w[E(i + 1)]
  <2>7. w[p] = IF rest = Mp3!Malformed THEN Mp3!Malformed ELSE Mp3!Length(h) + rest
    <3>1. w[p] = SyncStep(f, p, rest)
      BY <1>2, <2>3, <2>6
    <3>2. ~ (q - p > Mp3!MaxJunk)
      BY <2>3, <2>5 DEF Mp3!MaxJunk
    <3> HIDE DEF w, p, q, E
    <3> QED
      BY <2>4, <2>5, <3>1, <3>2 DEF SyncStep
  <2>8. /\ rest = IF whole THEN P(n) - P(i + 1) ELSE Mp3!Malformed
        /\ P(i + 1) <= P(n)
    BY <1>7
  <2> DEFINE l == Mp3!Length(h)
  <2>9. l \in Nat /\ P(i + 1) = P(i) + l
    BY <2>2
  <2>10. w[p] = IF rest = Mp3!Malformed THEN Mp3!Malformed ELSE l + rest
    BY <2>7
  <2> HIDE DEF w, whole, P, rest, l, p, E, n
  <2> QED
    BY <2>3, <2>8, <2>9, <2>10 DEF p, Mp3!Malformed
<1>8. Claim(0)
  <2> HIDE DEF Claim, n
  <2> DEFINE T == {i \in Nat : i \in 0 .. n => Claim(i)}
             next == [i \in Nat |-> i + 1]
  <2>1. \A i \in Nat : next[i] \in Nat /\ next[i] > i
    OBVIOUS
  <2>2. \A i \in Nat : i >= n => i \in T
    <3>1. \A i \in 0 .. n : i >= n => i = n
      BY <1>1
    <3> QED
      BY <1>6, <3>1
  <2>3. \A i \in Nat : next[i] \in T => i \in T
    <3> SUFFICES ASSUME NEW i \in Nat, i + 1 \in T, i \in 0 .. n, i < n PROVE Claim(i)
      BY <1>1, <2>2
    <3>1. Claim(i + 1)
      BY <1>1
    <3> QED
      BY <1>7, <3>1
  <2>4. n \in Nat
    BY <1>1
  <2> HIDE DEF T, next
  <2>5. 0 \in T
    BY <2>1, <2>2, <2>3, <2>4, BackwardInduction
  <2> QED
    BY <2>4, <2>5 DEF T
<1>9. Mp3!Walked(f) = IF whole THEN P(n) ELSE Mp3!Malformed
  <2>1. Mp3!Walked(f) = w[E(0)]
    BY <1>4 DEF Mp3!Walked
  <2>2. P(n) \in Nat /\ P(n) - 0 = P(n)
    <3>1. n \in 0 .. n
      BY <1>1
    <3> HIDE DEF P, n
    <3> QED
      BY <1>5, <3>1
  <2> HIDE DEF P, E, w, whole, n
  <2> QED
    BY <1>4, <1>8, <2>1, <2>2
<1>10. f.length < 4 => P(n) = 0
  <2> SUFFICES ASSUME f.length < 4 PROVE n = 0
    BY <1>4
  <2> SUFFICES ASSUME 1 \in 1 .. n PROVE FALSE
    BY <1>1
  <2>1. track[1].at \in Nat /\ track[1].at + 4 <= Mp3!AudioEnd(f)
    <3>1. Mp3!FrameAfter(f, E(1 - 1), track[1].at)
      BY <1>3
    <3> QED
      BY <1>1, <3>1 DEF Mp3!FrameAfter, Mp3!Ahead
  <2>2. Mp3!AudioEnd(f) <= f.length /\ f.length \in Nat /\ Mp3!AudioEnd(f) \in Int
    BY DEF Mp3!AudioEnd, Mp3!IsFile
  <2> QED
    BY <2>1, <2>2
<1>11. Mp3!ToMs(0) = 0
  BY DEF Mp3!ToMs, Mp3!Second
<1>12. P(n) \in Nat
  <2>1. n \in 0 .. n
    BY <1>1
  <2> HIDE DEF P, n
  <2> QED
    BY <1>5, <2>1
<1>13. Mp3!PlayingTime(f, track) = IF whole THEN Mp3!ToMs(P(n)) ELSE 0
  BY DEF Mp3!PlayingTime
<1> HIDE DEF P, n, whole
<1>14. P(n) # Mp3!Malformed
  BY <1>12 DEF Mp3!Malformed
<1> QED
  BY <1>9, <1>10, <1>11, <1>13, <1>14 DEF Mp3!DurationMs
-----------------------------------------------------------------------------
(* The cache among the requests of EdgeSpeech, and the time they take. *)
Stored == UNION {Renderings(k) : k \in Keys}

Outcomes == Retried \cup {None, "audio", "empty", "fatal", "cut"}

Stays == [stage : {"idle", "trying", "pausing", "rendering"},
          key : Keys \cup {None}, attempt : Nat, elapsed : Nat,
          last_exc : Outcomes, slowest : Nat, outcome : Outcomes]

(* However long a request has taken, its attempts and pauses account for it. *)
WithinBudget(r) ==
    /\ r.key \in Keys
    /\ r.attempt \in 1 .. budget
    /\ r.elapsed <= RequestTimeout
    /\ r.stage = "trying" =>
          /\ r.elapsed <= (r.attempt - 1) * r.slowest + Pauses(r.attempt)
          /\ r.attempt = 1 => r.elapsed = 0
    /\ r.stage # "trying" =>
          /\ r.elapsed <= r.attempt * r.slowest + Pauses(r.attempt)
          /\ r.attempt = 1 => r.elapsed <= AttemptTimeout
    /\ r.stage = "pausing" => r.attempt < budget

RequestInv == /\ budget \in Int
              /\ request \in Stays
              /\ request.stage # "idle" => WithinBudget(request)

EdgeInv == /\ CacheInv(Stored)
           /\ RequestInv
           /\ TimeoutNeedsSlowAttempt
           /\ FailureUsesBudget

(* The pauses are 1, 2 and 4 seconds, then 8 each. *)
LEMMA BackoffIsPause ==
    \A n \in Nat \ {0} : /\ Backoff(n) \in Nat /\ Pauses(n) \in Nat
                         /\ Pauses(n + 1) = Pauses(n) + Backoff(n)
                         /\ Backoff(1) = 1 /\ Pauses(1) = 0
<1>1. 2 ^ 0 = 1 /\ 2 ^ 1 = 2 /\ 2 ^ 2 = 4 /\ 2 ^ 3 = 8
  OBVIOUS
<1>2. /\ Backoff(1) = 1 /\ Backoff(2) = 2 /\ Backoff(3) = 4
      /\ Pauses(1) = 0 /\ Pauses(2) = 1 /\ Pauses(3) = 3 /\ Pauses(4) = 7
  <2>1. 1 - 1 = 0 /\ 2 - 1 = 1 /\ 3 - 1 = 2 /\ 4 - 1 = 3
    OBVIOUS
  <2> QED
    BY <1>1, <2>1 DEF Backoff, Pauses
<1>3. \A n \in Nat : n > 3 => Backoff(n) = 8 /\ Pauses(n) = 7 + 8 * (n - 4)
  <2>1. 7 + 8 * (4 - 4) = 7
    OBVIOUS
  <2>2. \A n \in Nat : n > 4 => Pauses(n) = 7 + 8 * (n - 4)
    BY DEF Pauses
  <2>3. \A n \in Nat : n > 3 => Backoff(n) = 8 /\ (n = 4 \/ n > 4)
    BY DEF Backoff
  <2> QED
    BY <1>2, <2>1, <2>2, <2>3
<1> SUFFICES ASSUME NEW n \in Nat \ {0}
             PROVE  /\ Backoff(n) \in Nat /\ Pauses(n) \in Nat
                    /\ Pauses(n + 1) = Pauses(n) + Backoff(n)
  BY <1>2
<1>4. CASE n \in {1, 2, 3}
  <2>1. 1 + 1 = 2 /\ 2 + 1 = 3 /\ 3 + 1 = 4
    OBVIOUS
  <2> QED
    BY <1>2, <1>4, <2>1
<1>5. CASE n > 3
  BY <1>3, <1>5
<1> QED
  BY <1>4, <1>5

LEMMA PausesGrow ==
    \A m, n \in Nat \ {0} : m <= n => Pauses(m) <= Pauses(n)
<1>1. 2 ^ 0 = 1 /\ 2 ^ 1 = 2 /\ 2 ^ 2 = 4 /\ 2 ^ 3 = 8
  OBVIOUS
<1>2. Pauses(1) = 0 /\ Pauses(2) = 1 /\ Pauses(3) = 3 /\ Pauses(4) = 7
  <2>1. 1 - 1 = 0 /\ 2 - 1 = 1 /\ 3 - 1 = 2 /\ 4 - 1 = 3
    OBVIOUS
  <2> QED
    BY <1>1, <2>1 DEF Pauses
<1>3. \A n \in Nat : n > 4 => Pauses(n) = 7 + 8 * (n - 4)
  BY DEF Pauses
<1> SUFFICES ASSUME NEW m \in Nat \ {0}, NEW n \in Nat \ {0}, m <= n
             PROVE  Pauses(m) <= Pauses(n)
  OBVIOUS
<1>4. m \in {1, 2, 3, 4} \/ m > 4
  OBVIOUS
<1>5. n \in {1, 2, 3, 4} \/ n > 4
  OBVIOUS
<1> QED
  BY <1>2, <1>3, <1>4, <1>5

LEMMA TimesGrow ==
    \A m, n, s, t \in Nat : m <= n /\ s <= t => m * s <= n * t
<1> SUFFICES ASSUME NEW m \in Nat, NEW n \in Nat, NEW s \in Nat, NEW t \in Nat,
                    m <= n, s <= t
             PROVE  m * s <= n * t
  OBVIOUS
<1>1. m * s <= m * t
  OBVIOUS
<1>2. m * t <= n * t
  OBVIOUS
<1> QED
  BY <1>1, <1>2

(* An attempt that ends: what it adds to the request's record. *)
LEMMA AttemptEnds ==
    ASSUME RequestInv, request.stage = "trying",
           NEW outcome \in Outcomes, NEW d \in Nat, InTime(d)
    PROVE  LET r == Ended(outcome, d)
           IN  /\ r \in Stays
               /\ r.key = request.key /\ r.attempt = request.attempt
               /\ r.stage = "trying"
               /\ r.attempt \in 1 .. budget
               /\ r.elapsed = request.elapsed + d
               /\ r.outcome = outcome
               /\ r.elapsed <= RequestTimeout
               /\ r.elapsed <= r.attempt * r.slowest + Pauses(r.attempt)
               /\ r.attempt = 1 => r.elapsed = d
<1> DEFINE r == Ended(outcome, d)
           a == request.attempt
<1>1. /\ request \in Stays /\ WithinBudget(request) /\ budget \in Int
  BY DEF RequestInv
<1>2. Max({request.slowest, d}) = IF request.slowest >= d THEN request.slowest ELSE d
  BY <1>1 DEF Max, Stays
<1>3. /\ r \in Stays
      /\ r.key = request.key /\ r.attempt = a
      /\ r.stage = "trying"
      /\ r.elapsed = request.elapsed + d
      /\ r.outcome = outcome
      /\ r.slowest = IF request.slowest >= d THEN request.slowest ELSE d
  <2> DEFINE x == Max({request.slowest, d})
  <2>1. x \in Nat
    BY <1>1, <1>2 DEF Stays
  <2> HIDE DEF x
  <2>2. r = [request EXCEPT !.elapsed = @ + d, !.slowest = x, !.outcome = outcome]
    BY DEF Ended, x
  <2>3. request.elapsed + d \in Nat
    BY <1>1 DEF Stays
  <2> HIDE DEF r
  <2>4. r \in Stays
    BY <1>1, <2>1, <2>2, <2>3 DEF Stays
  <2>5. /\ r.key = request.key /\ r.attempt = a
        /\ r.stage = "trying"
        /\ r.elapsed = request.elapsed + d
        /\ r.outcome = outcome
        /\ r.slowest = x
    BY <1>1, <2>2 DEF Stays
  <2> QED
    BY <1>2, <2>4, <2>5 DEF x
<1> HIDE DEF r
<1>4. /\ a \in Nat \ {0} /\ a \in 1 .. budget
      /\ request.elapsed \in Nat /\ request.slowest \in Nat /\ r.slowest \in Nat
      /\ request.elapsed <= (a - 1) * request.slowest + Pauses(a)
      /\ a = 1 => request.elapsed = 0
      /\ Pauses(a) \in Nat
  BY <1>1, <1>3, BackoffIsPause DEF WithinBudget, Stays
<1>5. r.elapsed <= RequestTimeout
  BY <1>3 DEF InTime
<1>6. (a - 1) * request.slowest <= (a - 1) * r.slowest
  <2>1. a - 1 \in Nat /\ request.slowest <= r.slowest
    BY <1>3, <1>4
  <2> HIDE DEF a
  <2> QED
    BY <1>4, <2>1, TimesGrow
<1>7. a * r.slowest = (a - 1) * r.slowest + r.slowest
  <2> HIDE DEF a
  <2> QED
    BY <1>4
<1>8. r.elapsed <= a * r.slowest + Pauses(a)
  <2>1. (a - 1) * request.slowest \in Int /\ (a - 1) * r.slowest \in Int
        /\ d <= r.slowest
    <3> HIDE DEF a
    <3> QED
      BY <1>3, <1>4
  <2> HIDE DEF a
  <2> QED
    BY <1>3, <1>4, <1>6, <1>7, <2>1
<1> QED
  BY <1>3, <1>4, <1>5, <1>8 DEF r

(* Whoever is answered after n attempts and their pauses was entitled to them. *)
LEMMA TimeoutWasSlow ==
    ASSUME budget \in Int, budget' = budget, NEW n \in 1 .. budget, answer'.request.slowest \in Nat,
           answer'.request.elapsed = RequestTimeout =>
               RequestTimeout <= n * answer'.request.slowest + Pauses(n),
           answer'.request.attempt \in Nat \ {0},
           answer'.request.elapsed = RequestTimeout /\ answer'.request.attempt = 1 =>
               RequestTimeout <= AttemptTimeout + 1
    PROVE  TimeoutNeedsSlowAttempt'
<1> DEFINE r == answer'.request
<1> SUFFICES ASSUME r.elapsed = RequestTimeout
             PROVE  /\ budget * r.slowest + Pauses(budget) >= RequestTimeout
                    /\ AttemptTimeout + 1 < RequestTimeout => r.attempt >= 2
  BY DEF TimeoutNeedsSlowAttempt
<1>1. n * r.slowest <= budget * r.slowest /\ Pauses(n) <= Pauses(budget)
  <2>1. n \in Nat \ {0} /\ budget \in Nat \ {0} /\ n <= budget
    OBVIOUS
  <2> HIDE DEF r
  <2>2. r.slowest \in Nat /\ r.slowest <= r.slowest
    BY DEF r
  <2> QED
    BY <2>1, <2>2, TimesGrow, PausesGrow
<1>2. n * r.slowest \in Int /\ budget * r.slowest \in Int /\ Pauses(n) \in Int
      /\ Pauses(budget) \in Int
  <2>1. n \in Nat \ {0} /\ budget \in Nat \ {0} /\ r.slowest \in Nat
    OBVIOUS
  <2> HIDE DEF r
  <2> QED
    BY <2>1, BackoffIsPause
<1>3. r.attempt >= 2 \/ r.attempt = 1
  OBVIOUS
<1> QED
  BY <1>1, <1>2, <1>3, EdgeAssumption

LEMMA IdleIsStay ==
    /\ Idle \in Stays /\ Idle.stage = "idle" /\ Idle.elapsed = 0 /\ Idle.slowest = 0
    /\ Idle.outcome = None
BY DEF Idle, Stays, Outcomes

LEMMA AskInv == ASSUME EdgeInv, NEW k \in Keys, Ask(k) PROVE EdgeInv'
<1>1. CacheInv(Stored)'
  BY GetInv DEF EdgeInv, Ask
<1> DEFINE r == [Idle EXCEPT !.stage = "trying", !.key = k, !.attempt = 1]
<1>2. /\ r \in Stays
      /\ r.stage = "trying" /\ r.key = k /\ r.attempt = 1
      /\ r.elapsed = 0 /\ r.slowest = 0 /\ r.outcome = None
  <2>1. [Idle EXCEPT !.stage = "trying", !.key = k] \in Stays
    BY IdleIsStay DEF Stays
  <2>2. r \in Stays
    BY IdleIsStay DEF Stays
  <2> QED
    BY <2>2, IdleIsStay DEF Stays
<1>3. budget' = budget /\ budget \in Int
  BY DEF Ask, EdgeInv, RequestInv
<1> HIDE DEF r
<1>4. Idle \in Stays /\ Idle.stage = "idle"
  BY IdleIsStay
<1>5. CASE result' # NoAudio
  <2>1. request' = Idle /\ answer'.kind = "ok"
    BY <1>5 DEF Ask, Answered
  <2> QED
    BY <1>1, <1>3, <1>4, <2>1
       DEF EdgeInv, RequestInv, TimeoutNeedsSlowAttempt, FailureUsesBudget
<1>6. CASE result' = NoAudio /\ budget < 1
  <2>1. request' = Idle /\ answer' = [kind |-> "failed", cause |-> None, audio |-> NoAudio,
                                      request |-> [r EXCEPT !.attempt = 0]]
    BY <1>6 DEF Ask, Answered, r
  <2>2. [r EXCEPT !.attempt = 0].attempt = 0 /\ [r EXCEPT !.attempt = 0].outcome = None
    BY <1>2 DEF Stays
  <2> QED
    BY <1>1, <1>3, <1>4, <1>6, <2>1, <2>2
       DEF EdgeInv, RequestInv, TimeoutNeedsSlowAttempt, FailureUsesBudget
<1>7. CASE result' = NoAudio /\ ~ (budget < 1)
  <2>1. request' = r /\ answer' = NoAnswer
    BY <1>7 DEF Ask, GoesOn, r
  <2>2. (1 - 1) * 0 + Pauses(1) = 0 /\ 0 <= RequestTimeout
    <3>1. Pauses(1) = 0
      BY BackoffIsPause
    <3> QED
      BY <3>1, EdgeAssumption
  <2>3. WithinBudget(request)'
    BY <1>2, <1>3, <1>7, <2>1, <2>2 DEF WithinBudget
  <2> QED
    BY <1>1, <1>2, <1>3, <2>1, <2>3
       DEF EdgeInv, RequestInv, TimeoutNeedsSlowAttempt, FailureUsesBudget, NoAnswer, None
<1> QED
  BY <1>5, <1>6, <1>7

LEMMA SpeaksInv == ASSUME EdgeInv, Speaks PROVE EdgeInv'
<1>1. PICK d \in Latencies : InTime(d) /\
          IF request.key \in WantsWav
          THEN /\ GoesOn([Ended("audio", d) EXCEPT !.stage = "rendering"])
               /\ UNCHANGED vars
          ELSE \E audio \in Renderings(request.key) : Delivered(Ended("audio", d), audio)
  BY DEF Speaks
<1>2. request.key \in Keys /\ budget' = budget /\ budget \in Int /\ request.stage = "trying"
  BY DEF Speaks, EdgeInv, RequestInv, WithinBudget
<1>3. CASE request.key \notin WantsWav
  <2>1. PICK audio \in Renderings(request.key) : Delivered(Ended("audio", d), audio)
    BY <1>1, <1>3
  <2>2. audio \in Stored
    BY <1>2 DEF Stored
  <2>3. Ended("audio", d).key = request.key
    BY <1>2 DEF Ended, EdgeInv, RequestInv, Stays
  <2>4. CacheInv(Stored)'
    BY <1>2, <2>1, <2>2, <2>3, PutInv DEF EdgeInv, Delivered
  <2>5. request' = Idle /\ answer'.kind \in {"ok", "server_error"}
    BY <2>1 DEF Delivered, Answered
  <2> QED
    BY <1>2, <2>4, <2>5, IdleIsStay
       DEF EdgeInv, RequestInv, TimeoutNeedsSlowAttempt, FailureUsesBudget
<1>4. CASE request.key \in WantsWav
  <2> DEFINE r == Ended("audio", d)
  <2>1. /\ r \in Stays
        /\ r.key = request.key
        /\ r.attempt \in 1 .. budget
        /\ r.elapsed <= RequestTimeout
        /\ r.elapsed <= r.attempt * r.slowest + Pauses(r.attempt)
        /\ r.attempt = 1 => r.elapsed = d
    <3>1. d \in Nat /\ "audio" \in Outcomes
      BY EdgeAssumption DEF Outcomes
    <3> QED
      BY <1>1, <1>2, <3>1, AttemptEnds DEF EdgeInv
  <2>2. d <= AttemptTimeout
    BY EdgeAssumption
  <2>3. request' = [r EXCEPT !.stage = "rendering"] /\ answer' = NoAnswer /\ UNCHANGED vars
    BY <1>1, <1>4 DEF GoesOn
  <2> HIDE DEF r
  <2>4. /\ request' \in Stays /\ request'.stage = "rendering"
        /\ request'.key = r.key /\ request'.attempt = r.attempt
        /\ request'.elapsed = r.elapsed /\ request'.slowest = r.slowest
    BY <2>1, <2>3 DEF Stays
  <2>5. WithinBudget(request)'
    BY <1>2, <2>1, <2>2, <2>4 DEF WithinBudget
  <2>6. CacheInv(Stored)'
    BY <2>3, StutterInv DEF EdgeInv
  <2> QED
    BY <1>2, <2>3, <2>4, <2>5, <2>6
       DEF EdgeInv, RequestInv, TimeoutNeedsSlowAttempt, FailureUsesBudget, NoAnswer, None
<1> QED
  BY <1>3, <1>4

LEMMA FailsInv == ASSUME EdgeInv, Fails PROVE EdgeInv'
<1>1. PICK outcome \in Retried \cup {"empty", "fatal"},
          d \in Latencies \cup {AttemptTimeout} :
          LET r == [Ended(outcome, d) EXCEPT !.last_exc = LastExc(outcome)]
          IN  /\ InTime(d)
              /\ d = AttemptTimeout => outcome = "timeout"
              /\ IF outcome \notin Retried \cup {"empty"} THEN Raised(r, outcome)
                 ELSE IF request.attempt >= budget THEN Raised(r, r.last_exc)
                 ELSE GoesOn([r EXCEPT !.stage = "pausing"])
  BY DEF Fails
<1>2. /\ request.stage = "trying" /\ budget' = budget /\ budget \in Int /\ UNCHANGED vars
      /\ request.key \in Keys
  BY DEF Fails, EdgeInv, RequestInv, WithinBudget
<1>3. CacheInv(Stored)'
  BY <1>2, StutterInv DEF EdgeInv
<1> DEFINE e == Ended(outcome, d)
           r == [e EXCEPT !.last_exc = LastExc(outcome)]
<1>4. d \in Nat /\ d <= AttemptTimeout /\ outcome \in Outcomes
  BY EdgeAssumption DEF Outcomes
<1>5. /\ e \in Stays
      /\ e.key = request.key /\ e.attempt = request.attempt
      /\ e.attempt \in 1 .. budget
      /\ e.outcome = outcome
      /\ e.elapsed <= RequestTimeout
      /\ e.elapsed <= e.attempt * e.slowest + Pauses(e.attempt)
      /\ e.attempt = 1 => e.elapsed = d
  BY <1>1, <1>2, <1>4, AttemptEnds DEF EdgeInv
<1> HIDE DEF e
<1>6. /\ r \in Stays
      /\ r.key \in Keys /\ r.attempt = request.attempt
      /\ r.attempt \in 1 .. budget
      /\ r.outcome = outcome /\ r.last_exc = outcome
      /\ r.elapsed <= RequestTimeout
      /\ r.elapsed <= r.attempt * r.slowest + Pauses(r.attempt)
      /\ r.attempt = 1 => r.elapsed <= AttemptTimeout
  BY <1>2, <1>4, <1>5 DEF Stays, LastExc
<1>7. IF outcome \notin Retried \cup {"empty"} THEN Raised(r, outcome)
      ELSE IF request.attempt >= budget THEN Raised(r, r.last_exc)
      ELSE GoesOn([r EXCEPT !.stage = "pausing"])
  BY <1>1 DEF e
<1> HIDE DEF r
<1>8. ASSUME Raised(r, outcome), outcome = "fatal" \/ request.attempt >= budget
      PROVE  EdgeInv'
  <2>1. /\ request' = Idle /\ answer'.request = r /\ answer'.cause = outcome
    BY <1>8 DEF Raised, Answered
  <2>2. r.attempt \in Nat \ {0} /\ r.slowest \in Nat
    BY <1>6 DEF Stays
  <2>3. TimeoutNeedsSlowAttempt'
    BY <1>2, <1>6, <2>1, <2>2, EdgeAssumption, TimeoutWasSlow
  <2>4. FailureUsesBudget'
    BY <1>2, <1>6, <1>8, <2>1 DEF FailureUsesBudget
  <2> QED
    BY <1>2, <1>3, <2>1, <2>3, <2>4, IdleIsStay DEF EdgeInv, RequestInv
<1>9. CASE GoesOn([r EXCEPT !.stage = "pausing"]) /\ ~ (request.attempt >= budget)
  <2>1. /\ request' = [r EXCEPT !.stage = "pausing"] /\ answer' = NoAnswer
    BY <1>9 DEF GoesOn
  <2>2. /\ request' \in Stays /\ request'.stage = "pausing"
        /\ request'.key = r.key /\ request'.attempt = r.attempt
        /\ request'.elapsed = r.elapsed /\ request'.slowest = r.slowest
    BY <1>6, <2>1 DEF Stays
  <2>3. WithinBudget(request)'
    BY <1>2, <1>6, <1>9, <2>2 DEF WithinBudget
  <2> QED
    BY <1>2, <1>3, <2>1, <2>2, <2>3
       DEF EdgeInv, RequestInv, TimeoutNeedsSlowAttempt, FailureUsesBudget, NoAnswer, None
<1> QED
  BY <1>6, <1>7, <1>8, <1>9 DEF Retried

LEMMA TriesAgainInv == ASSUME EdgeInv, TriesAgain PROVE EdgeInv'
<1> DEFINE a == request.attempt
           b == Backoff(request.attempt)
<1>1. /\ request.stage = "pausing" /\ InTime(b) /\ UNCHANGED vars /\ budget' = budget
      /\ request' = [request EXCEPT !.stage = "trying", !.attempt = @ + 1, !.elapsed = @ + b]
      /\ answer' = NoAnswer
  BY DEF TriesAgain, GoesOn
<1>2. /\ request \in Stays /\ WithinBudget(request) /\ budget \in Int
      /\ a \in Nat \ {0} /\ a < budget /\ request.slowest \in Nat /\ request.elapsed \in Nat
  BY <1>1 DEF EdgeInv, RequestInv, WithinBudget, Stays
<1>3. b \in Nat /\ Pauses(a) \in Nat /\ Pauses(a + 1) = Pauses(a) + b
  BY <1>2, BackoffIsPause
<1>4. CacheInv(Stored)'
  BY <1>1, StutterInv DEF EdgeInv
<1> HIDE DEF b
<1>5. /\ request' \in Stays /\ request'.stage = "trying"
      /\ request'.key = request.key /\ request'.attempt = a + 1
      /\ request'.elapsed = request.elapsed + b /\ request'.slowest = request.slowest
  <2>1. a + 1 \in Nat /\ request.elapsed + b \in Nat
    BY <1>2, <1>3
  <2> QED
    BY <1>1, <1>2, <2>1 DEF Stays
<1>6. request.elapsed <= a * request.slowest + Pauses(a)
  BY <1>1, <1>2 DEF WithinBudget
<1> HIDE DEF a
<1>7. request'.elapsed <= (a + 1 - 1) * request.slowest + Pauses(a + 1)
  <2>1. a + 1 - 1 = a /\ a * request.slowest \in Int
    BY <1>2
  <2> QED
    BY <1>2, <1>3, <1>5, <1>6, <2>1
<1>8. WithinBudget(request)'
  <2>1. a + 1 \in 1 .. budget /\ a + 1 # 1
    BY <1>2
  <2>2. request'.elapsed <= RequestTimeout
    BY <1>1, <1>5 DEF InTime
  <2> QED
    BY <1>1, <1>2, <1>5, <1>7, <2>1, <2>2 DEF WithinBudget
<1> QED
  BY <1>1, <1>2, <1>4, <1>5, <1>8
     DEF EdgeInv, RequestInv, TimeoutNeedsSlowAttempt, FailureUsesBudget, NoAnswer, None

(* The request's timeout in the middle of an attempt, or of a pause. *)
LEMMA CutShortInv == ASSUME EdgeInv, CutShort PROVE EdgeInv'
<1> DEFINE a == request.attempt
           left == RequestTimeout - request.elapsed
<1>1. request.stage \in {"trying", "pausing"} /\ UNCHANGED vars /\ budget' = budget
  BY DEF CutShort
<1>2. /\ request \in Stays /\ WithinBudget(request) /\ budget \in Int
      /\ a \in Nat \ {0} /\ request.slowest \in Nat /\ request.elapsed \in Nat
      /\ left \in Nat /\ RequestTimeout \in Nat /\ AttemptTimeout \in Nat
  BY <1>1, EdgeAssumption DEF EdgeInv, RequestInv, WithinBudget, Stays
<1>3. CacheInv(Stored)'
  BY <1>1, StutterInv DEF EdgeInv
<1>4. CASE request.stage = "trying"
  <2> DEFINE r == Ended("cut", left)
  <2>1. /\ left <= AttemptTimeout
        /\ request' = Idle
        /\ answer' = [kind |-> "timed_out", cause |-> None, audio |-> NoAudio, request |-> r]
    BY <1>4 DEF CutShort, Answered
  <2>2. /\ r \in Stays /\ r.attempt = request.attempt
        /\ r.attempt \in 1 .. budget
        /\ r.elapsed = request.elapsed + left
        /\ r.elapsed <= r.attempt * r.slowest + Pauses(r.attempt)
        /\ r.attempt = 1 => r.elapsed = left
    <3>1. "cut" \in Outcomes /\ InTime(left)
      BY <1>2 DEF Outcomes, InTime
    <3> QED
      BY <1>2, <1>4, <3>1, AttemptEnds DEF EdgeInv
  <2>3. r.elapsed = RequestTimeout
    BY <1>2, <2>2
  <2> HIDE DEF r
  <2>4. r.attempt \in Nat \ {0} /\ r.slowest \in Nat
    BY <1>2, <2>2 DEF Stays
  <2>5. TimeoutNeedsSlowAttempt'
    <3>1. r.attempt = 1 => RequestTimeout <= AttemptTimeout + 1
      BY <1>2, <2>1, <2>2, <2>3
    <3>2. answer'.request = r /\ RequestTimeout <= r.attempt * r.slowest + Pauses(r.attempt)
      BY <2>1, <2>2, <2>3
    <3> QED
      BY <1>1, <1>2, <2>2, <2>4, <3>1, <3>2, TimeoutWasSlow
  <2>6. FailureUsesBudget'
    <3>1. answer'.kind # "failed" /\ ~ (answer'.request.elapsed < RequestTimeout)
      BY <1>2, <2>1, <2>3
    <3> QED
      BY <3>1 DEF FailureUsesBudget
  <2> QED
    BY <1>1, <1>2, <1>3, <2>1, <2>5, <2>6, IdleIsStay DEF EdgeInv, RequestInv
<1>5. CASE request.stage = "pausing"
  <2> DEFINE b == Backoff(request.attempt)
             r == [request EXCEPT !.elapsed = RequestTimeout]
  <2>1. /\ left <= b
        /\ request' = Idle
        /\ answer' = [kind |-> "timed_out", cause |-> None, audio |-> NoAudio, request |-> r]
    BY <1>5 DEF CutShort, Answered
  <2>2. /\ r.attempt = a /\ r.elapsed = RequestTimeout /\ r.slowest = request.slowest
    BY <1>2 DEF Stays
  <2>3. b \in Nat /\ Pauses(a) \in Nat /\ Pauses(a + 1) = Pauses(a) + b /\ Backoff(1) = 1
    BY <1>2, BackoffIsPause
  <2>4. /\ a < budget
        /\ request.elapsed <= a * request.slowest + Pauses(a)
        /\ a = 1 => request.elapsed <= AttemptTimeout
    BY <1>2, <1>5 DEF WithinBudget
  <2>5. a = 1 => b = 1
    BY <2>3
  <2> HIDE DEF b, r, a
  <2>6. a + 1 \in 1 .. budget
    BY <1>2, <2>4
  <2>7. RequestTimeout <= (a + 1) * request.slowest + Pauses(a + 1)
    <3>1. (a + 1) * request.slowest = a * request.slowest + request.slowest
          /\ a * request.slowest \in Int
      BY <1>2
    <3> QED
      BY <1>2, <2>1, <2>3, <2>4, <3>1
  <2>8. TimeoutNeedsSlowAttempt'
    <3>1. a = 1 => RequestTimeout <= AttemptTimeout + 1
      BY <1>2, <2>1, <2>4, <2>5
    <3>2. answer'.request = r
      BY <2>1
    <3> QED
      BY <1>1, <1>2, <2>2, <2>6, <2>7, <3>1, <3>2, TimeoutWasSlow
  <2>9. FailureUsesBudget'
    <3>1. answer'.kind # "failed" /\ ~ (answer'.request.elapsed < RequestTimeout)
      BY <1>2, <2>1, <2>2
    <3> QED
      BY <3>1 DEF FailureUsesBudget
  <2> QED
    BY <1>1, <1>2, <1>3, <2>1, <2>8, <2>9, IdleIsStay DEF EdgeInv, RequestInv
<1> QED
  BY <1>1, <1>4, <1>5

LEMMA TranscodeInv == ASSUME EdgeInv, Transcoded \/ TranscodeFails PROVE EdgeInv'
<1>1. /\ request' = Idle /\ answer'.kind \in {"ok", "server_error", "transcode_failed"}
      /\ budget' = budget /\ budget \in Int
  BY DEF Transcoded, TranscodeFails, Delivered, Answered, EdgeInv, RequestInv
<1>2. CacheInv(Stored)'
  <2>1. CASE Transcoded
    <3>1. PICK audio \in Renderings(request.key) : Put(request.key, audio)
      BY <2>1 DEF Transcoded, Delivered
    <3>2. request.key \in Keys
      BY <2>1 DEF Transcoded, EdgeInv, RequestInv, WithinBudget
    <3>3. audio \in Stored
      BY <3>2 DEF Stored
    <3> QED
      BY <3>1, <3>2, <3>3, PutInv DEF EdgeInv
  <2>2. CASE TranscodeFails
    BY <2>2, StutterInv DEF TranscodeFails, EdgeInv
  <2> QED
    BY <2>1, <2>2
<1> QED
  BY <1>1, <1>2, IdleIsStay
     DEF EdgeInv, RequestInv, TimeoutNeedsSlowAttempt, FailureUsesBudget

(* Steps of the cache alone leave the request as it was. *)
LEMMA RequestUntouched ==
    ASSUME EdgeInv, CacheInv(Stored)', UNCHANGED <<budget, edge_vars>>
    PROVE  EdgeInv'
<1>1. request' = request /\ answer' = answer /\ budget' = budget
  BY DEF edge_vars
<1> QED
  BY <1>1 DEF EdgeInv, RequestInv, WithinBudget, TimeoutNeedsSlowAttempt, FailureUsesBudget

LEMMA OthersInv == ASSUME EdgeInv, Others PROVE EdgeInv'
<1>1. CASE \E k \in Keys : Get(k)
  BY <1>1, GetInv, RequestUntouched DEF EdgeInv, Others
<1>2. CASE \E k \in Keys : \E audio \in Renderings(k) : Put(k, audio)
  <2>1. PICK k \in Keys, audio \in Stored : Put(k, audio)
    BY <1>2 DEF Stored
  <2>2. CacheInv(Stored)'
    BY <2>1, PutInv DEF EdgeInv
  <2> QED
    BY <2>2, RequestUntouched DEF Others
<1>3. CASE Clear
  BY <1>3, ClearInv, RequestUntouched DEF Others
<1> QED
  BY <1>1, <1>2, <1>3 DEF Others

LEMMA EdgeInitInv == EdgeInit => EdgeInv
<1> SUFFICES ASSUME EdgeInit PROVE EdgeInv
  OBVIOUS
<1>1. CacheInv(Stored)
  BY EmptyInv DEF EdgeInit, Init
<1> QED
  BY <1>1, IdleIsStay, EdgeAssumption
     DEF EdgeInit, EdgeInv, RequestInv, TimeoutNeedsSlowAttempt, FailureUsesBudget,
         NoAnswer, None

LEMMA EdgeNextInv == EdgeInv /\ [EdgeNext]_all_vars => EdgeInv'
<1> SUFFICES ASSUME EdgeInv, [EdgeNext]_all_vars PROVE EdgeInv'
  OBVIOUS
<1>1. CASE UNCHANGED all_vars
  <2>1. CacheInv(Stored)'
    BY <1>1, StutterInv DEF all_vars, EdgeInv
  <2> QED
    BY <1>1, <2>1, RequestUntouched DEF all_vars
<1>2. CASE EdgeNext
  BY <1>2, AskInv, SpeaksInv, FailsInv, TriesAgainInv, CutShortInv, TranscodeInv, OthersInv
     DEF EdgeNext
<1> QED
  BY <1>1, <1>2

THEOREM EdgeInvHolds == EdgeSpec => []EdgeInv
BY EdgeInitInv, EdgeNextInv, PTL DEF EdgeSpec

(* The cache keeps the keys used last also between the requests of a provider
   that takes its time (core/cache.py:71-88 from api/speech.py).             *)
THEOREM HoldsMostRecentThere == EdgeSpec => []HoldsMostRecent
<1>1. EdgeInv => HoldsMostRecent
  BY InvIsMostRecent DEF EdgeInv
<1> QED
  BY <1>1, EdgeInvHolds, PTL

(* A request served from the cache gets what was stored under its key last. *)
THEOREM ServesLastWrittenThere == EdgeSpec => ServesLastWritten
<1>1. EdgeInv /\ [EdgeNext]_all_vars
        => [\A k \in Keys : Get(k) => result' \in {NoAudio, written[k]}]_vars
  BY GetInv DEF EdgeInv
<1> QED
  BY <1>1, EdgeInvHolds, PTL DEF EdgeSpec, ServesLastWritten

(* The request timeout strikes only where one attempt was slower than a budget
   of equal ones could afford beside the pauses (providers/edge.py:229-268).   *)
THEOREM TimeoutsAreSlow == EdgeSpec => []TimeoutNeedsSlowAttempt
<1>1. EdgeInv => TimeoutNeedsSlowAttempt
  BY DEF EdgeInv
<1> QED
  BY <1>1, EdgeInvHolds, PTL

(* A request that fails has used its attempts, and reports the last error
   (providers/edge.py:229-281).                                           *)
THEOREM FailuresUseBudget == EdgeSpec => []FailureUsesBudget
<1>1. EdgeInv => FailureUsesBudget
  BY DEF EdgeInv
<1> QED
  BY <1>1, EdgeInvHolds, PTL
-----------------------------------------------------------------------------
(* What is answered: under each key the cache holds audio that the service may give
   for it, and so does the answer.                                               *)
AudioInv ==
    /\ \A k \in Keys : written[k] \in Renderings(k) \cup {NoAudio}
    /\ answer.kind = "ok" => /\ answer.request.key \in Keys
                             /\ answer.audio \in Renderings(answer.request.key)

LEMMA WrittenPut ==
    ASSUME AudioInv, CacheInv(Stored), NEW k \in Keys, NEW a \in Renderings(k), Put(k, a)
    PROVE  \A l \in Keys : written'[l] \in Renderings(l) \cup {NoAudio}
<1>1. written' = [written EXCEPT ![k] = a] /\ DOMAIN written = Keys
  BY DEF Put, CacheInv, CacheTyped
<1> QED
  BY <1>1 DEF AudioInv

LEMMA DeliveredAudio ==
    ASSUME AudioInv, CacheInv(Stored), NEW r, r.key \in Keys,
           NEW a \in Renderings(r.key), Delivered(r, a)
    PROVE  AudioInv'
<1>1. \A l \in Keys : written'[l] \in Renderings(l) \cup {NoAudio}
  BY WrittenPut DEF Delivered
<1>2. answer'.kind = "ok" => answer'.request = r /\ answer'.audio = a
  BY DEF Delivered, Answered
<1> QED
  BY <1>1, <1>2 DEF AudioInv, Renderings, AsWav, AsMp3

LEMMA NextAudio == EdgeInv /\ AudioInv /\ [EdgeNext]_all_vars => AudioInv'
<1> SUFFICES ASSUME EdgeInv, AudioInv, [EdgeNext]_all_vars PROVE AudioInv'
  OBVIOUS
<1>1. CacheInv(Stored)
  BY DEF EdgeInv
<1>2. ASSUME written' = written, answer' = answer \/ answer'.kind # "ok" PROVE AudioInv'
  BY <1>2 DEF AudioInv, Renderings, AsWav, AsMp3
<1>3. ASSUME NEW k \in Keys, Ask(k) PROVE AudioInv'
  <2>1. result' \in {NoAudio, written[k]} /\ written' = written
    BY <1>1, <1>3, GetInv DEF Ask, Get
  <2> DEFINE r == [Idle EXCEPT !.stage = "trying", !.key = k, !.attempt = 1]
  <2>2. CASE result' # NoAudio
    <3>1. answer' = [kind |-> "ok", cause |-> None, audio |-> result', request |-> r]
      BY <1>3, <2>2 DEF Ask, Answered
    <3>2. r.key = k
      BY DEF Idle
    <3> HIDE DEF r
    <3>3. answer'.request.key = k /\ answer'.audio = written[k]
      BY <2>1, <2>2, <3>1, <3>2
    <3> QED
      BY <2>1, <2>2, <3>3 DEF AudioInv, Renderings, AsWav, AsMp3
  <2>3. CASE result' = NoAudio
    <3>1. answer'.kind # "ok"
      BY <1>3, <2>3 DEF Ask, Answered, GoesOn, NoAnswer, None
    <3> QED
      BY <1>2, <2>1, <3>1
  <2> QED
    BY <2>2, <2>3
<1>4. CASE Speaks
  <2>1. PICK d \in Latencies : InTime(d) /\
            IF request.key \in WantsWav
            THEN /\ GoesOn([Ended("audio", d) EXCEPT !.stage = "rendering"])
                 /\ UNCHANGED vars
            ELSE \E audio \in Renderings(request.key) : Delivered(Ended("audio", d), audio)
    BY <1>4 DEF Speaks
  <2>2. request.key \in Keys /\ Ended("audio", d).key = request.key
    BY <1>4 DEF Speaks, Ended, EdgeInv, RequestInv, WithinBudget, Stays
  <2>3. CASE request.key \in WantsWav
    BY <1>2, <2>1, <2>3 DEF GoesOn, NoAnswer, None, vars
  <2>4. CASE request.key \notin WantsWav
    BY <1>1, <2>1, <2>2, <2>4, DeliveredAudio
  <2> QED
    BY <2>3, <2>4
<1>5. CASE Fails \/ TriesAgain \/ CutShort \/ TranscodeFails
  <2>1. written' = written
    BY <1>5 DEF Fails, TriesAgain, CutShort, TranscodeFails, vars
  <2>2. answer'.kind # "ok"
    <3>1. CASE Fails
      BY <3>1 DEF Fails, Raised, Answered, GoesOn, NoAnswer, None
    <3>2. CASE TriesAgain
      BY <3>2 DEF TriesAgain, GoesOn, NoAnswer, None
    <3>3. CASE CutShort
      BY <3>3 DEF CutShort, Answered
    <3>4. CASE TranscodeFails
      BY <3>4 DEF TranscodeFails, Answered
    <3> QED
      BY <1>5, <3>1, <3>2, <3>3, <3>4
  <2> QED
    BY <1>2, <2>1, <2>2
<1>6. CASE Transcoded
  <2>1. PICK audio \in Renderings(request.key) : Delivered(request, audio)
    BY <1>6 DEF Transcoded
  <2>2. request.key \in Keys
    BY <1>6 DEF Transcoded, EdgeInv, RequestInv, WithinBudget
  <2> QED
    BY <1>1, <2>1, <2>2, DeliveredAudio
<1>7. CASE Others
  <2>1. answer' = answer
    BY <1>7 DEF Others, edge_vars
  <2>2. \A l \in Keys : written'[l] \in Renderings(l) \cup {NoAudio}
    <3>1. CASE \E k \in Keys : Get(k)
      BY <3>1 DEF Get, AudioInv
    <3>2. CASE \E k \in Keys : \E audio \in Renderings(k) : Put(k, audio)
      BY <1>1, <3>2, WrittenPut
    <3>3. CASE Clear
      BY <3>3 DEF Clear
    <3> QED
      BY <1>7, <3>1, <3>2, <3>3 DEF Others
  <2> QED
    BY <2>1, <2>2 DEF AudioInv, Renderings, AsWav, AsMp3
<1>8. CASE UNCHANGED all_vars
  BY <1>2, <1>8 DEF all_vars, vars, edge_vars
<1> QED
  BY <1>3, <1>4, <1>5, <1>6, <1>7, <1>8 DEF EdgeNext

(* No answer and no entry of the cache has audio that was not made for its key. *)
THEOREM AudioInvHolds == EdgeSpec => []AudioInv
<1>1. EdgeInit => AudioInv
  BY DEF EdgeInit, Init, AudioInv, NoAnswer, None
<1> QED
  BY <1>1, NextAudio, EdgeInvHolds, PTL DEF EdgeSpec

(* Every rendering says how long its recording plays. *)
LEMMA RenderingDuration ==
    ASSUME NEW k \in Keys, NEW a \in Renderings(k)
    PROVE  /\ a.of \in Says[k]
           /\ a.ms = Recordings[a.of].ms
<1>1. ASSUME NEW m \in Says[k] PROVE AsMp3(m).of = m /\ AsMp3(m).ms = Recordings[m].ms
  <2>1. m \in DOMAIN Recordings
    BY RecordingsAssumption
  <2>2. Mp3!DurationMs(Recordings[m].file) = Recordings[m].ms
    BY <2>1, RecordingsAssumption, Mp3Duration
  <2> QED
    BY <2>2 DEF AsMp3
<1>2. ASSUME NEW m, NEW list PROVE AsWav(m, list).of = m /\ AsWav(m, list).ms = AsMp3(m).ms
  BY DEF AsWav, AsMp3
<1>3. \E m \in Says[k] : a.of = m /\ a.ms = AsMp3(m).ms
  BY <1>1, <1>2 DEF Renderings
<1> QED
  BY <1>1, <1>3

(* X-Duration-Ms is true of every answer, whether synthesized or cached, whatever
   tag, trailer or junk the service's file has (providers/edge.py:342-397).      *)
THEOREM DurationIsTrue == EdgeSpec => []DurationTrue
<1>1. AudioInv => DurationTrue
  BY RenderingDuration DEF AudioInv, DurationTrue
<1> QED
  BY <1>1, AudioInvHolds, PTL

(* A client that wants WAV gets a file that a strict reader reads whole, whatever
   ffmpeg put before the samples (core/wav.py:36-80).                            *)
THEOREM WavIsReadable == EdgeSpec => []WavReadable
<1>1. ASSUME AudioInv, answer.kind = "ok", answer.request.key \in WantsWav
      PROVE  LET f == answer.audio.wav
             IN  /\ Wav!Parses(f)
                 /\ f.declared = f.length - 8
                 /\ Wav!DataSize(f) = Recordings[answer.audio.of].pcm
                 /\ Wav!DurationMs(f, 24000) = answer.audio.ms
                 /\ Wav!NormalizeWav(f) = f
  <2> DEFINE k == answer.request.key
             a == answer.audio
  <2>1. k \in Keys /\ a \in Renderings(k) /\ k \in WantsWav
    BY <1>1 DEF AudioInv
  <2>2. a.of \in Says[k] /\ a.ms = Recordings[a.of].ms
    BY <2>1, RenderingDuration
  <2> HIDE DEF k, a
  <2>3. PICK m \in Says[k], list \in Lists : a = AsWav(m, list)
    BY <2>1 DEF Renderings
  <2>4. a.of = m /\ a.wav = Wav!NormalizeWav(FfmpegWav(list, Recordings[m].pcm))
    BY <2>3 DEF AsWav, AsMp3
  <2> DEFINE pcm == Recordings[m].pcm
             f == Wav!WavFile(24, pcm)
  <2>5. pcm \in Nat \ {0} /\ Wav!Lasts(pcm, 24000) = Recordings[m].ms
    BY <2>1, RecordingsAssumption
  <2>6. list \in Nat
    BY RecordingsAssumption
  <2> HIDE DEF pcm
  <2>7. a.wav = f
    BY <2>4, <2>5, <2>6, WavRepaired DEF pcm
  <2>8. Wav!NormalizeWav(f) = f
    BY <2>5, WavNormalized
  <2>9. /\ f.declared = f.length - 8 /\ f.riff = TRUE
        /\ f.chunks[36] = [id |-> "data", size |-> pcm]
        /\ Wav!Walk(f) = [fmt |-> 12, data |-> 36]
        /\ Wav!Seen(f) = f
    <3>1. pcm \in Nat
      BY <2>5
    <3> QED
      BY <3>1, WavWritten
  <2> HIDE DEF f
  <2>10. Wav!Parses(f) /\ Wav!DataSize(f) = pcm
    BY <2>9 DEF Wav!Parses, Wav!DataSize, Wav!NoChunk
  <2>11. Wav!DurationMs(f, 24000) = a.ms
    BY <2>2, <2>4, <2>5, <2>10 DEF Wav!DurationMs
  <2> QED
    BY <2>4, <2>7, <2>8, <2>9, <2>10, <2>11 DEF a, pcm
<1>2. AudioInv => WavReadable
  BY <1>1 DEF WavReadable
<1> QED
  BY <1>2, AudioInvHolds, PTL
=============================================================================
