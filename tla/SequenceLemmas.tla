--------------------------- MODULE SequenceLemmas ---------------------------
(***************************************************************************)
(* Facts about sequences that the proofs of several components share; and  *)
(* induction over the naturals, for what recursive functions compute.      *)
(***************************************************************************)
EXTENDS Integers, Sequences, SequencesExt, FiniteSetTheorems, TLAPS

(* Taking one element out of a sequence, at a place inside it. *)
LEMMA RemoveAtProperties ==
    ASSUME NEW S, NEW s \in Seq(S), NEW i \in DOMAIN s
    PROVE  /\ RemoveAt(s, i) \in Seq(S)
           /\ DOMAIN RemoveAt(s, i) = 1 .. (Len(s) - 1)
           /\ \A j \in 1 .. (Len(s) - 1) :
                 RemoveAt(s, i)[j] = IF j < i THEN s[j] ELSE s[j + 1]
<1> DEFINE l == SubSeq(s, 1, i - 1)
           r == SubSeq(s, i + 1, Len(s))
<1>1. i \in 1 .. Len(s) /\ Len(s) \in Nat
  OBVIOUS
<1>2. l \in Seq(S) /\ Len(l) = i - 1 /\ \A j \in 1 .. (i - 1) : l[j] = s[j]
  BY <1>1
<1>3. r \in Seq(S) /\ Len(r) = Len(s) - i /\ \A j \in 1 .. (Len(s) - i) : r[j] = s[i + j]
  BY <1>1
<1>4. RemoveAt(s, i) = l \o r
  BY DEF RemoveAt
<1> HIDE DEF l, r
<1>5. l \o r \in Seq(S) /\ Len(l \o r) = Len(s) - 1
  BY <1>1, <1>2, <1>3
<1>6. \A j \in 1 .. (Len(s) - 1) :
          (l \o r)[j] = IF j < i THEN s[j] ELSE s[j + 1]
  BY <1>1, <1>2, <1>3
<1> QED
  BY <1>1, <1>4, <1>5, <1>6

-----------------------------------------------------------------------------
(* A queue holds each waiting element once: what joining it, serving its head
   and leaving it at any place do to the elements, and that each is still there
   at most once.                                                              *)
LEMMA QueueAppend ==
    ASSUME NEW S, NEW s \in Seq(S), IsInjective(s), NEW e \in S, e \notin Range(s)
    PROVE  /\ Append(s, e) \in Seq(S)
           /\ IsInjective(Append(s, e))
           /\ Range(Append(s, e)) = Range(s) \cup {e}
<1> DEFINE a == Append(s, e)
<1>1. /\ Len(s) \in Nat /\ DOMAIN s = 1 .. Len(s)
      /\ a \in Seq(S) /\ DOMAIN a = 1 .. (Len(s) + 1)
      /\ a[Len(s) + 1] = e
      /\ \A i \in DOMAIN s : a[i] = s[i]
  OBVIOUS
<1> HIDE DEF a
<1>2. \A i \in DOMAIN a : i \in DOMAIN s \/ i = Len(s) + 1
  BY <1>1
<1>3. IsInjective(a)
  BY <1>1, <1>2 DEF IsInjective, Range
<1>4. Range(a) = Range(s) \cup {e}
  <2>1. DOMAIN s \subseteq DOMAIN a /\ Len(s) + 1 \in DOMAIN a
    BY <1>1
  <2> QED
    BY <1>1, <1>2, <2>1 DEF Range
<1> QED
  BY <1>1, <1>3, <1>4 DEF a

LEMMA QueueTail ==
    ASSUME NEW S, NEW s \in Seq(S), IsInjective(s), s # <<>>
    PROVE  /\ Head(s) \in Range(s)
           /\ Tail(s) \in Seq(S)
           /\ IsInjective(Tail(s))
           /\ Range(Tail(s)) = Range(s) \ {Head(s)}
<1> DEFINE t == Tail(s)
<1>1. /\ Len(s) \in Nat /\ DOMAIN s = 1 .. Len(s) /\ 1 \in DOMAIN s
      /\ Head(s) = s[1]
      /\ t \in Seq(S) /\ DOMAIN t = 1 .. (Len(s) - 1)
      /\ \A i \in DOMAIN t : t[i] = s[i + 1] /\ i + 1 \in DOMAIN s
  OBVIOUS
<1> HIDE DEF t
<1>2. \A i \in DOMAIN s : i = 1 \/ (i - 1 \in DOMAIN t /\ t[i - 1] = s[i])
  BY <1>1
<1>3. IsInjective(t)
  BY <1>1 DEF IsInjective
<1>4. Range(t) = Range(s) \ {s[1]}
  <2>1. \A i \in DOMAIN t : t[i] \in Range(s) \ {s[1]}
    <3> SUFFICES ASSUME NEW i \in DOMAIN t PROVE t[i] \in Range(s) /\ t[i] # s[1]
      OBVIOUS
    <3>1. i + 1 # 1
      BY <1>1
    <3> QED
      BY <1>1, <3>1 DEF IsInjective, Range
  <2>2. \A i \in DOMAIN s : s[i] = s[1] \/ \E j \in DOMAIN t : t[j] = s[i]
    BY <1>2
  <2> QED
    BY <2>1, <2>2 DEF Range
<1> QED
  BY <1>1, <1>3, <1>4 DEF t, Range

LEMMA QueueRemoveAt ==
    ASSUME NEW S, NEW s \in Seq(S), IsInjective(s), NEW i \in DOMAIN s
    PROVE  /\ RemoveAt(s, i) \in Seq(S)
           /\ IsInjective(RemoveAt(s, i))
           /\ Range(RemoveAt(s, i)) = Range(s) \ {s[i]}
<1> DEFINE r == RemoveAt(s, i)
<1>1. /\ Len(s) \in Nat /\ DOMAIN s = 1 .. Len(s)
      /\ r \in Seq(S)
      /\ DOMAIN r = 1 .. (Len(s) - 1)
      /\ \A j \in DOMAIN r : r[j] = IF j < i THEN s[j] ELSE s[j + 1]
  <2>1. Len(s) \in Nat /\ DOMAIN s = 1 .. Len(s)
    OBVIOUS
  <2>2. /\ r \in Seq(S)
        /\ DOMAIN r = 1 .. (Len(s) - 1)
        /\ \A j \in 1 .. (Len(s) - 1) : r[j] = IF j < i THEN s[j] ELSE s[j + 1]
    BY RemoveAtProperties
  <2> HIDE DEF r
  <2> QED
    BY <2>1, <2>2
<1> HIDE DEF r
<1>2. \A j \in DOMAIN r : \E k \in DOMAIN s :
          r[j] = s[k] /\ k # i /\ k = IF j < i THEN j ELSE j + 1
  BY <1>1
<1>3. \A k \in DOMAIN s : k # i =>
          \E j \in DOMAIN r : r[j] = s[k]
  <2> SUFFICES ASSUME NEW k \in DOMAIN s, k # i
               PROVE  \E j \in DOMAIN r : r[j] = s[k]
    OBVIOUS
  <2>1. CASE k < i
    BY <1>1, <2>1
  <2>2. CASE k > i
    <3>1. k - 1 \in DOMAIN r /\ r[k - 1] = s[k]
      BY <1>1, <2>2
    <3> QED
      BY <3>1
  <2> QED
    BY <1>1, <2>1, <2>2
<1>4. IsInjective(r)
  <2> SUFFICES ASSUME NEW j \in DOMAIN r, NEW m \in DOMAIN r, r[j] = r[m]
               PROVE  j = m
    BY DEF IsInjective
  <2>1. PICK k \in DOMAIN s : r[j] = s[k] /\ k = IF j < i THEN j ELSE j + 1
    BY <1>2
  <2>2. PICK l \in DOMAIN s : r[m] = s[l] /\ l = IF m < i THEN m ELSE m + 1
    BY <1>2
  <2>3. k = l
    BY <2>1, <2>2 DEF IsInjective
  <2> QED
    BY <1>1, <2>1, <2>2, <2>3
<1>5. Range(r) = Range(s) \ {s[i]}
  BY <1>2, <1>3 DEF IsInjective, Range
<1> QED
  BY <1>1, <1>4, <1>5 DEF r
-----------------------------------------------------------------------------
(* a stands somewhere before b *)
Precedes(s, a, b) == \E i, j \in DOMAIN s : i < j /\ s[i] = a /\ s[j] = b

(* Who joins at the end is behind everybody, and changes no other order. *)
LEMMA PrecedesAppend ==
    ASSUME NEW S, NEW s \in Seq(S), NEW e \in S, e \notin Range(s), NEW a, NEW b
    PROVE  Precedes(Append(s, e), a, b) <=> \/ Precedes(s, a, b)
                                            \/ a \in Range(s) /\ b = e
<1> DEFINE t == Append(s, e)
<1>1. /\ Len(s) \in Nat /\ DOMAIN s = 1 .. Len(s)
      /\ DOMAIN t = 1 .. (Len(s) + 1)
      /\ t[Len(s) + 1] = e
      /\ \A i \in DOMAIN s : t[i] = s[i] /\ i \in DOMAIN t /\ i < Len(s) + 1
  OBVIOUS
<1> HIDE DEF t
<1>2. ASSUME Precedes(t, a, b) PROVE Precedes(s, a, b) \/ (a \in Range(s) /\ b = e)
  <2>1. PICK i, j \in DOMAIN t : i < j /\ t[i] = a /\ t[j] = b
    BY <1>2 DEF Precedes
  <2>2. i \in DOMAIN s
    BY <1>1, <2>1
  <2>3. CASE j \in DOMAIN s
    BY <1>1, <2>1, <2>2, <2>3 DEF Precedes
  <2>4. CASE j = Len(s) + 1
    BY <1>1, <2>1, <2>2, <2>4 DEF Range
  <2> QED
    BY <1>1, <2>3, <2>4
<1>3. ASSUME Precedes(s, a, b) PROVE Precedes(t, a, b)
  BY <1>1, <1>3 DEF Precedes
<1>4. ASSUME a \in Range(s), b = e PROVE Precedes(t, a, b)
  <2>1. PICK i \in DOMAIN s : s[i] = a
    BY <1>4 DEF Range
  <2>2. Len(s) + 1 \in DOMAIN t
    BY <1>1
  <2> QED
    BY <1>1, <1>4, <2>1, <2>2 DEF Precedes
<1> QED
  BY <1>2, <1>3, <1>4 DEF t

(* Who leaves changes the order of no others. *)
LEMMA PrecedesRemoveAt ==
    ASSUME NEW S, NEW s \in Seq(S), NEW i \in DOMAIN s, NEW a, NEW b,
           a # s[i], b # s[i]
    PROVE  Precedes(RemoveAt(s, i), a, b) <=> Precedes(s, a, b)
<1> DEFINE r == RemoveAt(s, i)
<1>1. /\ Len(s) \in Nat /\ DOMAIN s = 1 .. Len(s)
      /\ DOMAIN r = 1 .. (Len(s) - 1)
      /\ \A j \in DOMAIN r : r[j] = IF j < i THEN s[j] ELSE s[j + 1]
  <2>1. Len(s) \in Nat /\ DOMAIN s = 1 .. Len(s)
    OBVIOUS
  <2>2. /\ DOMAIN r = 1 .. (Len(s) - 1)
        /\ \A j \in 1 .. (Len(s) - 1) : r[j] = IF j < i THEN s[j] ELSE s[j + 1]
    BY RemoveAtProperties
  <2> HIDE DEF r
  <2> QED
    BY <2>1, <2>2
<1> HIDE DEF r
<1>2. ASSUME Precedes(r, a, b) PROVE Precedes(s, a, b)
  <2>1. PICK j, k \in DOMAIN r : j < k /\ r[j] = a /\ r[k] = b
    BY <1>2 DEF Precedes
  <2> DEFINE jj == IF j < i THEN j ELSE j + 1
             kk == IF k < i THEN k ELSE k + 1
  <2>2. /\ jj \in DOMAIN s /\ kk \in DOMAIN s /\ jj < kk
        /\ s[jj] = a /\ s[kk] = b
    BY <1>1, <2>1
  <2> QED
    BY <2>2 DEF Precedes
<1>3. ASSUME Precedes(s, a, b) PROVE Precedes(r, a, b)
  <2>1. PICK j, k \in DOMAIN s : j < k /\ s[j] = a /\ s[k] = b
    BY <1>3 DEF Precedes
  <2> DEFINE jj == IF j < i THEN j ELSE j - 1
             kk == IF k < i THEN k ELSE k - 1
  <2>2. j # i /\ k # i
    BY <2>1
  <2>3. /\ jj \in DOMAIN r /\ kk \in DOMAIN r /\ jj < kk
        /\ r[jj] = a /\ r[kk] = b
    BY <1>1, <2>1, <2>2
  <2> QED
    BY <2>3 DEF Precedes
<1> QED
  BY <1>2, <1>3 DEF r
-----------------------------------------------------------------------------
(* Induction over the naturals, as a fact about sets: one that holds 0, and with
   each number the next, lacks none.  For below a number that it lacks, adding
   one would map the finitely many that it holds into those beside 0.         *)
LEMMA NatSetInduction ==
    ASSUME NEW S, 0 \in S, \A n \in Nat : n \in S => n + 1 \in S
    PROVE  \A n \in Nat : n \in S
<1> SUFFICES ASSUME NEW n \in Nat, n \notin S PROVE FALSE
  OBVIOUS
<1> DEFINE D == {i \in 0 .. n : i \in S}
           f == [i \in D |-> i + 1]
<1>1. IsFiniteSet(D) /\ Cardinality(D) \in Nat
  <2>1. IsFiniteSet(0 .. n)
    BY FS_Interval
  <2> QED
    BY <2>1, FS_Subset, FS_CardinalityType
<1>2. /\ IsFiniteSet(D \ {0})
      /\ Cardinality(D \ {0}) = Cardinality(D) - 1
  <2>1. 0 \in D
    OBVIOUS
  <2> HIDE DEF D
  <2> QED
    BY <1>1, <2>1, FS_RemoveElement
<1>3. f \in [D -> D \ {0}]
  <2> SUFFICES ASSUME NEW i \in D PROVE i + 1 \in D /\ i + 1 # 0
    OBVIOUS
  <2>1. i # n
    OBVIOUS
  <2> QED
    BY <2>1
<1>4. \A i, j \in D : i # j => f[i] # f[j]
  OBVIOUS
<1> HIDE DEF D, f
<1>5. Cardinality(D \ {0}) < Cardinality(D)
  BY <1>1, <1>2
<1> QED
  BY <1>1, <1>2, <1>3, <1>4, <1>5, FS_PigeonHole

(* A set of naturals that is not empty has a least element. *)
LEMMA LeastOfNats ==
    ASSUME NEW T, T \subseteq Nat, T # {}
    PROVE  \E m \in T : \A n \in T : m <= n
<1> SUFFICES ASSUME \A m \in T : \E n \in T : ~ (m <= n) PROVE FALSE
  OBVIOUS
<1> DEFINE S == {n \in Nat : \A m \in 0 .. n : m \notin T}
<1>1. 0 \in S
  <2>1. 0 \notin T
    OBVIOUS
  <2> QED
    BY <2>1
<1>2. ASSUME NEW n \in Nat, n \in S PROVE n + 1 \in S
  <2>1. \A m \in T : ~ (m <= n)
    BY <1>2
  <2>2. n + 1 \notin T
    BY <2>1
  <2>3. \A m \in 0 .. n + 1 : m \in 0 .. n \/ m = n + 1
    OBVIOUS
  <2> QED
    BY <1>2, <2>2, <2>3
<1> HIDE DEF S
<1>3. \A n \in Nat : n \in S
  BY <1>1, <1>2, NatSetInduction
<1>4. PICK n \in T : n \in Nat
  OBVIOUS
<1> QED
  BY <1>3, <1>4 DEF S

(* What holds of every place from some length on, and of each place if it holds of
   the next one, holds everywhere.                                              *)
LEMMA BackwardInduction ==
    ASSUME NEW T, NEW length \in Nat, NEW next,
           \A p \in Nat : next[p] \in Nat /\ next[p] > p,
           \A p \in Nat : p >= length => p \in T,
           \A p \in Nat : next[p] \in T => p \in T
    PROVE  \A p \in Nat : p \in T
<1> DEFINE S == {n \in Nat : \A p \in Nat : p + n >= length => p \in T}
<1>1. 0 \in S
  OBVIOUS
<1>2. ASSUME NEW n \in Nat, n \in S PROVE n + 1 \in S
  <2> SUFFICES ASSUME NEW p \in Nat, p + (n + 1) >= length PROVE p \in T
    OBVIOUS
  <2>1. next[p] \in Nat /\ next[p] + n >= length
    OBVIOUS
  <2> QED
    BY <1>2, <2>1
<1>3. length \in S
  <2> HIDE DEF S
  <2> QED
    BY <1>1, <1>2, NatSetInduction
<1>4. \A p \in Nat : p + length >= length
  OBVIOUS
<1> QED
  BY <1>3, <1>4

(* A recursion over values V that goes on from p at next[p], and from some length
   on nowhere, is solved by a function: by the one that is right on the last n
   places, for every n.                                                         *)
GoesForward(V, length, next, step) ==
    /\ V # {} /\ length \in Nat
    /\ next \in [Nat -> Nat] /\ \A p \in Nat : next[p] > p
    /\ step \in [Nat -> [V -> V]]
    /\ \A p \in Nat : p >= length => \A a, b \in V : step[p][a] = step[p][b]

LEMMA ForwardRecursion ==
    ASSUME NEW V, NEW length, NEW next, NEW step, GoesForward(V, length, next, step)
    PROVE  \E g \in [Nat -> V] : \A p \in Nat : g[p] = step[p][g[next[p]]]
<1> DEFINE Solves(g, n) == \A p \in Nat : p + n >= length => g[p] = step[p][g[next[p]]]
           S == {n \in Nat : \E g \in [Nat -> V] : Solves(g, n)}
<1> PICK v \in V : TRUE
  BY DEF GoesForward
<1> USE DEF GoesForward
<1>1. 0 \in S
  <2> DEFINE g == [p \in Nat |-> step[p][v]]
  <2>1. g \in [Nat -> V]
    OBVIOUS
  <2>2. ASSUME NEW p \in Nat, p + 0 >= length PROVE g[p] = step[p][g[next[p]]]
    <3>1. g[next[p]] \in V /\ g[p] = step[p][v] /\ p >= length
      BY <2>1, <2>2
    <3> HIDE DEF g
    <3> QED
      BY <3>1
  <2> HIDE DEF g
  <2> QED
    BY <2>1, <2>2
<1>2. ASSUME NEW n \in Nat, n \in S PROVE n + 1 \in S
  <2>1. PICK g \in [Nat -> V] : Solves(g, n)
    BY <1>2
  <2> DEFINE h == [p \in Nat |-> IF p + n + 1 = length THEN step[p][g[next[p]]] ELSE g[p]]
  <2>2. h \in [Nat -> V]
    OBVIOUS
  <2>3. ASSUME NEW p \in Nat, p + (n + 1) >= length PROVE h[p] = step[p][h[next[p]]]
    <3>1. next[p] \in Nat /\ next[p] > p
      OBVIOUS
    <3>2. h[next[p]] = g[next[p]]
      BY <2>3, <3>1
    <3>3. h[p] = step[p][g[next[p]]]
      BY <2>1, <2>3
    <3> QED
      BY <3>2, <3>3
  <2> HIDE DEF h
  <2> QED
    BY <2>2, <2>3
<1>3. length \in S
  <2> HIDE DEF S
  <2> QED
    BY <1>1, <1>2, NatSetInduction
<1>4. PICK g \in [Nat -> V] : Solves(g, length)
  BY <1>3
<1>5. \A p \in Nat : p + length >= length
  OBVIOUS
<1> QED
  BY <1>4, <1>5
=============================================================================
