------------------------- MODULE HareStringsProofs -------------------------
(***************************************************************************)
(* What the functions of HareStrings, and those of SequencesExt that HARE's *)
(* handling of names is built from, return for every string.               *)
(***************************************************************************)
EXTENDS HareStrings, SequenceTheorems, FiniteSetTheorems, TLAPS

LOCAL INSTANCE FiniteSetsExt
LOCAL INSTANCE SequencesExt

-----------------------------------------------------------------------------
(* Positions.                                                              *)

\* A set of positions that holds all before one of its own is an interval.
LEMMA InitialPositions ==
    ASSUME NEW n \in Nat, NEW P \in SUBSET (1..n),
           \A i \in P : \A j \in 1..i : j \in P
    PROVE  Cardinality(P) \in 0..n /\ P = 1..Cardinality(P)
<1>1. IsFiniteSet(1..n) /\ Cardinality(1..n) = n
  BY FS_Interval
<1>2. IsFiniteSet(P) /\ Cardinality(P) \in Nat /\ Cardinality(P) <= n
  BY <1>1, FS_Subset, FS_CardinalityType
<1> DEFINE k == Cardinality(P)
<1>3. IsFiniteSet(1..k) /\ Cardinality(1..k) = k
  <2> HIDE DEF k
  <2>1. k \in Nat
    BY <1>2 DEF k
  <2> QED
    BY <2>1, FS_Interval
<1>4. P \subseteq 1..k
  <2> SUFFICES ASSUME NEW i \in P PROVE i <= k
    BY <1>2
  <2>1. i \in Nat /\ 1..i \subseteq P
    OBVIOUS
  <2>2. Cardinality(1..i) = i
    BY <2>1, FS_Interval
  <2> QED
    BY <1>2, <2>1, <2>2, FS_Subset
<1>5. P = 1..k
  BY <1>3, <1>4, FS_Subset
<1> QED
  BY <1>2, <1>5

\* A set of positions that is not empty has a first one.
LEMMA FirstPosition ==
    ASSUME NEW n \in Nat, NEW P \in SUBSET (1..n), P # {}
    PROVE  Min(P) \in P /\ \A i \in P : Min(P) <= i
<1> DEFINE Q == {i \in 1..n : \A j \in 1..i : j \notin P}
           k == Cardinality(Q)
<1>1. Q \in SUBSET (1..n) /\ \A i \in Q : \A j \in 1..i : j \in Q
  OBVIOUS
<1>2. k \in 0..n /\ Q = 1..k
  <2> HIDE DEF Q
  <2> QED
    BY <1>1, InitialPositions
<1>3. k # n
  <2> SUFFICES ASSUME k = n PROVE FALSE
    OBVIOUS
  <2>1. \A i \in 1..n : i \in Q
    <3> HIDE DEF k, Q
    <3> QED
      BY <1>2
  <2>2. \A i \in 1..n : i \notin P
    BY <2>1
  <2> QED
    BY <2>2
<1>4. k + 1 \in 1..n /\ k + 1 \notin Q
  <2> HIDE DEF k
  <2> QED
    BY <1>2, <1>3
<1>5. \A i \in P : k + 1 <= i
  <2> SUFFICES ASSUME NEW i \in P, i <= k PROVE FALSE
    <3> HIDE DEF k
    <3> QED
      BY <1>2
  <2>1. i \in Q
    <3> HIDE DEF k
    <3> QED
      BY <1>2
  <2> QED
    BY <2>1
<1>6. k + 1 \in P
  <2>1. PICK j \in 1..(k + 1) : j \in P
    BY <1>4
  <2> HIDE DEF k
  <2> QED
    BY <1>2, <1>5, <2>1
<1> HIDE DEF k
<1>7. \E x \in P : \A y \in P : x <= y
  BY <1>5, <1>6
<1> QED
  BY <1>7 DEF Min

\* And a last one: it is the first one counted from the end.
LEMMA LastPosition ==
    ASSUME NEW n \in Nat, NEW P \in SUBSET (1..n), P # {}
    PROVE  Max(P) \in P /\ \A i \in P : i <= Max(P)
<1> DEFINE Q == {i \in 1..n : n + 1 - i \in P}
           k == Min(Q)
<1>1. Q \in SUBSET (1..n) /\ Q # {}
  <2>1. PICK i \in P : TRUE
    OBVIOUS
  <2>2. n + 1 - i \in 1..n /\ n + 1 - (n + 1 - i) = i
    BY <2>1
  <2>3. n + 1 - i \in Q
    BY <2>1, <2>2
  <2>4. Q \in SUBSET (1..n)
    OBVIOUS
  <2> HIDE DEF Q
  <2> QED
    BY <2>3, <2>4
<1>2. k \in Q /\ \A i \in Q : k <= i
  <2> HIDE DEF Q
  <2> QED
    BY <1>1, FirstPosition
<1> HIDE DEF k
<1>3. n + 1 - k \in P
  BY <1>2
<1>4. \A i \in P : i <= n + 1 - k
  <2> TAKE i \in P
  <2>1. i \in 1..n /\ n + 1 - i \in 1..n /\ n + 1 - (n + 1 - i) = i
    OBVIOUS
  <2>2. n + 1 - i \in Q
    BY <2>1
  <2> HIDE DEF Q
  <2>3. k \in 1..n /\ k <= n + 1 - i
    BY <1>1, <1>2, <2>2
  <2> QED
    BY <2>1, <2>3
<1>5. \E x \in P : \A y \in P : x >= y
  BY <1>3, <1>4
<1> QED
  BY <1>5 DEF Max

-----------------------------------------------------------------------------
(* Beginnings of strings.                                                  *)

\* Before() is the longest beginning without one of the characters.
LEMMA BeforeProperties ==
    ASSUME NEW S, NEW s \in Seq(S), NEW stops
    PROVE  /\ Before(s, stops) \in Seq(S)
           /\ Len(Before(s, stops)) <= Len(s)
           /\ \A i \in 1..Len(Before(s, stops)) :
                 Before(s, stops)[i] = s[i] /\ s[i] \notin stops
           /\ Len(Before(s, stops)) < Len(s) => s[Len(Before(s, stops)) + 1] \in stops
<1> DEFINE P == {i \in 1..Len(s) : \A j \in 1..i : s[j] \notin stops}
           k == Cardinality(P)
<1>1. Len(s) \in Nat /\ P \in SUBSET (1..Len(s)) /\ \A i \in P : \A j \in 1..i : j \in P
  OBVIOUS
<1>2. k \in 0..Len(s) /\ P = 1..k
  <2> HIDE DEF P
  <2> QED
    BY <1>1, InitialPositions
<1>3. Before(s, stops) = SubSeq(s, 1, k)
  BY DEF Before
<1>4. \A i \in 1..k : s[i] \notin stops
  BY <1>2
<1>5. k < Len(s) => s[k + 1] \in stops
  <2> SUFFICES ASSUME k < Len(s), s[k + 1] \notin stops PROVE FALSE
    OBVIOUS
  <2>1. k + 1 \in P
    <3> HIDE DEF k
    <3> QED
      BY <1>2, <1>4 
  <2> QED
    BY <1>2, <2>1
<1> HIDE DEF P, k
<1>6. /\ SubSeq(s, 1, k) \in Seq(S) /\ Len(SubSeq(s, 1, k)) = k
      /\ \A i \in 1..k : SubSeq(s, 1, k)[i] = s[i]
  BY <1>1, <1>2, SubSeqProperties
<1> QED
  BY <1>2, <1>3, <1>4, <1>5, <1>6

\* A whole sequence, when nothing in it stops.
LEMMA BeforeAll ==
    ASSUME NEW S, NEW s \in Seq(S), NEW stops, \A i \in 1..Len(s) : s[i] \notin stops
    PROVE  Before(s, stops) = s
<1> DEFINE b == Before(s, stops)
<1>1. /\ b \in Seq(S) /\ Len(b) \in Nat /\ Len(s) \in Nat /\ Len(b) <= Len(s)
      /\ \A i \in 1..Len(b) : b[i] = s[i]
      /\ Len(b) < Len(s) => s[Len(b) + 1] \in stops
  BY BeforeProperties
<1> HIDE DEF b
<1>2. Len(b) = Len(s)
  BY <1>1
<1> QED
  BY <1>1, <1>2, SeqEqual DEF b

\* The only one: a beginning without the characters that one of them, or the end,
\* follows.
LEMMA BeforeIs ==
    ASSUME NEW S, NEW s \in Seq(S), NEW stops, NEW k \in 0..Len(s),
           \A i \in 1..k : s[i] \notin stops,
           k < Len(s) => s[k + 1] \in stops
    PROVE  Len(Before(s, stops)) = k /\ Before(s, stops) = SubSeq(s, 1, k)
<1> DEFINE b == Before(s, stops)
<1>1. /\ b \in Seq(S) /\ Len(b) \in Nat /\ Len(s) \in Nat /\ Len(b) <= Len(s)
      /\ \A i \in 1..Len(b) : b[i] = s[i] /\ s[i] \notin stops
      /\ Len(b) < Len(s) => s[Len(b) + 1] \in stops
  BY BeforeProperties
<1> HIDE DEF b
<1>2. Len(b) = k
  <2>1. CASE Len(b) < k
    BY <1>1, <2>1
  <2>2. CASE k < Len(b)
    BY <1>1, <2>2
  <2> QED
    BY <1>1, <2>1, <2>2
<1>3. /\ SubSeq(s, 1, k) \in Seq(S) /\ Len(SubSeq(s, 1, k)) = k
      /\ \A i \in 1..k : SubSeq(s, 1, k)[i] = s[i]
  BY SubSeqProperties
<1>4. b = SubSeq(s, 1, k)
  BY <1>1, <1>2, <1>3, SeqEqual
<1> QED
  BY <1>2, <1>4 DEF b

\* Cut() is a beginning of the length asked for, if there is one.
LEMMA CutProperties ==
    ASSUME NEW S, NEW s \in Seq(S), NEW n \in Int
    PROVE  /\ Cut(s, n) \in Seq(S)
           /\ Len(Cut(s, n)) = IF n < 0 THEN 0 ELSE IF n < Len(s) THEN n ELSE Len(s)
           /\ \A i \in 1..Len(Cut(s, n)) : Cut(s, n)[i] = s[i]
<1> DEFINE k == IF n < Len(s) THEN n ELSE Len(s)
<1>1. k \in Int /\ k <= Len(s) /\ Len(s) \in Nat
  OBVIOUS
<1> HIDE DEF k
<1>2. \A i \in 1..k : s[i] \in S
  BY <1>1
<1>3. /\ SubSeq(s, 1, k) \in Seq(S)
      /\ Len(SubSeq(s, 1, k)) = IF 1 <= k THEN k ELSE 0
      /\ \A i \in 1..k : SubSeq(s, 1, k)[i] = s[i]
  BY <1>1, <1>2, SubSeqProperties
<1>4. Cut(s, n) = SubSeq(s, 1, k)
  BY DEF Cut, k
<1> QED
  BY <1>1, <1>3, <1>4 DEF k

\* All of a sequence is cut off when as many bytes are asked for as there are.
LEMMA CutAll ==
    ASSUME NEW S, NEW s \in Seq(S)
    PROVE  Cut(s, Len(s)) = s
<1>1. Len(s) \in Int /\ Len(s) >= 0
  OBVIOUS
<1>2. /\ Cut(s, Len(s)) \in Seq(S) /\ Len(Cut(s, Len(s))) = Len(s)
      /\ \A i \in 1..Len(s) : Cut(s, Len(s))[i] = s[i]
  BY <1>1, CutProperties
<1> QED
  BY <1>2, SeqEqual

-----------------------------------------------------------------------------
(* Beginnings and ends.                                                    *)

\* One sequence begins another, character by character.
LEMMA PrefixProperties ==
    ASSUME NEW S, NEW s \in Seq(S), NEW t \in Seq(S)
    PROVE  IsPrefix(s, t) <=> Len(s) <= Len(t) /\ \A i \in 1..Len(s) : s[i] = t[i]
<1>1. SubSeq(s, 1, Len(s)) = s
  BY SubSeqFull
<1>2. ASSUME Len(s) <= Len(t)
      PROVE  /\ SubSeq(t, 1, Len(s)) \in Seq(S)
             /\ Len(SubSeq(t, 1, Len(s))) = Len(s)
             /\ \A i \in 1..Len(s) : SubSeq(t, 1, Len(s))[i] = t[i]
  <2>1. Len(s) \in Nat /\ \A i \in 1..Len(s) : t[i] \in S
    BY <1>2
  <2> QED
    BY <2>1, SubSeqProperties
<1>3. ASSUME Len(s) <= Len(t), \A i \in 1..Len(s) : s[i] = t[i]
      PROVE  s = SubSeq(t, 1, Len(s))
  BY <1>2, <1>3, SeqEqual
<1> QED
  BY <1>1, <1>2, <1>3 DEF IsPrefix

\* One sequence ends another, character by character.
LEMMA SuffixProperties ==
    ASSUME NEW S, NEW s \in Seq(S), NEW t \in Seq(S)
    PROVE  IsSuffix(s, t) <=> /\ Len(s) <= Len(t)
                              /\ \A i \in 1..Len(s) : s[i] = t[Len(t) - Len(s) + i]
<1>1. \A u \in Seq(S) : /\ Reverse(u) \in Seq(S) /\ Len(Reverse(u)) = Len(u)
                        /\ \A i \in 1..Len(u) : Reverse(u)[i] = u[Len(u) - i + 1]
  BY DEF Reverse
<1> DEFINE r == Reverse(s)
           q == Reverse(t)
<1>2. /\ r \in Seq(S) /\ Len(r) = Len(s) /\ Len(s) \in Nat
      /\ \A i \in 1..Len(s) : r[i] = s[Len(s) - i + 1]
      /\ q \in Seq(S) /\ Len(q) = Len(t) /\ Len(t) \in Nat
      /\ \A i \in 1..Len(t) : q[i] = t[Len(t) - i + 1]
  BY <1>1
<1> HIDE DEF r, q
<1>3. IsSuffix(s, t) <=> Len(r) <= Len(q) /\ \A i \in 1..Len(r) : r[i] = q[i]
  BY <1>2, PrefixProperties DEF IsSuffix, r, q
<1>4. ASSUME Len(s) <= Len(t), \A i \in 1..Len(s) : r[i] = q[i], NEW i \in 1..Len(s)
      PROVE  s[i] = t[Len(t) - Len(s) + i]
  <2>1. Len(s) - i + 1 \in 1..Len(s) /\ Len(s) - (Len(s) - i + 1) + 1 = i
    BY <1>2
  <2>2. /\ Len(s) - i + 1 \in 1..Len(t)
        /\ Len(t) - (Len(s) - i + 1) + 1 = Len(t) - Len(s) + i
    BY <1>2, <1>4, <2>1
  <2>3. r[Len(s) - i + 1] = s[i]
    BY <1>2, <2>1
  <2>4. q[Len(s) - i + 1] = t[Len(t) - Len(s) + i]
    BY <1>2, <2>2
  <2> QED
    BY <1>4, <2>1, <2>3, <2>4
<1>5. ASSUME Len(s) <= Len(t), \A i \in 1..Len(s) : s[i] = t[Len(t) - Len(s) + i],
             NEW i \in 1..Len(s)
      PROVE  r[i] = q[i]
  <2>1. /\ Len(s) - i + 1 \in 1..Len(s) /\ i \in 1..Len(t)
        /\ Len(t) - Len(s) + (Len(s) - i + 1) = Len(t) - i + 1
    BY <1>2, <1>5
  <2> QED
    BY <1>2, <1>5, <2>1
<1> QED
  BY <1>2, <1>3, <1>4, <1>5

-----------------------------------------------------------------------------
(* Searching in strings.                                                   *)

\* What follows the last slash.
LEMMA BaseNameProperties ==
    ASSUME NEW S, NEW s \in Seq(S), NEW slash
    PROVE  /\ BaseName(s, slash) \in Seq(S)
           /\ Len(BaseName(s, slash)) <= Len(s)
           /\ \A i \in 1..Len(BaseName(s, slash)) :
                 /\ BaseName(s, slash)[i] = s[Len(s) - Len(BaseName(s, slash)) + i]
                 /\ BaseName(s, slash)[i] # slash
           /\ Len(BaseName(s, slash)) < Len(s) => s[Len(s) - Len(BaseName(s, slash))] = slash
<1> DEFINE I == {i \in 1..Len(s) : s[i] = slash}
           k == IF I # {} THEN Max(I) ELSE 0
           b == SubSeq(s, k + 1, Len(s))
<1>1. BaseName(s, slash) = b
  BY DEF BaseName, SelectLastInSeq
<1>2. Len(s) \in Nat
  OBVIOUS
<1>3. /\ k \in 0..Len(s)
      /\ k # 0 => s[k] = slash
      /\ \A i \in (k + 1)..Len(s) : s[i] # slash
  <2>1. CASE I = {}
    BY <1>2, <2>1
  <2>2. CASE I # {}
    <3>1. Max(I) \in I /\ \A i \in I : i <= Max(I)
      <4>1. I \in SUBSET (1..Len(s))
        OBVIOUS
      <4> HIDE DEF I
      <4> QED
        BY <1>2, <2>2, <4>1, LastPosition
    <3>2. k = Max(I)
      BY <2>2
    <3> HIDE DEF k
    <3>3. k \in 1..Len(s) /\ s[k] = slash
      BY <3>1, <3>2
    <3>4. ASSUME NEW i \in (k + 1)..Len(s), s[i] = slash PROVE FALSE
      <4>1. i \in I
        BY <3>3, <3>4
      <4> QED
        BY <3>1, <3>2, <3>3, <3>4, <4>1
    <3> QED
      BY <3>3, <3>4
  <2> QED
    BY <2>1, <2>2
<1> HIDE DEF k
<1>4. /\ b \in Seq(S) /\ Len(b) = Len(s) - k
      /\ \A i \in 1..Len(b) : b[i] = s[k + i]
  <2>1. \A i \in (k + 1)..Len(s) : s[i] \in S
    BY <1>3
  <2>2. /\ SubSeq(s, k + 1, Len(s)) \in Seq(S)
        /\ Len(SubSeq(s, k + 1, Len(s))) =
              IF k + 1 <= Len(s) THEN Len(s) - (k + 1) + 1 ELSE 0
        /\ \A i \in 1..(Len(s) - (k + 1) + 1) :
              SubSeq(s, k + 1, Len(s))[i] = s[(k + 1) + i - 1]
    BY <1>2, <1>3, <2>1, SubSeqProperties
  <2> HIDE DEF b
  <2>3. b = SubSeq(s, k + 1, Len(s))
    BY DEF b
  <2>4. Len(b) = Len(s) - k
    BY <1>2, <1>3, <2>2, <2>3
  <2> QED
    BY <1>2, <1>3, <2>2, <2>3, <2>4
<1> HIDE DEF b
<1>5. Len(s) - Len(b) = k
  BY <1>2, <1>3, <1>4
<1> QED
  BY <1>1, <1>2, <1>3, <1>4, <1>5

\* The only one: an end without slashes that a slash, or nothing, precedes.
LEMMA BaseNameIs ==
    ASSUME NEW S, NEW s \in Seq(S), NEW slash, NEW k \in 0..Len(s),
           k # 0 => s[k] = slash,
           \A i \in (k + 1)..Len(s) : s[i] # slash
    PROVE  Len(BaseName(s, slash)) = Len(s) - k
<1> DEFINE b == BaseName(s, slash)
<1>1. /\ b \in Seq(S) /\ Len(b) \in Nat /\ Len(b) <= Len(s) /\ Len(s) \in Nat
      /\ \A i \in 1..Len(b) : b[i] = s[Len(s) - Len(b) + i] /\ b[i] # slash
      /\ Len(b) < Len(s) => s[Len(s) - Len(b)] = slash
  BY BaseNameProperties
<1> HIDE DEF b
<1>2. CASE Len(b) < Len(s) - k
  <2>1. Len(s) - Len(b) \in (k + 1)..Len(s) /\ Len(b) < Len(s)
    BY <1>1, <1>2
  <2> QED
    BY <1>1, <2>1
<1>3. CASE Len(s) - k < Len(b)
  <2>1. /\ k - (Len(s) - Len(b)) \in 1..Len(b) /\ k # 0
        /\ Len(s) - Len(b) + (k - (Len(s) - Len(b))) = k
    BY <1>1, <1>3
  <2> QED
    BY <1>1, <2>1
<1> QED
  BY <1>1, <1>2, <1>3 DEF b

\* The first occurrence of a string, or none.
LEMMA StrStrProperties ==
    ASSUME NEW S, NEW s \in Seq(S), NEW t \in Seq(S)
    PROVE  LET at == StrStr(s, t) IN
           /\ at # 0 => at \in 1..(Len(s) - Len(t) + 1)
                        /\ SubSeq(s, at, at + Len(t) - 1) = t
           /\ at = 0 => \A i \in 1..(Len(s) - Len(t) + 1) :
                            SubSeq(s, i, i + Len(t) - 1) # t
<1> DEFINE n == Len(s) - Len(t) + 1
           I == {i \in 1..n : SubSeq(s, i, i + Len(t) - 1) = t}
<1>1. StrStr(s, t) = IF I = {} THEN 0 ELSE Min(I)
  BY DEF StrStr
<1>2. n \in Int
  OBVIOUS
<1>3. CASE I = {}
  BY <1>1, <1>3
<1>4. CASE I # {}
  <2>1. n \in Nat
    <3>1. PICK i \in 1..n : TRUE
      BY <1>4
    <3> HIDE DEF n
    <3> QED
      BY <1>2, <3>1
  <2>2. Min(I) \in I
    <3>1. I \in SUBSET (1..n)
      OBVIOUS
    <3> HIDE DEF I, n
    <3> QED
      BY <1>4, <2>1, <3>1, FirstPosition
  <2>3. StrStr(s, t) = Min(I)
    BY <1>1, <1>4
  <2>4. StrStr(s, t) \in 1..n /\ SubSeq(s, StrStr(s, t), StrStr(s, t) + Len(t) - 1) = t
    BY <2>2, <2>3
  <2> QED
    BY <2>1, <2>4
<1> QED
  BY <1>3, <1>4
=============================================================================
