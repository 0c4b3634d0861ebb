---------------------------- MODULE Pipeline_proofs ----------------------------
(***************************************************************************)
(* For any services, caps, batches, thresholds and faults: every queue keeps    *)
(* its bound and snapshots go last; until a reset or a restart no event         *)
(* vanishes uncounted, whatever the dedup forgets; and, while the dedup has     *)
(* room for every number given out, a replay changes nothing and, until a       *)
(* reset or a restart, what is published for a service adds up to its newest    *)
(* count.                                                                       *)
(***************************************************************************)
EXTENDS Pipeline, Induction, SequenceTheorems

-----------------------------------------------------------------------------
(* Sequences and what they run through *)

LEMMA SetOf ==
  ASSUME NEW S, NEW s \in Seq(S)
  PROVE  /\ ToSet(s) = {s[i] : i \in 1..Len(s)} /\ ToSet(s) \in SUBSET S
         /\ IsFiniteSet(ToSet(s)) /\ Cardinality(ToSet(s)) <= Len(s)
<1>1. DOMAIN s = 1..Len(s) /\ Len(s) \in Nat /\ \A i \in 1..Len(s) : s[i] \in S
  BY LenProperties
<1>2. ToSet(s) = {s[i] : i \in 1..Len(s)}
  BY <1>1 DEF ToSet
<1>3. s = [i \in 1..Len(s) |-> s[i]]
  BY <1>1, LenProperties
<1>4. ToSet(s) = Range(s)
  BY <1>1, <1>2 DEF Range
<1>5. s \in Surjection(1..Len(s), Range(s))
  <2>1. Range(s) = {s[i] : i \in 1..Len(s)}
    BY <1>1 DEF Range
  <2>2. \A i \in 1..Len(s) : s[i] \in Range(s)
    BY <2>1
  <2>3. s \in [1..Len(s) -> Range(s)]
    BY <1>3, <2>2
  <2>4. \A x \in Range(s) : \E i \in 1..Len(s) : s[i] = x
    BY <2>1
  <2> QED BY <2>3, <2>4, Zenon DEF Surjection
<1>6. IsFiniteSet(1..Len(s)) /\ Cardinality(1..Len(s)) = Len(s)
  <2>1. PICK n \in Nat : n = Len(s)
    BY <1>1
  <2>2. IsFiniteSet(1..n) /\ Cardinality(1..n) = n
    BY FS_Interval
  <2> QED BY <2>1, <2>2
<1>7. IsFiniteSet(Range(s)) /\ Cardinality(Range(s)) <= Cardinality(1..Len(s))
  BY <1>5, <1>6, FS_Surjection
<1> QED BY <1>1, <1>2, <1>4, <1>6, <1>7

LEMMA SetOfConcat ==
  ASSUME NEW S, NEW s \in Seq(S), NEW t \in Seq(S)
  PROVE  ToSet(s \o t) = ToSet(s) \cup ToSet(t)
<1>1. /\ s \o t \in Seq(S) /\ Len(s \o t) = Len(s) + Len(t) /\ Len(s) \in Nat /\ Len(t) \in Nat
      /\ \A i \in 1..Len(s) + Len(t) : (s \o t)[i] = IF i <= Len(s) THEN s[i] ELSE t[i - Len(s)]
  BY ConcatProperties, LenProperties
<1>2. /\ ToSet(s \o t) = {(s \o t)[i] : i \in 1..Len(s) + Len(t)}
      /\ ToSet(s) = {s[i] : i \in 1..Len(s)} /\ ToSet(t) = {t[i] : i \in 1..Len(t)}
  <2>1. PICK u \in Seq(S) : u = s \o t
    BY <1>1
  <2>2. ToSet(u) = {u[i] : i \in 1..Len(u)}
    BY SetOf
  <2>3. ToSet(s) = {s[i] : i \in 1..Len(s)} /\ ToSet(t) = {t[i] : i \in 1..Len(t)}
    BY SetOf
  <2> QED BY <1>1, <2>1, <2>2, <2>3
<1>3. \A i \in 1..Len(s) : i \in 1..Len(s) + Len(t) /\ (s \o t)[i] = s[i]
  BY <1>1
<1>4. \A i \in 1..Len(t) : Len(s) + i \in 1..Len(s) + Len(t) /\ (s \o t)[Len(s) + i] = t[i]
  <2>1. ASSUME NEW i \in 1..Len(t)
        PROVE  /\ Len(s) + i \in 1..Len(s) + Len(t) /\ ~(Len(s) + i <= Len(s))
               /\ (Len(s) + i) - Len(s) = i
    BY <1>1
  <2> QED BY <1>1, <2>1
<1>5. ASSUME NEW i \in 1..Len(s) + Len(t)
      PROVE  \/ i \in 1..Len(s) /\ (s \o t)[i] = s[i]
             \/ i - Len(s) \in 1..Len(t) /\ (s \o t)[i] = t[i - Len(s)]
  <2>1. i <= Len(s) => i \in 1..Len(s)
    BY <1>1
  <2>2. ~(i <= Len(s)) => i - Len(s) \in 1..Len(t)
    BY <1>1
  <2>3. (s \o t)[i] = IF i <= Len(s) THEN s[i] ELSE t[i - Len(s)]
    BY <1>1
  <2> QED BY <2>1, <2>2, <2>3
<1> QED BY <1>2, <1>3, <1>4, <1>5

LEMMA SetOfAppend ==
  ASSUME NEW S, NEW s \in Seq(S), NEW e \in S
  PROVE  ToSet(Append(s, e)) = ToSet(s) \cup {e}
<1>1. /\ Append(s, e) \in Seq(S) /\ Len(Append(s, e)) = Len(s) + 1 /\ Len(s) \in Nat
      /\ \A i \in 1..Len(s) : Append(s, e)[i] = s[i]
      /\ Append(s, e)[Len(s) + 1] = e
  BY AppendProperties, LenProperties
<1>2. /\ ToSet(Append(s, e)) = {Append(s, e)[i] : i \in 1..Len(s) + 1}
      /\ ToSet(s) = {s[i] : i \in 1..Len(s)}
  BY <1>1, SetOf
<1>3. \A i \in 1..Len(s) + 1 : i \in 1..Len(s) \/ i = Len(s) + 1
  BY <1>1
<1>4. \A i \in 1..Len(s) : i \in 1..Len(s) + 1
  BY <1>1
<1>5. Len(s) + 1 \in 1..Len(s) + 1
  BY <1>1
<1> QED BY <1>1, <1>2, <1>3, <1>4, <1>5

LEMMA SetOfTail ==
  ASSUME NEW S, NEW s \in Seq(S), s # <<>>
  PROVE  /\ Tail(s) \in Seq(S) /\ Len(Tail(s)) = Len(s) - 1 /\ Len(s) \in Nat \ {0}
         /\ s[1] \in S /\ ToSet(s) = {s[1]} \cup ToSet(Tail(s))
         /\ \A i \in 1..Len(Tail(s)) : Tail(s)[i] = s[i + 1]
<1>1. /\ Tail(s) \in Seq(S) /\ Len(Tail(s)) = Len(s) - 1 /\ Len(s) \in Nat \ {0}
      /\ \A i \in 1..Len(Tail(s)) : Tail(s)[i] = s[i + 1]
  BY HeadTailProperties, EmptySeq
<1>2. /\ ToSet(s) = {s[i] : i \in 1..Len(s)}
      /\ ToSet(Tail(s)) = {Tail(s)[i] : i \in 1..Len(Tail(s))}
  BY <1>1, SetOf
<1>3. 1 \in 1..Len(s)
  BY <1>1
<1>4. \A i \in 1..Len(s) : i = 1 \/ (i - 1 \in 1..Len(Tail(s)) /\ s[i] = Tail(s)[i - 1])
  <2>1. ASSUME NEW i \in 1..Len(s), i # 1
        PROVE  i - 1 \in 1..Len(Tail(s)) /\ (i - 1) + 1 = i
    BY <1>1, <2>1
  <2> QED BY <1>1, <2>1
<1>5. \A i \in 1..Len(Tail(s)) : i + 1 \in 1..Len(s) /\ Tail(s)[i] = s[i + 1]
  BY <1>1
<1>6. s[1] \in S
  BY <1>3, ElementOfSeq
<1>7. ToSet(s) \subseteq {s[1]} \cup ToSet(Tail(s))
  BY <1>2, <1>4
<1>8. {s[1]} \cup ToSet(Tail(s)) \subseteq ToSet(s)
  BY <1>2, <1>3, <1>5
<1> QED BY <1>1, <1>6, <1>7, <1>8

\* A sequence cut in two.
LEMMA Cut ==
  ASSUME NEW S, NEW s \in Seq(S), NEW n \in 0..Len(s)
  PROVE  /\ SubSeq(s, 1, n) \in Seq(S) /\ SubSeq(s, n + 1, Len(s)) \in Seq(S)
         /\ Len(SubSeq(s, 1, n)) = n /\ Len(SubSeq(s, n + 1, Len(s))) = Len(s) - n
         /\ SubSeq(s, 1, n) \o SubSeq(s, n + 1, Len(s)) = s
<1>1. Len(s) \in Nat /\ n \in Nat /\ n <= Len(s) /\ \A i \in 1..Len(s) : s[i] \in S
  BY LenProperties
<1>2. SubSeq(s, 1, n) \in Seq(S) /\ Len(SubSeq(s, 1, n)) = n
  <2>1. \A i \in 1..n : s[i] \in S
    BY <1>1
  <2>2. SubSeq(s, 1, n) \in Seq(S) /\ Len(SubSeq(s, 1, n)) = IF 1 <= n THEN n - 1 + 1 ELSE 0
    BY <1>1, <2>1, SubSeqProperties
  <2> QED BY <1>1, <2>2
<1>3. SubSeq(s, n + 1, Len(s)) \in Seq(S) /\ Len(SubSeq(s, n + 1, Len(s))) = Len(s) - n
  <2>1. \A i \in n + 1..Len(s) : s[i] \in S
    BY <1>1
  <2>2. n + 1 \in Int /\ Len(s) \in Int
    BY <1>1
  <2>3. /\ SubSeq(s, n + 1, Len(s)) \in Seq(S)
        /\ Len(SubSeq(s, n + 1, Len(s))) = IF n + 1 <= Len(s) THEN Len(s) - (n + 1) + 1 ELSE 0
    BY <2>1, <2>2, SubSeqProperties
  <2> QED BY <1>1, <2>3
<1>4. SubSeq(s, 1, n) \o SubSeq(s, n + 1, Len(s)) = s
  <2>1. 1 \in 1..Len(s) + 1 /\ n \in 1 - 1..Len(s) /\ Len(s) \in n..Len(s)
    BY <1>1
  <2>2. SubSeq(s, 1, n) \o SubSeq(s, n + 1, Len(s)) = SubSeq(s, 1, Len(s))
    BY <2>1, ConcatAdjacentSubSeq
  <2> QED BY <2>2, SubSeqFull
<1> QED BY <1>2, <1>3, <1>4

\* k is what of the first n elements of s is in K: m tells where each of its l elements comes
\* from.
Places(k, l, s, n, K) ==
  \E m \in [1..l -> 1..n] :
    /\ \A i \in 1..l : k[i] = s[m[i]] /\ s[m[i]] \in K
    /\ \A i, j \in 1..l : i < j => m[i] < m[j]
    /\ \A j \in 1..n : s[j] \in K => \E i \in 1..l : m[i] = j

Selects(k, s, n, K) ==
  /\ Places(k, Len(k), s, n, K)
  /\ Cardinality({j \in 1..n : s[j] \notin K}) = n - Len(k)

LEMMA SelectsNext ==
  ASSUME NEW S, NEW s \in Seq(S), NEW K, NEW n \in Nat, n + 1 <= Len(s),
         NEW k \in Seq(S), Selects(k, s, n, K)
  PROVE  /\ s[n + 1] \in K => Selects(Append(k, s[n + 1]), s, n + 1, K)
         /\ s[n + 1] \notin K => Selects(k, s, n + 1, K)
<1> DEFINE e == s[n + 1]
           out(i) == {j \in 1..i : s[j] \notin K}
<1>1. n + 1 \in 1..Len(s) /\ e \in S /\ Len(k) \in Nat /\ Len(s) \in Nat
  <2>1. n + 1 \in 1..Len(s) /\ Len(k) \in Nat /\ Len(s) \in Nat
    BY LenProperties
  <2> QED BY <2>1, ElementOfSeq
<1>2. PICK m \in [1..Len(k) -> 1..n] :
        /\ \A i \in 1..Len(k) : k[i] = s[m[i]] /\ s[m[i]] \in K
        /\ \A i, j \in 1..Len(k) : i < j => m[i] < m[j]
        /\ \A j \in 1..n : s[j] \in K => \E i \in 1..Len(k) : m[i] = j
  BY DEF Selects, Places
<1>3. IsFiniteSet(out(n)) /\ Cardinality(out(n)) = n - Len(k)
  <2>1. IsFiniteSet(1..n)
    BY FS_Interval
  <2>2. out(n) \in SUBSET (1..n)
    OBVIOUS
  <2>3. IsFiniteSet(out(n))
    BY <2>1, <2>2, FS_Subset
  <2> QED BY <2>3 DEF Selects
<1>4. ASSUME e \in K
      PROVE  Selects(Append(k, e), s, n + 1, K)
  <2> DEFINE k1 == Append(k, e)
             m1 == [i \in 1..Len(k) + 1 |-> IF i <= Len(k) THEN m[i] ELSE n + 1]
  <2>1. /\ Len(k1) = Len(k) + 1 /\ k1[Len(k) + 1] = e
        /\ \A i \in 1..Len(k) : k1[i] = k[i]
    BY <1>1, AppendProperties
  <2>2. m1 \in [1..Len(k) + 1 -> 1..n + 1]
    <3>1. ASSUME NEW i \in 1..Len(k) + 1
          PROVE  (IF i <= Len(k) THEN m[i] ELSE n + 1) \in 1..n + 1
      <4>1. CASE i <= Len(k)
        <5>1. i \in 1..Len(k)
          BY <1>1, <4>1
        <5>2. m[i] \in 1..n
          BY <1>2, <5>1
        <5>3. m[i] \in 1..n + 1
          BY <5>2
        <5> QED BY <4>1, <5>3
      <4>2. CASE ~(i <= Len(k))
        BY <4>2
      <4> QED BY <4>1, <4>2
    <3> QED BY <3>1
  <2>3. /\ \A i \in 1..Len(k) : i \in 1..Len(k) + 1 /\ m1[i] = m[i]
        /\ Len(k) + 1 \in 1..Len(k) + 1 /\ m1[Len(k) + 1] = n + 1
    BY <1>1
  <2>4. \A i \in 1..Len(k) + 1 : i \in 1..Len(k) \/ i = Len(k) + 1
    BY <1>1
  <2> HIDE DEF m1, k1
  <2>5. \A i \in 1..Len(k) + 1 : k1[i] = s[m1[i]] /\ s[m1[i]] \in K
    BY <1>2, <1>4, <2>1, <2>3, <2>4
  <2>6. ASSUME NEW i \in 1..Len(k) + 1, NEW j \in 1..Len(k) + 1, i < j
        PROVE  m1[i] < m1[j]
    <3>1. i \in 1..Len(k)
      BY <1>1, <2>6
    <3>2. CASE j \in 1..Len(k)
      BY <1>2, <2>3, <2>6, <3>1, <3>2
    <3>3. CASE j = Len(k) + 1
      <4>1. m[i] \in 1..n /\ m1[i] = m[i] /\ m1[j] = n + 1
        BY <1>2, <2>3, <3>1, <3>3
      <4> QED BY <4>1
    <3> QED BY <2>4, <3>2, <3>3
  <2>7. ASSUME NEW j \in 1..n + 1, s[j] \in K
        PROVE  \E i \in 1..Len(k) + 1 : m1[i] = j
    <3>1. CASE j \in 1..n
      <4>1. PICK i \in 1..Len(k) : m[i] = j
        BY <1>2, <2>7, <3>1
      <4> QED BY <2>3, <4>1
    <3>2. CASE j = n + 1
      BY <2>3, <3>2
    <3>3. j \in 1..n \/ j = n + 1
      OBVIOUS
    <3> QED BY <3>1, <3>2, <3>3
  <2>8. out(n + 1) = out(n)
    BY <1>1, <1>4
  <2>9. Cardinality(out(n + 1)) = (n + 1) - (Len(k) + 1)
    <3> HIDE DEF out
    <3> QED BY <1>1, <1>3, <2>8
  <2>10. Selects(k1, s, n + 1, K)
    <3>1. \A i, j \in 1..Len(k) + 1 : i < j => m1[i] < m1[j]
      BY <2>6
    <3>2. \A j \in 1..n + 1 : s[j] \in K => \E i \in 1..Len(k) + 1 : m1[i] = j
      BY <2>7
    <3>3. Cardinality({j \in 1..n + 1 : s[j] \notin K}) = (n + 1) - Len(k1)
      BY <2>1, <2>9
    <3>4. PICK l, a : l = Len(k) + 1 /\ a = n + 1
      OBVIOUS
    <3>5. /\ m1 \in [1..l -> 1..a]
          /\ \A i \in 1..l : k1[i] = s[m1[i]] /\ s[m1[i]] \in K
          /\ \A i, j \in 1..l : i < j => m1[i] < m1[j]
          /\ \A j \in 1..a : s[j] \in K => \E i \in 1..l : m1[i] = j
      BY <2>2, <2>5, <3>1, <3>2, <3>4
    <3>6. Places(k1, l, s, a, K)
      BY <3>5 DEF Places
    <3>7. Places(k1, Len(k1), s, n + 1, K)
      BY <2>1, <3>4, <3>6
    <3> QED BY <3>3, <3>7 DEF Selects
  <2> QED BY <2>10 DEF k1
<1>5. ASSUME e \notin K
      PROVE  Selects(k, s, n + 1, K)
  <2>1. m \in [1..Len(k) -> 1..n + 1]
    BY <1>2
  <2>2. \A j \in 1..n + 1 : s[j] \in K => \E i \in 1..Len(k) : m[i] = j
    BY <1>2, <1>5
  <2>3. out(n + 1) = out(n) \cup {n + 1} /\ n + 1 \notin out(n)
    BY <1>1, <1>5
  <2>4. Cardinality(out(n + 1)) = (n - Len(k)) + 1
    <3>1. PICK A, a : A = out(n) /\ a = n + 1
      OBVIOUS
    <3> HIDE DEF out
    <3>2. IsFiniteSet(A) /\ a \notin A /\ Cardinality(A) = n - Len(k)
      BY <1>3, <2>3, <3>1
    <3>3. Cardinality(A \cup {a}) = Cardinality(A) + 1
      BY <3>2, FS_AddElement
    <3> QED BY <2>3, <3>1, <3>2, <3>3
  <2>5. Cardinality(out(n + 1)) = (n + 1) - Len(k)
    BY <1>1, <2>4
  <2>6. PICK l, a : l = Len(k) /\ a = n + 1
    OBVIOUS
  <2>7. /\ m \in [1..l -> 1..a]
        /\ \A i \in 1..l : k[i] = s[m[i]] /\ s[m[i]] \in K
        /\ \A i, j \in 1..l : i < j => m[i] < m[j]
        /\ \A j \in 1..a : s[j] \in K => \E i \in 1..l : m[i] = j
    BY <1>2, <2>1, <2>2, <2>6
  <2>8. Places(k, l, s, a, K)
    BY <2>7 DEF Places
  <2>9. Places(k, Len(k), s, n + 1, K)
    BY <2>6, <2>8
  <2> QED BY <2>5, <2>9 DEF Selects
<1> QED BY <1>4, <1>5

LEMMA KeptSelects ==
  ASSUME NEW S, NEW s \in Seq(S), NEW K
  PROVE  Kept(s, K) \in Seq(S) /\ Selects(Kept(s, K), s, Len(s), K)
<1> DEFINE n == Len(s)
           D == Seq(S)
           F == [p \in D \X (1..n) |-> IF s[p[2]] \in K THEN Append(p[1], s[p[2]]) ELSE p[1]]
           Built(g) == g = [i \in 0..n |-> IF i = 0 THEN <<>>
                                           ELSE IF s[i] \in K THEN Append(g[i - 1], s[i])
                                                ELSE g[i - 1]]
<1>1. n \in Nat /\ \A i \in 1..n : s[i] \in S
  BY LenProperties
<1>2. \A i \in 1..n : \A u \in D :
        /\ F[<<u, i>>] = IF s[i] \in K THEN Append(u, s[i]) ELSE u
        /\ F[<<u, i>>] \in D
  <2> SUFFICES ASSUME NEW i \in 1..n, NEW u \in D
               PROVE  /\ F[<<u, i>>] = IF s[i] \in K THEN Append(u, s[i]) ELSE u
                      /\ F[<<u, i>>] \in D
    OBVIOUS
  <2>1. s[i] \in S
    BY <1>1
  <2>2. Append(u, s[i]) \in D
    BY <2>1, AppendProperties
  <2>3. <<u, i>> \in D \X (1..n) /\ <<u, i>>[1] = u /\ <<u, i>>[2] = i
    OBVIOUS
  <2>4. F[<<u, i>>] = IF s[i] \in K THEN Append(u, s[i]) ELSE u
    BY <2>3
  <2> QED BY <2>2, <2>4
<1>3. F \in [D \X (1..n) -> D]
  <2> SUFFICES ASSUME NEW p \in D \X (1..n)
               PROVE  (IF s[p[2]] \in K THEN Append(p[1], s[p[2]]) ELSE p[1]) \in D
    OBVIOUS
  <2>1. p[1] \in D /\ p[2] \in 1..n
    OBVIOUS
  <2>2. s[p[2]] \in S
    BY <1>1, <2>1
  <2> QED BY <2>1, <2>2, AppendProperties
<1>4. <<>> \in D
  BY EmptySeq
<1>5. PICK h : LoopRuns(h, F, n, <<>>, D)
  <2>1. PICK d : d = <<>>
    OBVIOUS
  <2>2. d \in D
    BY <1>4, <2>1
  <2>3. LoopBody(F, n, D)
    BY <1>3 DEF LoopBody
  <2> HIDE DEF F, n, D
  <2>4. \E x : LoopRuns(x, F, n, d, D)
    BY <1>1, <2>2, <2>3, LoopExists
  <2> QED BY <2>1, <2>4
<1>6. Built(h)
  <2>1. /\ h \in [0..n -> D] /\ h[0] = <<>>
        /\ \A i \in 1..n : h[i] = F[<<h[i - 1], i>>]
    BY <1>5 DEF LoopRuns
  <2> HIDE DEF F
  <2>2. ASSUME NEW i \in 0..n
        PROVE  h[i] = IF i = 0 THEN <<>>
                      ELSE IF s[i] \in K THEN Append(h[i - 1], s[i]) ELSE h[i - 1]
    <3>1. CASE i = 0
      BY <2>1, <3>1
    <3>2. CASE i # 0
      <4>1. i \in 1..n /\ i - 1 \in 0..n
        BY <1>1, <3>2
      <4>2. h[i - 1] \in D
        BY <2>1, <4>1
      <4>3. h[i] = F[<<h[i - 1], i>>]
        BY <2>1, <4>1
      <4> QED BY <1>2, <3>2, <4>1, <4>2, <4>3
    <3> QED BY <3>1, <3>2
  <2>3. \A i \in 0..n : h[i] = IF i = 0 THEN <<>>
                               ELSE IF s[i] \in K THEN Append(h[i - 1], s[i]) ELSE h[i - 1]
    BY <2>2
  <2>4. h = [i \in 0..n |-> h[i]]
    BY <2>1
  <2> QED BY <2>3, <2>4
<1>7. PICK g : g = CHOOSE x : Built(x)
  OBVIOUS
<1>8. Kept(s, K) = g[n]
  BY <1>7 DEF Kept
<1>9. Built(g)
  <2> HIDE DEF Built
  <2> QED BY <1>6, <1>7
<1>10. /\ g[0] = <<>>
       /\ \A i \in 1..n : g[i] = IF s[i] \in K THEN Append(g[i - 1], s[i]) ELSE g[i - 1]
  <2>1. \A i \in 0..n : g[i] = IF i = 0 THEN <<>>
                               ELSE IF s[i] \in K THEN Append(g[i - 1], s[i]) ELSE g[i - 1]
    BY <1>9
  <2>2. 0 \in 0..n /\ \A i \in 1..n : i \in 0..n /\ i # 0
    BY <1>1
  <2> QED BY <2>1, <2>2
<1> DEFINE G == [i \in 0..n |-> {k \in Seq(S) : Selects(k, s, i, K)}]
<1>11. g[0] \in G[0]
  <2>1. Selects(<<>>, s, 0, K)
    <3>1. PICK k : k = <<>>
      OBVIOUS
    <3>2. Len(k) = 0 /\ 1..0 = {}
      BY <3>1, EmptySeq
    <3> DEFINE m == [i \in 1..0 |-> 0]
    <3>3. m \in [1..0 -> 1..0]
      BY <3>2
    <3> HIDE DEF m
    <3>4. Places(k, 0, s, 0, K)
      BY <3>2, <3>3 DEF Places
    <3>5. Cardinality({j \in 1..0 : s[j] \notin K}) = 0 - 0
      <4>1. {j \in 1..0 : s[j] \notin K} = {}
        BY <3>2
      <4> QED BY <4>1, FS_EmptySet
    <3>6. Selects(k, s, 0, K)
      BY <3>2, <3>4, <3>5 DEF Selects
    <3> QED BY <3>1, <3>6
  <2>2. 0 \in 0..n
    BY <1>1
  <2> QED BY <1>4, <1>10, <2>1, <2>2
<1>12. ASSUME NEW i \in 1..n, g[i - 1] \in G[i - 1]
       PROVE  g[i] \in G[i]
  <2>1. i - 1 \in Nat /\ (i - 1) + 1 = i /\ i <= Len(s) /\ i - 1 \in 0..n /\ i \in 0..n
    BY <1>1
  <2>2. g[i - 1] \in Seq(S) /\ Selects(g[i - 1], s, i - 1, K)
    BY <1>12, <2>1
  <2>3. PICK j, u : j = i - 1 /\ u = g[i - 1]
    OBVIOUS
  <2>4. /\ s[j + 1] \in K => Selects(Append(u, s[j + 1]), s, j + 1, K)
        /\ s[j + 1] \notin K => Selects(u, s, j + 1, K)
    BY <2>1, <2>2, <2>3, SelectsNext
  <2>5. s[i] \in S /\ Append(u, s[i]) \in Seq(S)
    BY <1>1, <2>2, <2>3, AppendProperties
  <2>6. g[i] \in Seq(S) /\ Selects(g[i], s, i, K)
    BY <1>10, <2>1, <2>2, <2>3, <2>4, <2>5
  <2> QED BY <2>1, <2>6
<1>13. g[n] \in G[n]
  <2> HIDE DEF G, n
  <2> QED BY <1>1, <1>11, <1>12, LoopKeeps
<1>14. n \in 0..n
  BY <1>1
<1> QED BY <1>8, <1>13, <1>14

LEMMA KeptIs ==
  ASSUME NEW S, NEW s \in Seq(S), NEW K
  PROVE  /\ Kept(s, K) \in Seq(S) /\ ToSet(Kept(s, K)) = ToSet(s) \cap K
         /\ Len(Kept(s, K)) \in Nat /\ Len(Kept(s, K)) <= Len(s)
         /\ IsInjective(s) => IsInjective(Kept(s, K))
<1>1. PICK k : k = Kept(s, K)
  OBVIOUS
<1>2. k \in Seq(S) /\ Selects(k, s, Len(s), K)
  BY <1>1, KeptSelects
<1>3. PICK n \in Nat : n = Len(s)
  BY LenProperties
<1>4. PICK l \in Nat : l = Len(k)
  BY <1>2, LenProperties
<1>5. PICK m \in [1..l -> 1..n] :
        /\ \A i \in 1..l : k[i] = s[m[i]] /\ s[m[i]] \in K
        /\ \A i, j \in 1..l : i < j => m[i] < m[j]
        /\ \A j \in 1..n : s[j] \in K => \E i \in 1..l : m[i] = j
  <2>1. Places(k, l, s, n, K)
    BY <1>2, <1>3, <1>4 DEF Selects
  <2> QED BY <2>1 DEF Places
<1>6. /\ ToSet(s) = {s[i] : i \in 1..n} /\ ToSet(k) = {k[i] : i \in 1..l}
      /\ DOMAIN s = 1..n /\ DOMAIN k = 1..l
  BY <1>2, <1>3, <1>4, SetOf, LenProperties
<1>7. ToSet(k) = ToSet(s) \cap K
  <2>1. ToSet(k) \subseteq ToSet(s) \cap K
    BY <1>5, <1>6
  <2>2. ToSet(s) \cap K \subseteq ToSet(k)
    BY <1>5, <1>6
  <2> QED BY <2>1, <2>2
<1>8. l <= n
  <2>1. IsFiniteSet({j \in 1..n : s[j] \notin K})
    <3>1. IsFiniteSet(1..n)
      BY FS_Interval
    <3> QED BY <3>1, FS_Subset
  <2>2. Cardinality({j \in 1..n : s[j] \notin K}) \in Nat
    BY <2>1, FS_CardinalityType
  <2>3. Cardinality({j \in 1..n : s[j] \notin K}) = n - l
    BY <1>2, <1>3, <1>4 DEF Selects
  <2> QED BY <2>2, <2>3
<1>9. ASSUME IsInjective(s)
      PROVE  IsInjective(k)
  <2>1. \A a, b \in 1..n : s[a] = s[b] => a = b
    BY <1>6, <1>9 DEF IsInjective
  <2>2. ASSUME NEW i \in 1..l, NEW j \in 1..l, k[i] = k[j]
        PROVE  i = j
    <3>1. m[i] = m[j]
      BY <1>5, <2>1, <2>2
    <3>2. ~(m[i] < m[j]) /\ ~(m[j] < m[i])
      BY <1>5, <3>1
    <3> QED BY <1>5, <3>2
  <2> QED BY <1>6, <2>2 DEF IsInjective
<1> QED BY <1>1, <1>2, <1>3, <1>4, <1>7, <1>8, <1>9

-----------------------------------------------------------------------------
(* The three queues *)

LEMMA GreaterOf ==
  ASSUME NEW a \in Int, NEW b \in Int
  PROVE  Max({a, b}) = (IF a <= b THEN b ELSE a) /\ Min({a, b}) = (IF a <= b THEN a ELSE b)
<1>1. CASE a <= b
  <2>1. \A x \in {a, b} : (\A y \in {a, b} : x >= y) <=> x = b
    BY <1>1
  <2>2. \A x \in {a, b} : (\A y \in {a, b} : x <= y) <=> x = a
    BY <1>1
  <2>3. Max({a, b}) = b
    BY <2>1 DEF Max
  <2>4. Min({a, b}) = a
    BY <2>2 DEF Min
  <2> QED BY <1>1, <2>3, <2>4
<1>2. CASE ~(a <= b)
  <2>1. \A x \in {a, b} : (\A y \in {a, b} : x >= y) <=> x = a
    BY <1>2
  <2>2. \A x \in {a, b} : (\A y \in {a, b} : x <= y) <=> x = b
    BY <1>2
  <2>3. Max({a, b}) = a
    BY <2>1 DEF Max
  <2>4. Min({a, b}) = b
    BY <2>2 DEF Min
  <2> QED BY <1>2, <2>3, <2>4
<1> QED BY <1>1, <1>2

LEMMA QueuesInOrder ==
  ASSUME NEW S, NEW qs \in [Priorities -> Seq(S)]
  PROVE  /\ InOrder(qs) \in Seq(S)
         /\ Depth(qs) = Len(qs[0]) + Len(qs[1]) + Len(qs[2]) /\ Depth(qs) \in Nat
         /\ \A p \in Priorities : Len(qs[p]) \in Nat
         /\ ToSet(InOrder(qs)) = ToSet(qs[0]) \cup ToSet(qs[1]) \cup ToSet(qs[2])
<1>1. PICK a \in Seq(S), b \in Seq(S), c \in Seq(S) : a = qs[0] /\ b = qs[1] /\ c = qs[2]
  BY DEF Priorities
<1>2. a \o b \in Seq(S) /\ Len(a \o b) = Len(a) + Len(b) /\ ToSet(a \o b) = ToSet(a) \cup ToSet(b)
  BY ConcatProperties, SetOfConcat
<1>3. PICK d \in Seq(S) : d = a \o b
  BY <1>2
<1>4. d \o c \in Seq(S) /\ Len(d \o c) = Len(d) + Len(c) /\ ToSet(d \o c) = ToSet(d) \cup ToSet(c)
  BY ConcatProperties, SetOfConcat
<1>5. Len(a) \in Nat /\ Len(b) \in Nat /\ Len(c) \in Nat
  BY LenProperties
<1>6. InOrder(qs) = d \o c
  BY <1>1, <1>3 DEF InOrder
<1>7. \A p \in Priorities : Len(qs[p]) \in Nat
  BY <1>1, <1>5 DEF Priorities
<1>8. Depth(qs) = Len(qs[0]) + Len(qs[1]) + Len(qs[2]) /\ Depth(qs) \in Nat
  <2>1. Depth(qs) = Len(d \o c)
    BY <1>6 DEF Depth
  <2>2. Len(d) = Len(a) + Len(b)
    BY <1>2, <1>3
  <2>3. PICK x, y, z : x = Len(a) /\ y = Len(b) /\ z = Len(c)
    OBVIOUS
  <2>4. x \in Nat /\ y \in Nat /\ z \in Nat
    BY <1>5, <2>3
  <2>5. Depth(qs) = (x + y) + z
    BY <1>4, <2>1, <2>2, <2>3
  <2>6. Depth(qs) = x + y + z /\ Depth(qs) \in Nat
    BY <2>4, <2>5
  <2>7. x = Len(qs[0]) /\ y = Len(qs[1]) /\ z = Len(qs[2])
    BY <1>1, <2>3
  <2> QED BY <2>6, <2>7
<1>9. ToSet(InOrder(qs)) = ToSet(qs[0]) \cup ToSet(qs[1]) \cup ToSet(qs[2])
  <2>1. ToSet(InOrder(qs)) = ToSet(d) \cup ToSet(c) /\ ToSet(d) = ToSet(a) \cup ToSet(b)
    BY <1>2, <1>3, <1>4, <1>6
  <2> QED BY <1>1, <2>1
<1> QED BY <1>4, <1>6, <1>7, <1>8, <1>9

LEMMA VictimIs ==
  ASSUME NEW S, NEW qs \in [Priorities -> Seq(S)]
  PROVE  /\ Victim(qs) \in Priorities /\ (Victim(qs) # 0 => qs[Victim(qs)] # <<>>)
         /\ \A p \in {1, 2} : qs[p] # <<>> => p <= Victim(qs)
<1> DEFINE T == {0} \cup {p \in {1, 2} : qs[p] # <<>>}
<1>1. T \in SUBSET (0..2) /\ T # {} /\ T \in SUBSET Int
  OBVIOUS
<1>2. IsFiniteSet(T)
  <2>1. PICK n \in Nat : n = 2
    OBVIOUS
  <2>2. IsFiniteSet(0..n)
    BY FS_Interval
  <2>3. T \in SUBSET (0..n)
    BY <1>1, <2>1
  <2> HIDE DEF T
  <2> QED BY <2>2, <2>3, FS_Subset
<1>3. Max(T) \in T /\ \A y \in T : y <= Max(T)
  <2> HIDE DEF T
  <2> QED BY <1>1, <1>2, MaxIsGreatest
<1>4. Victim(qs) = Max(T)
  BY DEF Victim
<1> QED BY <1>1, <1>3, <1>4 DEF Priorities

LEMMA TakenIs ==
  ASSUME NEW S, NEW qs \in [Priorities -> Seq(S)], NEW n \in Nat, NEW p \in Priorities
  PROVE  Taken(qs, n, p) \in 0..Len(qs[p])
<1>1. Len(qs[p]) \in Nat /\ Len(qs[0]) \in Nat /\ Len(qs[1]) \in Nat
  BY QueuesInOrder DEF Priorities
<1>2. Ahead(qs, p) \in Nat
  BY <1>1 DEF Ahead, Priorities
<1>3. PICK a \in Int, l \in Nat : a = n - Ahead(qs, p) /\ l = Len(qs[p])
  BY <1>1, <1>2
<1>4. PICK b \in Int : b = Min({a, l}) /\ b <= l
  <2>1. l \in Int
    OBVIOUS
  <2>2. Min({a, l}) = IF a <= l THEN a ELSE l
    BY <2>1, GreaterOf, Zenon
  <2> QED BY <2>2
<1>5. Max({0, b}) \in 0..l
  <2>1. PICK z \in Int : z = 0
    OBVIOUS
  <2>2. Max({z, b}) = IF z <= b THEN b ELSE z
    BY GreaterOf, Zenon
  <2>3. (IF z <= b THEN b ELSE z) \in 0..l
    BY <1>4, <2>1
  <2> QED BY <2>1, <2>2, <2>3
<1> QED BY <1>3, <1>4, <1>5 DEF Taken

\* What is taken and what is left are the queues.
CutInTwo(qs, n, S) ==
  \E ts \in [Priorities -> Seq(S)] :
    /\ TakeFirst(qs, n) = InOrder(ts)
    /\ LeaveRest(qs, n) \in [Priorities -> Seq(S)]
    /\ \A p \in Priorities : /\ ts[p] \o LeaveRest(qs, n)[p] = qs[p]
                             /\ Len(ts[p]) + Len(LeaveRest(qs, n)[p]) = Len(qs[p])

LEMMA TakeAndLeave ==
  ASSUME NEW S, NEW qs \in [Priorities -> Seq(S)], NEW n \in Nat
  PROVE  CutInTwo(qs, n, S)
<1> DEFINE ts == [p \in Priorities |-> SubSeq(qs[p], 1, Taken(qs, n, p))]
           rs == LeaveRest(qs, n)
<1>1. ASSUME NEW p \in Priorities
      PROVE  /\ ts[p] \in Seq(S) /\ rs[p] \in Seq(S) /\ ts[p] \o rs[p] = qs[p]
             /\ Len(ts[p]) + Len(rs[p]) = Len(qs[p])
  <2>1. PICK s \in Seq(S) : s = qs[p]
    OBVIOUS
  <2>2. PICK k \in 0..Len(s) : k = Taken(qs, n, p)
    BY <2>1, TakenIs
  <2>3. /\ SubSeq(s, 1, k) \in Seq(S) /\ SubSeq(s, k + 1, Len(s)) \in Seq(S)
        /\ Len(SubSeq(s, 1, k)) = k /\ Len(SubSeq(s, k + 1, Len(s))) = Len(s) - k
        /\ SubSeq(s, 1, k) \o SubSeq(s, k + 1, Len(s)) = s
    BY Cut
  <2>4. ts[p] = SubSeq(s, 1, k) /\ rs[p] = SubSeq(s, k + 1, Len(s))
    BY <2>1, <2>2 DEF LeaveRest
  <2>5. Len(s) \in Nat
    BY LenProperties
  <2>6. k + (Len(s) - k) = Len(s)
    BY <2>5
  <2> HIDE DEF ts, rs
  <2> QED BY <2>1, <2>3, <2>4, <2>6
<1>2. ts \in [Priorities -> Seq(S)]
  <2>1. \A p \in Priorities : SubSeq(qs[p], 1, Taken(qs, n, p)) \in Seq(S)
    BY <1>1
  <2> QED BY <2>1
<1>3. rs \in [Priorities -> Seq(S)]
  <2>1. \A p \in Priorities : SubSeq(qs[p], Taken(qs, n, p) + 1, Len(qs[p])) \in Seq(S)
    BY <1>1 DEF LeaveRest
  <2> QED BY <2>1 DEF LeaveRest
<1>4. TakeFirst(qs, n) = InOrder(ts)
  BY DEF TakeFirst
<1> HIDE DEF ts, rs
<1>5. /\ TakeFirst(qs, n) = InOrder(ts) /\ rs \in [Priorities -> Seq(S)]
      /\ \A p \in Priorities : ts[p] \o rs[p] = qs[p] /\ Len(ts[p]) + Len(rs[p]) = Len(qs[p])
  BY <1>1, <1>3, <1>4
<1> QED BY <1>2, <1>5 DEF rs, CutInTwo

-----------------------------------------------------------------------------
(* Types *)

\* An emitter numbers no more events than the bound lets it enqueue.
Numbers   == 0..(MaxEvents - 1)
EventSet  == [svc : Services, seq : Numbers, pri : Priorities, t : 1..MaxNow, life : Nat,
              count : Nat]
KeySet    == Services \X Numbers
QueueSet  == [Priorities -> Seq(EventSet)]
IngestSet == [seen : Seq(KeySet), queues : QueueSet, dropped : [Priorities -> Nat]]

\* The events of queue p are of priority p.
InPlace(qs) == \A p \in Priorities : \A e \in ToSet(qs[p]) : e.pri = p

LEMMA Constants ==
  /\ IsFiniteSet(Services)
  /\ QueueMax \in Nat \ {0} /\ DedupLru \in Nat \ {0} /\ DrainMax \in Nat \ {0}
  /\ RingCap \in Nat \ {0} /\ BatchMax \in Nat \ {0} /\ BodyMax \in Nat \ {0}
  /\ MaxNow \in Nat \ {0} /\ Lag \in Nat /\ Lateness \in Nat /\ MaxEvents \in Nat
  /\ MaxPosts \in Nat /\ MaxDisturbances \in Nat
BY PipelineAssumption

-----------------------------------------------------------------------------
(* dedup.js *)

LEMMA InjectiveLen ==
  ASSUME NEW S, NEW s \in Seq(S), IsInjective(s)
  PROVE  Cardinality(ToSet(s)) = Len(s)
<1>1. PICK n \in Nat : n = Len(s)
  BY LenProperties
<1>2. s = [i \in 1..n |-> s[i]] /\ DOMAIN s = 1..n
  BY <1>1, LenProperties
<1>3. \A i, j \in 1..n : s[i] = s[j] => i = j
  BY <1>2 DEF IsInjective
<1>4. Cardinality(Range(s)) = n
  BY <1>2, <1>3, RangeIsFinite
<1> QED BY <1>1, <1>4 DEF Range, ToSet

LEMMA InjectiveAppend ==
  ASSUME NEW S, NEW s \in Seq(S), NEW e \in S, IsInjective(s), e \notin ToSet(s)
  PROVE  IsInjective(Append(s, e))
<1>1. PICK n \in Nat : n = Len(s)
  BY LenProperties
<1>2. PICK u : u = Append(s, e)
  OBVIOUS
<1>3. /\ DOMAIN u = 1..n + 1 /\ DOMAIN s = 1..n
      /\ \A i \in 1..n : u[i] = s[i] /\ s[i] # e
      /\ u[n + 1] = e
  <2>1. u \in Seq(S) /\ Len(u) = n + 1 /\ u[n + 1] = e /\ \A i \in 1..n : u[i] = s[i]
    BY <1>1, <1>2, AppendProperties
  <2>2. DOMAIN u = 1..n + 1 /\ DOMAIN s = 1..n
    BY <1>1, <2>1, LenProperties
  <2>3. \A i \in 1..n : s[i] # e
    BY <1>1, SetOf
  <2> QED BY <2>1, <2>2, <2>3
<1>4. \A i \in 1..n + 1 : i \in 1..n \/ i = n + 1
  OBVIOUS
<1>5. \A i, j \in 1..n + 1 : u[i] = u[j] => i = j
  BY <1>3, <1>4 DEF IsInjective
<1> QED BY <1>2, <1>3, <1>5 DEF IsInjective

LEMMA InjectiveTail ==
  ASSUME NEW S, NEW s \in Seq(S), IsInjective(s), s # <<>>
  PROVE  IsInjective(Tail(s))
<1>1. PICK n \in Nat : n + 1 = Len(s)
  BY EmptySeq
<1>2. PICK u : u = Tail(s)
  OBVIOUS
<1>3. u \in Seq(S) /\ Len(u) = n /\ \A i \in 1..n : u[i] = s[i + 1]
  BY <1>1, <1>2, SetOfTail
<1>4. DOMAIN u = 1..n /\ DOMAIN s = 1..n + 1
  BY <1>1, <1>3, LenProperties
<1>5. ASSUME NEW i \in 1..n, NEW j \in 1..n, u[i] = u[j]
      PROVE  i = j
  <2>1. i + 1 \in 1..n + 1 /\ j + 1 \in 1..n + 1
    OBVIOUS
  <2>2. i + 1 = j + 1
    BY <1>3, <1>4, <1>5, <2>1 DEF IsInjective
  <2> QED BY <2>2
<1> QED BY <1>2, <1>4, <1>5 DEF IsInjective

\* The dedup remembers the key, forgets at most the oldest, and nothing while it
\* has room.
LEMMA RememberIs ==
  ASSUME NEW K, NEW keys \in Seq(K), NEW key \in K, IsInjective(keys), Len(keys) <= DedupLru
  PROVE  /\ Remember(keys, key) \in Seq(K) /\ IsInjective(Remember(keys, key))
         /\ Len(Remember(keys, key)) <= DedupLru
         /\ ToSet(Remember(keys, key)) \subseteq ToSet(keys) \cup {key}
         /\ Cardinality(ToSet(keys) \cup {key}) <= DedupLru =>
              ToSet(Remember(keys, key)) = ToSet(keys) \cup {key}
<1>1. PICK k : k = Kept(keys, ToSet(keys) \ {key})
  OBVIOUS
<1>2. /\ k \in Seq(K) /\ ToSet(k) = ToSet(keys) \cap (ToSet(keys) \ {key})
      /\ Len(k) \in Nat /\ Len(k) <= Len(keys) /\ IsInjective(k) /\ Len(keys) \in Nat
  BY <1>1, KeptIs, LenProperties
<1>3. PICK u : u = Append(k, key)
  OBVIOUS
<1>4. /\ u \in Seq(K) /\ Len(u) = Len(k) + 1 /\ u # <<>> /\ IsInjective(u)
      /\ ToSet(u) = ToSet(keys) \cup {key}
  <2>1. key \notin ToSet(k)
    BY <1>2
  <2>2. IsInjective(u)
    BY <1>2, <1>3, <2>1, InjectiveAppend
  <2>3. ToSet(u) = ToSet(k) \cup {key}
    BY <1>2, <1>3, SetOfAppend
  <2>4. u \in Seq(K) /\ Len(u) = Len(k) + 1 /\ u # <<>>
    BY <1>2, <1>3, AppendProperties
  <2> QED BY <1>2, <2>2, <2>3, <2>4
<1>5. Remember(keys, key) = IF Len(u) > DedupLru THEN Tail(u) ELSE u
  BY <1>1, <1>3 DEF Remember
<1>6. Cardinality(ToSet(keys) \cup {key}) = Len(u)
  BY <1>4, InjectiveLen
<1>7. /\ Tail(u) \in Seq(K) /\ IsInjective(Tail(u)) /\ Len(Tail(u)) = Len(u) - 1
      /\ ToSet(Tail(u)) \subseteq ToSet(u)
  BY <1>4, InjectiveTail, SetOfTail
<1>8. DedupLru \in Nat
  BY Constants
<1> HIDE DEF Remember
<1>9. CASE Len(u) > DedupLru
  <2>1. Remember(keys, key) = Tail(u)
    BY <1>5, <1>9
  <2>2. Len(Tail(u)) <= DedupLru
    BY <1>2, <1>4, <1>7, <1>8
  <2>3. ~(Cardinality(ToSet(keys) \cup {key}) <= DedupLru)
    BY <1>2, <1>4, <1>6, <1>8, <1>9
  <2> QED BY <1>4, <1>7, <2>1, <2>2, <2>3
<1>10. CASE ~(Len(u) > DedupLru)
  <2>1. Remember(keys, key) = u
    BY <1>5, <1>10
  <2>2. Len(u) <= DedupLru
    BY <1>2, <1>4, <1>8, <1>10
  <2> QED BY <1>4, <2>1, <2>2
<1> QED BY <1>9, <1>10

-----------------------------------------------------------------------------
(* admission.js *)

\* The three things that may happen to an event b finds room for, in a's place.
TakesRoom(a, b, e) ==
  /\ Depth(a.queues) < QueueMax /\ b.dropped = a.dropped
  /\ \A p \in Priorities :
       b.queues[p] = IF p = e.pri THEN Append(a.queues[p], e) ELSE a.queues[p]
IsRefused(a, b, e) ==
  /\ Depth(a.queues) >= QueueMax /\ Victim(a.queues) <= e.pri /\ b.queues = a.queues
  /\ \A p \in Priorities : b.dropped[p] = a.dropped[p] + IF p = e.pri THEN 1 ELSE 0
Displaces(a, b, e, v) ==
  /\ Depth(a.queues) >= QueueMax /\ v \in Priorities /\ v > e.pri /\ a.queues[v] # <<>>
  /\ \A p \in Priorities : b.dropped[p] = a.dropped[p] + IF p = v THEN 1 ELSE 0
  /\ \A p \in Priorities :
       b.queues[p] = CASE p = e.pri -> Append(a.queues[p], e)
                       [] p = v /\ p # e.pri -> Tail(a.queues[p])
                       [] p # v /\ p # e.pri -> a.queues[p]

LEMMA AdmitCases ==
  ASSUME NEW a \in IngestSet, NEW e \in EventSet, NEW b, b = AdmitOne(a, e)
  PROVE  /\ b \in IngestSet /\ b.seen = a.seen
         /\ \/ TakesRoom(a, b, e) \/ IsRefused(a, b, e) \/ Displaces(a, b, e, Victim(a.queues))
<1>1. PICK k, qs, ds : a = [seen |-> k, queues |-> qs, dropped |-> ds]
  BY DEF IngestSet
<1>2. k \in Seq(KeySet) /\ qs \in QueueSet /\ ds \in [Priorities -> Nat]
  BY <1>1 DEF IngestSet
<1>3. PICK r \in Priorities : r = e.pri
  BY DEF EventSet
<1>4. PICK v \in Priorities : v = Victim(qs) /\ (v # 0 => qs[v] # <<>>)
  BY <1>2, VictimIs DEF QueueSet
<1>5. PICK n \in Nat : n = Depth(qs)
  BY <1>2, QueuesInOrder DEF QueueSet
<1>6. QueueMax \in Nat /\ r \in 0..2 /\ v \in 0..2
  BY <1>3, <1>4, Constants DEF Priorities
<1>7. qs[r] \in Seq(EventSet) /\ Append(qs[r], e) \in Seq(EventSet) /\ ds[r] + 1 \in Nat
      /\ ds[v] + 1 \in Nat
  <2>1. qs[r] \in Seq(EventSet) /\ ds[r] \in Nat /\ ds[v] \in Nat
    BY <1>2 DEF QueueSet
  <2> QED BY <2>1, AppendProperties
<1>8. CASE n < QueueMax
  <2> DEFINE q1 == [qs EXCEPT ![r] = Append(qs[r], e)]
  <2>1. b = [seen |-> k, queues |-> q1, dropped |-> ds]
    <3>1. b = [a EXCEPT !.queues[e.pri] = Append(@, e)]
      <4>1. ~(n >= QueueMax)
        BY <1>6, <1>8
      <4> QED BY <1>1, <1>4, <1>5, <1>8, <4>1 DEF AdmitOne
    <3> QED BY <1>1, <1>3, <3>1
  <2>2. q1 \in QueueSet
    BY <1>2, <1>7 DEF QueueSet
  <2>3. \A p \in Priorities : q1[p] = IF p = r THEN Append(qs[p], e) ELSE qs[p]
    BY <1>2 DEF QueueSet
  <2> HIDE DEF q1
  <2>4. b \in IngestSet
    BY <1>2, <2>1, <2>2 DEF IngestSet
  <2>5. TakesRoom(a, b, e)
    BY <1>1, <1>3, <1>5, <1>8, <2>1, <2>3 DEF TakesRoom
  <2> QED BY <1>1, <2>1, <2>4, <2>5
<1>9. CASE n >= QueueMax /\ v <= r
  <2> DEFINE d1 == [ds EXCEPT ![r] = ds[r] + 1]
  <2>1. b = [seen |-> k, queues |-> qs, dropped |-> d1]
    <3>1. b = [a EXCEPT !.dropped[e.pri] = @ + 1]
      <4>1. ~(n < QueueMax) /\ ~(v > r)
        BY <1>6, <1>9
      <4> QED BY <1>1, <1>3, <1>4, <1>5, <1>9, <4>1 DEF AdmitOne
    <3> QED BY <1>1, <1>3, <3>1
  <2>2. d1 \in [Priorities -> Nat]
    BY <1>2, <1>7
  <2>3. \A p \in Priorities : d1[p] = ds[p] + IF p = r THEN 1 ELSE 0
    BY <1>2
  <2> HIDE DEF d1
  <2>4. b \in IngestSet
    BY <1>2, <2>1, <2>2 DEF IngestSet
  <2>5. IsRefused(a, b, e)
    BY <1>1, <1>3, <1>4, <1>5, <1>9, <2>1, <2>3 DEF IsRefused
  <2> QED BY <1>1, <2>1, <2>4, <2>5
<1>10. CASE n >= QueueMax /\ v > r
  <2> DEFINE q1 == [[qs EXCEPT ![v] = Tail(qs[v])] EXCEPT ![r] = Append(qs[r], e)]
             d1 == [ds EXCEPT ![v] = ds[v] + 1]
  <2>1. v # r /\ v # 0
    BY <1>6, <1>10
  <2>2. b = [seen |-> k, queues |-> q1, dropped |-> d1]
    <3>1. b = [a EXCEPT !.queues[v] = Tail(@), !.dropped[v] = @ + 1, !.queues[e.pri] = Append(@, e)]
      <4>1. ~(n < QueueMax) /\ ~(v <= r)
        BY <1>6, <1>10
      <4> QED BY <1>1, <1>3, <1>4, <1>5, <1>10, <4>1 DEF AdmitOne
    <3>2. [qs EXCEPT ![v] = Tail(qs[v])][r] = qs[r]
      BY <1>2, <2>1 DEF QueueSet
    <3> QED BY <1>1, <1>3, <3>1, <3>2
  <2>3. qs[v] \in Seq(EventSet) /\ Tail(qs[v]) \in Seq(EventSet) /\ qs[v] # <<>>
    <3>1. qs[v] \in Seq(EventSet) /\ qs[v] # <<>>
      BY <1>2, <1>4, <2>1 DEF QueueSet
    <3> QED BY <3>1, SetOfTail
  <2>4. q1 \in QueueSet /\ d1 \in [Priorities -> Nat]
    BY <1>2, <1>7, <2>3 DEF QueueSet
  <2>5. /\ \A p \in Priorities : d1[p] = ds[p] + IF p = v THEN 1 ELSE 0
        /\ \A p \in Priorities : q1[p] = CASE p = r -> Append(qs[p], e)
                                           [] p = v /\ p # r -> Tail(qs[p])
                                           [] p # v /\ p # r -> qs[p]
    <3>1. \A p \in Priorities : d1[p] = ds[p] + IF p = v THEN 1 ELSE 0
      BY <1>2
    <3>2. ASSUME NEW p \in Priorities
          PROVE  q1[p] = CASE p = r -> Append(qs[p], e)
                           [] p = v /\ p # r -> Tail(qs[p])
                           [] p # v /\ p # r -> qs[p]
      <4>1. q1[p] = IF p = r THEN Append(qs[r], e) ELSE IF p = v THEN Tail(qs[v]) ELSE qs[p]
        BY <1>2 DEF QueueSet
      <4> HIDE DEF q1
      <4>2. CASE p = r
        BY <4>1, <4>2
      <4>3. CASE p # r /\ p = v
        BY <4>1, <4>3
      <4>4. CASE p # r /\ p # v
        BY <4>1, <4>4
      <4> QED BY <4>2, <4>3, <4>4
    <3> QED BY <3>1, <3>2
  <2> HIDE DEF q1, d1
  <2>6. b \in IngestSet
    BY <1>2, <2>2, <2>4 DEF IngestSet
  <2>7. Displaces(a, b, e, v)
    BY <1>1, <1>3, <1>5, <1>10, <2>2, <2>3, <2>5 DEF Displaces
  <2> QED BY <1>1, <1>4, <2>2, <2>6, <2>7
<1> QED BY <1>6, <1>8, <1>9, <1>10

\* Admission keeps every queue to its priority and all of them within their bound.
LEMMA AdmitKeeps ==
  ASSUME NEW a \in IngestSet, NEW e \in EventSet, NEW b, b = AdmitOne(a, e),
         InPlace(a.queues), Depth(a.queues) <= QueueMax
  PROVE  InPlace(b.queues) /\ Depth(b.queues) <= QueueMax
<1>1. /\ b \in IngestSet
      /\ \/ TakesRoom(a, b, e) \/ IsRefused(a, b, e) \/ Displaces(a, b, e, Victim(a.queues))
  BY AdmitCases
<1>2. PICK qs \in QueueSet, rs \in QueueSet : qs = a.queues /\ rs = b.queues
  BY <1>1 DEF IngestSet
<1>3. PICK r \in Priorities : r = e.pri
  BY DEF EventSet
<1>4. /\ Depth(qs) = Len(qs[0]) + Len(qs[1]) + Len(qs[2])
      /\ Depth(rs) = Len(rs[0]) + Len(rs[1]) + Len(rs[2])
      /\ \A p \in Priorities : Len(qs[p]) \in Nat /\ Len(rs[p]) \in Nat
  BY QueuesInOrder DEF QueueSet
<1>5. QueueMax \in Nat /\ \A p \in Priorities : p \in {0, 1, 2}
  BY Constants DEF Priorities
<1>6. 0 \in Priorities /\ 1 \in Priorities /\ 2 \in Priorities
  BY DEF Priorities
<1>7. \A p \in Priorities : /\ qs[p] \in Seq(EventSet)
                            /\ Len(Append(qs[p], e)) = Len(qs[p]) + 1
                            /\ ToSet(Append(qs[p], e)) = ToSet(qs[p]) \cup {e}
  <2> SUFFICES ASSUME NEW p \in Priorities
               PROVE  /\ qs[p] \in Seq(EventSet)
                      /\ Len(Append(qs[p], e)) = Len(qs[p]) + 1
                      /\ ToSet(Append(qs[p], e)) = ToSet(qs[p]) \cup {e}
    OBVIOUS
  <2>1. PICK s \in Seq(EventSet) : s = qs[p]
    BY DEF QueueSet
  <2>2. Len(Append(s, e)) = Len(s) + 1 /\ ToSet(Append(s, e)) = ToSet(s) \cup {e}
    BY AppendProperties, SetOfAppend
  <2> QED BY <2>1, <2>2
<1> DEFINE l(p) == Len(qs[p])
           m(p) == Len(rs[p])
<1>11. ASSUME \A p \in Priorities : m(p) = IF p = r THEN l(p) + 1 ELSE l(p)
       PROVE  Depth(rs) = Depth(qs) + 1
  <2>1. /\ Depth(qs) = l(0) + l(1) + l(2) /\ Depth(rs) = m(0) + m(1) + m(2)
        /\ l(0) \in Nat /\ l(1) \in Nat /\ l(2) \in Nat
    BY <1>4, <1>6
  <2>2. /\ m(0) = IF 0 = r THEN l(0) + 1 ELSE l(0)
        /\ m(1) = IF 1 = r THEN l(1) + 1 ELSE l(1)
        /\ m(2) = IF 2 = r THEN l(2) + 1 ELSE l(2)
    BY <1>6, <1>11
  <2>3. r \in {0, 1, 2}
    BY <1>5
  <2> HIDE DEF l, m
  <2> QED BY <2>1, <2>2, <2>3
<1>12. ASSUME NEW v \in Priorities, v # r, m(v) = l(v) - 1, m(r) = l(r) + 1,
              \A p \in Priorities : p # v /\ p # r => m(p) = l(p)
       PROVE  Depth(rs) = Depth(qs)
  <2>1. /\ Depth(qs) = l(0) + l(1) + l(2) /\ Depth(rs) = m(0) + m(1) + m(2)
        /\ l(0) \in Nat /\ l(1) \in Nat /\ l(2) \in Nat
    BY <1>4, <1>6
  <2>2. /\ 0 # v /\ 0 # r => m(0) = l(0)
        /\ 1 # v /\ 1 # r => m(1) = l(1)
        /\ 2 # v /\ 2 # r => m(2) = l(2)
    BY <1>6, <1>12
  <2>3. r \in {0, 1, 2} /\ v \in {0, 1, 2}
    BY <1>5
  <2> HIDE DEF l, m
  <2> QED BY <1>12, <2>1, <2>2, <2>3
<1>8. CASE TakesRoom(a, b, e)
  <2>1. /\ Depth(qs) < QueueMax
        /\ \A p \in Priorities : rs[p] = IF p = r THEN Append(qs[p], e) ELSE qs[p]
    BY <1>2, <1>3, <1>8 DEF TakesRoom
  <2>2. \A p \in Priorities : Len(rs[p]) = IF p = r THEN Len(qs[p]) + 1 ELSE Len(qs[p])
    BY <1>7, <2>1
  <2>3. Depth(rs) = Depth(qs) + 1
    BY <1>11, <2>2
  <2>4. Depth(rs) <= QueueMax
    <3>1. PICK n \in Nat : n = Depth(qs)
      BY QueuesInOrder DEF QueueSet
    <3> QED BY <1>5, <2>1, <2>3, <3>1
  <2>5. InPlace(rs)
    BY <1>2, <1>3, <1>7, <2>1 DEF InPlace
  <2> QED BY <1>2, <2>4, <2>5
<1>9. CASE IsRefused(a, b, e)
  BY <1>9 DEF IsRefused
<1>10. CASE Displaces(a, b, e, Victim(a.queues))
  <2>1. PICK v \in Priorities : v = Victim(qs) /\ qs[v] # <<>> /\ v # r
    BY <1>2, <1>3, <1>5, <1>10 DEF Displaces
  <2>2. \A p \in Priorities : rs[p] = CASE p = r -> Append(qs[p], e)
                                        [] p = v /\ p # r -> Tail(qs[p])
                                        [] p # v /\ p # r -> qs[p]
    BY <1>2, <1>3, <1>10, <2>1 DEF Displaces
  <2>3. Len(Tail(qs[v])) = Len(qs[v]) - 1 /\ ToSet(Tail(qs[v])) \subseteq ToSet(qs[v])
    <3>1. PICK s \in Seq(EventSet) : s = qs[v] /\ s # <<>>
      BY <2>1 DEF QueueSet
    <3>2. Len(Tail(s)) = Len(s) - 1 /\ ToSet(Tail(s)) \subseteq ToSet(s)
      BY <3>1, SetOfTail
    <3> QED BY <3>1, <3>2
  <2>4. /\ \A p \in Priorities : p # v /\ p # r => rs[p] = qs[p]
        /\ rs[v] = Tail(qs[v]) /\ rs[r] = Append(qs[r], e)
    BY <2>1, <2>2
  <2>5. /\ \A p \in Priorities : p # v /\ p # r => Len(rs[p]) = Len(qs[p])
        /\ Len(rs[v]) = Len(qs[v]) - 1 /\ Len(rs[r]) = Len(qs[r]) + 1
    BY <1>7, <2>3, <2>4
  <2>6. Depth(rs) = Depth(qs)
    BY <1>12, <2>1, <2>5
  <2>7. InPlace(rs)
    <3> SUFFICES ASSUME NEW p \in Priorities, NEW x \in ToSet(rs[p]) PROVE x.pri = p
      BY DEF InPlace
    <3>1. p = r => x \in ToSet(qs[p]) \/ x = e
      BY <1>7, <2>4
    <3>2. p # r => x \in ToSet(qs[p])
      BY <2>3, <2>4
    <3> QED BY <1>2, <1>3, <3>1, <3>2 DEF InPlace
  <2> QED BY <1>2, <2>6, <2>7
<1> QED BY <1>1, <1>8, <1>9, <1>10

-----------------------------------------------------------------------------
(* A batch is ingested *)

\* What the dedup and the queues always are.
IngestOK(c) ==
  /\ c \in IngestSet /\ IsInjective(c.seen) /\ Len(c.seen) <= DedupLru
  /\ InPlace(c.queues) /\ Depth(c.queues) <= QueueMax

LEMMA KeyType ==
  ASSUME NEW e \in EventSet
  PROVE  Key(e) \in KeySet /\ e.svc \in Services /\ e.seq \in Nat
<1>1. e.svc \in Services /\ e.seq \in Numbers
  BY DEF EventSet
<1>2. Key(e) \in KeySet
  BY <1>1 DEF Key, KeySet
<1> QED BY <1>1, <1>2, Constants DEF Numbers

\* One event: its key is remembered, and unless it was, it is admitted.
LEMMA IngestOneIs ==
  ASSUME NEW c, IngestOK(c), NEW e \in EventSet, NEW d, d = IngestOne(c, e)
  PROVE  /\ IngestOK(d) /\ d.seen = Remember(c.seen, Key(e))
         /\ Key(e) \in ToSet(c.seen) => d.queues = c.queues /\ d.dropped = c.dropped
         /\ Key(e) \notin ToSet(c.seen) =>
              d.queues = AdmitOne(c, e).queues /\ d.dropped = AdmitOne(c, e).dropped
<1>1. PICK k, qs, ds : /\ c = [seen |-> k, queues |-> qs, dropped |-> ds]
                       /\ k \in Seq(KeySet) /\ qs \in QueueSet /\ ds \in [Priorities -> Nat]
  BY DEF IngestOK, IngestSet
<1>2. PICK k1 : k1 = Remember(k, Key(e))
  OBVIOUS
<1>3. k1 \in Seq(KeySet) /\ IsInjective(k1) /\ Len(k1) <= DedupLru
  <2>1. IsInjective(k) /\ Len(k) <= DedupLru
    BY <1>1 DEF IngestOK
  <2>2. Key(e) \in KeySet
    BY KeyType
  <2> QED BY <1>1, <1>2, <2>1, <2>2, RememberIs
<1>4. CASE Key(e) \in ToSet(k)
  <2>1. d = [c EXCEPT !.seen = k1]
    BY <1>1, <1>2, <1>4 DEF IngestOne, Seen
  <2>2. d = [seen |-> k1, queues |-> qs, dropped |-> ds]
    BY <1>1, <2>1
  <2>3. IngestOK(d)
    <3>1. d \in IngestSet
      BY <1>1, <1>3, <2>2 DEF IngestSet
    <3>2. InPlace(qs) /\ Depth(qs) <= QueueMax
      BY <1>1 DEF IngestOK
    <3> QED BY <1>3, <2>2, <3>1, <3>2 DEF IngestOK
  <2> QED BY <1>1, <1>2, <1>4, <2>2, <2>3
<1>5. CASE Key(e) \notin ToSet(k)
  <2>1. PICK b : b = AdmitOne(c, e)
    OBVIOUS
  <2>2. d = [b EXCEPT !.seen = k1]
    BY <1>1, <1>2, <1>5, <2>1 DEF IngestOne, Seen
  <2>3. b \in IngestSet
    BY <2>1, AdmitCases DEF IngestOK
  <2>4. PICK k2, qs2, ds2 : /\ b = [seen |-> k2, queues |-> qs2, dropped |-> ds2]
                            /\ qs2 \in QueueSet /\ ds2 \in [Priorities -> Nat]
    BY <2>3 DEF IngestSet
  <2>5. d = [seen |-> k1, queues |-> qs2, dropped |-> ds2]
    BY <2>2, <2>4
  <2>6. InPlace(b.queues) /\ Depth(b.queues) <= QueueMax
    <3>1. c \in IngestSet /\ InPlace(c.queues) /\ Depth(c.queues) <= QueueMax
      BY DEF IngestOK
    <3> QED BY <2>1, <3>1, AdmitKeeps
  <2>7. IngestOK(d)
    <3>1. d \in IngestSet
      BY <1>3, <2>4, <2>5 DEF IngestSet
    <3>2. InPlace(qs2) /\ Depth(qs2) <= QueueMax
      BY <2>4, <2>6
    <3> QED BY <1>3, <2>5, <3>1, <3>2 DEF IngestOK
  <2> QED BY <1>1, <1>2, <1>5, <2>1, <2>4, <2>5, <2>7
<1> QED BY <1>1, <1>4, <1>5

LEMMA IngestNextIs ==
  \A c, e : IngestNext(c, e) = IngestOne(c, e)
<1> SUFFICES ASSUME NEW c, NEW e PROVE IngestNext(c, e) = IngestOne(c, e)
  OBVIOUS
<1>1. PICK d : d = IngestOne(c, e)
  OBVIOUS
<1>2. {IngestOne(x, e) : x \in {c}} = {d}
  BY <1>1
<1>3. (CHOOSE r \in {d} : TRUE) = d
  OBVIOUS
<1> QED BY <1>1, <1>2, <1>3 DEF IngestNext

\* The collector's dedup and queues, before a batch.
Intake == [seen |-> seen, queues |-> queues, dropped |-> dropped]

\* A batch: what every event keeps holds after it. G[i] is what holds after i events.
LEMMA IngestLoop ==
  ASSUME NEW evs \in Seq(EventSet), IngestOK(Intake),
         NEW G, Intake \in G[0],
         \A i \in 1..Len(evs) : \A u :
           IngestOK(u) /\ u \in G[i - 1] => IngestOne(u, evs[i]) \in G[i]
  PROVE  IngestOK(Ingested(evs)) /\ Ingested(evs) \in G[Len(evs)]
<1> DEFINE n == Len(evs)
           D == {c \in IngestSet : IngestOK(c)}
           F == [p \in D \X (1..n) |-> IngestOne(p[1], evs[p[2]])]
           Body(g, i) == IF i = 0 THEN Intake ELSE IngestNext(g[i - 1], evs[i])
           Built(g) == g = [i \in 0..n |-> Body(g, i)]
<1>1. n \in Nat /\ \A i \in 1..n : evs[i] \in EventSet
  BY LenProperties
<1>2. \A c : c \in D <=> IngestOK(c)
  BY DEF IngestOK
<1>3. \A i \in 1..n : \A u \in D : IngestOne(u, evs[i]) \in D
  BY <1>1, <1>2, IngestOneIs
<1>4. LoopBody(F, n, D)
  <2> SUFFICES ASSUME NEW p \in D \X (1..n) PROVE IngestOne(p[1], evs[p[2]]) \in D
    BY DEF LoopBody
  <2>1. p[1] \in D /\ p[2] \in 1..n
    OBVIOUS
  <2> HIDE DEF D
  <2> QED BY <1>3, <2>1
<1>5. \A i \in 1..n : \A u \in D : F[<<u, i>>] = IngestOne(u, evs[i])
  <2> SUFFICES ASSUME NEW i \in 1..n, NEW u \in D PROVE F[<<u, i>>] = IngestOne(u, evs[i])
    OBVIOUS
  <2> HIDE DEF D
  <2>1. <<u, i>> \in D \X (1..n)
    OBVIOUS
  <2> QED BY <2>1
<1>6. PICK h : LoopRuns(h, F, n, Intake, D)
  <2>1. PICK d : d = Intake
    OBVIOUS
  <2>2. d \in D
    BY <1>2, <2>1
  <2> HIDE DEF F, n, D
  <2>3. \E x : LoopRuns(x, F, n, d, D)
    BY <1>1, <1>4, <2>2, LoopExists
  <2> QED BY <2>1, <2>3
<1>7. Built(h)
  <2>1. /\ h \in [0..n -> D] /\ h[0] = Intake
        /\ \A i \in 1..n : h[i] = F[<<h[i - 1], i>>]
    BY <1>6 DEF LoopRuns
  <2> HIDE DEF F, D
  <2>2. ASSUME NEW i \in 0..n
        PROVE  h[i] = Body(h, i)
    <3>1. CASE i = 0
      BY <2>1, <3>1
    <3>2. CASE i # 0
      <4>1. i \in 1..n /\ i - 1 \in 0..n
        BY <1>1, <3>2
      <4>2. h[i - 1] \in D
        BY <2>1, <4>1
      <4>3. h[i] = IngestOne(h[i - 1], evs[i])
        BY <1>5, <2>1, <4>1, <4>2
      <4> QED BY <3>2, <4>3, IngestNextIs
    <3> QED BY <3>1, <3>2
  <2>3. h = [i \in 0..n |-> h[i]]
    BY <2>1
  <2> HIDE DEF Body
  <2> QED BY <2>2, <2>3
<1>8. PICK g : g = CHOOSE x : Built(x)
  OBVIOUS
<1>9. Ingested(evs) = g[n]
  BY <1>8 DEF Ingested, Intake
<1>10. Built(g)
  <2> HIDE DEF Built
  <2> QED BY <1>7, <1>8
<1>11. g[0] = Intake /\ \A i \in 1..n : g[i] = IngestOne(g[i - 1], evs[i])
  <2>1. \A i \in 0..n : g[i] = Body(g, i)
    <3> HIDE DEF Body
    <3> QED BY <1>10
  <2>2. 0 \in 0..n /\ \A i \in 1..n : i \in 0..n /\ i # 0
    BY <1>1
  <2> QED BY <2>1, <2>2, IngestNextIs
<1> DEFINE H == [i \in 0..n |-> {c \in D : c \in G[i]}]
<1>12. g[0] \in H[0]
  <2>1. 0 \in 0..n
    BY <1>1
  <2> QED BY <1>2, <1>11, <2>1
<1>13. ASSUME NEW i \in 1..n, g[i - 1] \in H[i - 1]
       PROVE  g[i] \in H[i]
  <2>1. i - 1 \in 0..n /\ i \in 0..n
    BY <1>1
  <2> HIDE DEF D
  <2>2. g[i - 1] \in D /\ g[i - 1] \in G[i - 1]
    BY <1>13, <2>1
  <2>3. g[i] = IngestOne(g[i - 1], evs[i])
    BY <1>11
  <2>4. g[i] \in D
    BY <1>3, <2>2, <2>3
  <2>5. g[i] \in G[i]
    BY <1>2, <2>2, <2>3
  <2> QED BY <2>1, <2>4, <2>5
<1>14. g[n] \in H[n]
  <2> HIDE DEF H, n
  <2> QED BY <1>1, <1>12, <1>13, LoopKeeps
<1>15. n \in 0..n
  BY <1>1
<1> QED BY <1>2, <1>9, <1>14, <1>15

-----------------------------------------------------------------------------
(* Windows are built *)

WindowSet == [id : Nat, in : [Services -> Nat]]
AccSet    == [in : [Services -> Nat], last : [Services -> Nat], events : Seq(EventSet)]
BuildSet  == [last : [Services -> Nat], windows : Seq(WindowSet), events : Seq(EventSet)]

\* One event of a window: it is recorded, and a snapshot moves its service's counter.
LEMMA AggregateIs ==
  ASSUME NEW acc \in AccSet, NEW e \in EventSet, NEW b, b = Aggregate(acc, e)
  PROVE  /\ b \in AccSet /\ b.events = Append(acc.events, e)
         /\ \A s \in Services : e.pri # 0 \/ s # e.svc =>
              b.in[s] = acc.in[s] /\ b.last[s] = acc.last[s]
         /\ e.pri = 0 => /\ b.last[e.svc] = e.count
                         /\ b.in[e.svc] = acc.in[e.svc] + CounterDelta(acc.last[e.svc], e.count)
<1>1. PICK i, l, es : /\ acc = [in |-> i, last |-> l, events |-> es]
                      /\ i \in [Services -> Nat] /\ l \in [Services -> Nat] /\ es \in Seq(EventSet)
  BY DEF AccSet
<1>2. PICK s \in Services, n \in Nat : s = e.svc /\ n = e.count
  BY DEF EventSet
<1>3. PICK es1 \in Seq(EventSet) : es1 = Append(es, e)
  BY <1>1, AppendProperties
<1>4. CASE e.pri # 0
  <2>1. b = [in |-> i, last |-> l, events |-> es1]
    BY <1>1, <1>3, <1>4 DEF Aggregate
  <2>2. b \in AccSet
    BY <1>1, <2>1 DEF AccSet
  <2> QED BY <1>1, <1>3, <1>4, <2>1, <2>2
<1>5. CASE e.pri = 0
  <2>1. PICK d \in Nat : d = i[s] + CounterDelta(l[s], n)
    <3>1. i[s] \in Nat /\ l[s] \in Nat
      BY <1>1
    <3>2. CounterDelta(l[s], n) \in Nat
      BY <3>1 DEF CounterDelta
    <3>3. i[s] + CounterDelta(l[s], n) \in Nat
      BY <3>1, <3>2
    <3> QED BY <3>3
  <2> DEFINE i1 == [i EXCEPT ![s] = d]
             l1 == [l EXCEPT ![s] = n]
  <2>2. b = [in |-> i1, last |-> l1, events |-> es1]
    <3>1. b = [in     |-> [acc.in EXCEPT ![e.svc] = acc.in[e.svc]
                                                     + CounterDelta(acc.last[e.svc], e.count)],
               last   |-> [acc.last EXCEPT ![e.svc] = e.count],
               events |-> Append(acc.events, e)]
      BY <1>5 DEF Aggregate
    <3>2. acc.in = i /\ acc.last = l /\ acc.events = es
      BY <1>1
    <3> QED BY <1>2, <1>3, <2>1, <3>1, <3>2
  <2>3. i1 \in [Services -> Nat] /\ l1 \in [Services -> Nat]
    BY <1>1
  <2>4. /\ i1[s] = d /\ l1[s] = n
        /\ \A x \in Services : x # s => i1[x] = i[x] /\ l1[x] = l[x]
    BY <1>1
  <2> HIDE DEF i1, l1
  <2>5. b \in AccSet
    BY <2>2, <2>3 DEF AccSet
  <2> QED BY <1>1, <1>2, <1>3, <1>5, <2>1, <2>2, <2>4, <2>5
<1> QED BY <1>4, <1>5

LEMMA AggregateNextIs ==
  \A c, e : AggregateNext(c, e) = Aggregate(c, e)
<1> SUFFICES ASSUME NEW c, NEW e PROVE AggregateNext(c, e) = Aggregate(c, e)
  OBVIOUS
<1>1. PICK d : d = Aggregate(c, e)
  OBVIOUS
<1>2. {Aggregate(x, e) : x \in {c}} = {d}
  BY <1>1
<1>3. (CHOOSE r \in {d} : TRUE) = d
  OBVIOUS
<1> QED BY <1>1, <1>2, <1>3 DEF AggregateNext

LEMMA BuildNextIs ==
  \A acc, id, evs : BuildNext(acc, id, evs) = Build(acc, id, evs)
<1> SUFFICES ASSUME NEW acc, NEW id, NEW evs
             PROVE  BuildNext(acc, id, evs) = Build(acc, id, evs)
  OBVIOUS
<1>1. PICK d : d = Build(acc, id, evs)
  OBVIOUS
<1>2. {Build(x, id, evs) : x \in {acc}} = {d}
  BY <1>1
<1>3. (CHOOSE r \in {d} : TRUE) = d
  OBVIOUS
<1> QED BY <1>1, <1>2, <1>3 DEF BuildNext

\* One window: what every event of it keeps holds after it.
LEMMA BuildLoop ==
  ASSUME NEW acc \in BuildSet, NEW id \in Nat, NEW evs \in Seq(EventSet), NEW G,
         [in |-> [s \in Services |-> 0], last |-> acc.last, events |-> acc.events] \in G[0],
         \A i \in 1..Len(evs) : \A u \in AccSet : u \in G[i - 1] =>
           IF evs[i].t = id THEN Aggregate(u, evs[i]) \in G[i] ELSE u \in G[i]
  PROVE  /\ Build(acc, id, evs) \in BuildSet
         /\ \E u \in AccSet : /\ u \in G[Len(evs)]
                              /\ Build(acc, id, evs) =
                                   [last |-> u.last, events |-> u.events,
                                    windows |-> Append(acc.windows, [id |-> id, in |-> u.in])]
<1> DEFINE n == Len(evs)
           D == AccSet
           Start == [in |-> [s \in Services |-> 0], last |-> acc.last, events |-> acc.events]
           Step(u, i) == IF evs[i].t = id THEN Aggregate(u, evs[i]) ELSE u
           F == [p \in D \X (1..n) |-> Step(p[1], p[2])]
           Body(g, i) == IF i = 0 THEN Start ELSE IF evs[i].t = id THEN AggregateNext(g[i - 1], evs[i]) ELSE g[i - 1]
           Built(g) == g = [i \in 0..n |-> Body(g, i)]
<1>1. n \in Nat
  BY LenProperties
<1>2. Start \in D
  BY DEF AccSet, BuildSet
<1>3. \A i \in 1..n : \A u \in D : Step(u, i) \in D
  <2> SUFFICES ASSUME NEW i \in 1..n, NEW u \in D PROVE Step(u, i) \in D
    OBVIOUS
  <2>1. evs[i] \in EventSet
    BY LenProperties
  <2>2. Aggregate(u, evs[i]) \in AccSet
    BY <2>1, AggregateIs
  <2> QED BY <2>2
<1> HIDE DEF D
<1>4. LoopBody(F, n, D)
  <2> SUFFICES ASSUME NEW p \in D \X (1..n) PROVE Step(p[1], p[2]) \in D
    BY DEF LoopBody
  <2>1. p[1] \in D /\ p[2] \in 1..n
    OBVIOUS
  <2> HIDE DEF Step
  <2> QED BY <1>3, <2>1
<1>5. \A i \in 1..n : \A u \in D : F[<<u, i>>] = Step(u, i)
  <2> SUFFICES ASSUME NEW i \in 1..n, NEW u \in D PROVE F[<<u, i>>] = Step(u, i)
    OBVIOUS
  <2>1. <<u, i>> \in D \X (1..n)
    OBVIOUS
  <2> HIDE DEF Step
  <2> QED BY <2>1
<1>6. PICK h : LoopRuns(h, F, n, Start, D)
  <2>1. PICK d : d = Start
    OBVIOUS
  <2>2. d \in D
    BY <1>2, <2>1
  <2> HIDE DEF F, n
  <2>3. \E x : LoopRuns(x, F, n, d, D)
    BY <1>1, <1>4, <2>2, LoopExists
  <2> QED BY <2>1, <2>3
<1>7. \A g, i : Body(g, i) = IF i = 0 THEN Start ELSE Step(g[i - 1], i)
  BY AggregateNextIs
<1>8. Built(h)
  <2>1. /\ h \in [0..n -> D] /\ h[0] = Start
        /\ \A i \in 1..n : h[i] = F[<<h[i - 1], i>>]
    BY <1>6 DEF LoopRuns
  <2> HIDE DEF F, Step, Body, Start
  <2>2. ASSUME NEW i \in 0..n
        PROVE  h[i] = Body(h, i)
    <3>1. CASE i = 0
      BY <1>7, <2>1, <3>1
    <3>2. CASE i # 0
      <4>1. i \in 1..n /\ i - 1 \in 0..n
        BY <1>1, <3>2
      <4>2. h[i - 1] \in D
        BY <2>1, <4>1
      <4>3. h[i] = Step(h[i - 1], i)
        BY <1>5, <2>1, <4>1, <4>2
      <4> QED BY <1>7, <3>2, <4>3
    <3> QED BY <3>1, <3>2
  <2>3. h = [i \in 0..n |-> h[i]]
    BY <2>1
  <2> QED BY <2>2, <2>3
<1>9. PICK g : g = CHOOSE x : Built(x)
  OBVIOUS
<1>10. Build(acc, id, evs) = [last |-> g[n].last, events |-> g[n].events,
                               windows |-> Append(acc.windows, [id |-> id, in |-> g[n].in])]
  BY <1>9 DEF Build
<1>11. Built(g)
  <2> HIDE DEF Built
  <2> QED BY <1>8, <1>9
<1>12. g[0] = Start /\ \A i \in 1..n : g[i] = Step(g[i - 1], i)
  <2>1. \A i \in 0..n : g[i] = Body(g, i)
    <3> HIDE DEF Body
    <3> QED BY <1>11
  <2>2. 0 \in 0..n /\ \A i \in 1..n : i \in 0..n /\ i # 0
    BY <1>1
  <2> HIDE DEF Body, Step, Start
  <2> QED BY <1>7, <2>1, <2>2
<1> DEFINE H == [i \in 0..n |-> {c \in D : c \in G[i]}]
<1>13. g[0] \in H[0]
  <2>1. 0 \in 0..n
    BY <1>1
  <2>2. g[0] \in D /\ g[0] \in G[0]
    BY <1>2, <1>12
  <2> QED BY <2>1, <2>2
<1>14. ASSUME NEW i \in 1..n, g[i - 1] \in H[i - 1]
       PROVE  g[i] \in H[i]
  <2>1. i - 1 \in 0..n /\ i \in 0..n
    BY <1>1
  <2>2. g[i - 1] \in D /\ g[i - 1] \in G[i - 1]
    BY <1>14, <2>1
  <2>3. g[i] \in D
    <3> HIDE DEF Step
    <3> QED BY <1>3, <1>12, <2>2
  <2>4. g[i] \in G[i]
    BY <1>12, <2>2 DEF D
  <2> QED BY <2>1, <2>3, <2>4
<1>15. g[n] \in H[n]
  <2> HIDE DEF H, n
  <2> QED BY <1>1, <1>13, <1>14, LoopKeeps
<1>16. n \in 0..n /\ g[n] \in D /\ g[n] \in G[n]
  <2>1. n \in 0..n
    BY <1>1
  <2> QED BY <1>15, <2>1
<1>17. Build(acc, id, evs) \in BuildSet
  <2>1. PICK u \in AccSet : u = g[n]
    BY <1>16 DEF D
  <2>2. PICK w \in WindowSet : w = [id |-> id, in |-> u.in]
    BY DEF WindowSet, AccSet
  <2>3. acc.windows \in Seq(WindowSet)
    BY DEF BuildSet
  <2>4. Append(acc.windows, w) \in Seq(WindowSet)
    BY <2>3, AppendProperties
  <2>5. Build(acc, id, evs) = [last |-> u.last, events |-> u.events,
                               windows |-> Append(acc.windows, w)]
    <3> HIDE DEF n
    <3> QED BY <1>10, <2>1, <2>2
  <2>6. u.last \in [Services -> Nat] /\ u.events \in Seq(EventSet)
    BY DEF AccSet
  <2> QED BY <2>4, <2>5, <2>6 DEF BuildSet
<1> QED BY <1>10, <1>16, <1>17 DEF D


\* What building a window keeps is whatever every event of it keeps: here, the types.
LEMMA BuildIs ==
  ASSUME NEW acc \in BuildSet, NEW id \in Nat, NEW evs \in Seq(EventSet)
  PROVE  Build(acc, id, evs) \in BuildSet
<1> DEFINE G == [i \in 0..Len(evs) |-> AccSet]
<1>1. Len(evs) \in Nat /\ \A i \in 1..Len(evs) : evs[i] \in EventSet
  BY LenProperties
<1>2. \A i \in 0..Len(evs) : G[i] = AccSet
  OBVIOUS
<1>3. [in |-> [s \in Services |-> 0], last |-> acc.last, events |-> acc.events] \in G[0]
  BY <1>1 DEF AccSet, BuildSet
<1>4. \A i \in 1..Len(evs) : \A u \in AccSet : u \in G[i - 1] =>
        IF evs[i].t = id THEN Aggregate(u, evs[i]) \in G[i] ELSE u \in G[i]
  <2> SUFFICES ASSUME NEW i \in 1..Len(evs), NEW u \in AccSet
               PROVE  Aggregate(u, evs[i]) \in G[i] /\ u \in G[i]
    OBVIOUS
  <2>1. Aggregate(u, evs[i]) \in AccSet
    BY <1>1, AggregateIs
  <2>2. i \in 0..Len(evs)
    BY <1>1
  <2> QED BY <1>2, <2>1, <2>2
<1> HIDE DEF G
<1> QED BY <1>3, <1>4, BuildLoop

\* The windows of ids: what every window keeps holds after them.
LEMMA PublishLoop ==
  ASSUME NEW ids, NEW evs \in Seq(EventSet), NEW newest \in Nat, NEW G,
         [last |-> lastCounters, windows |-> published, events |-> aggregated] \in BuildSet,
         [last |-> lastCounters, windows |-> published, events |-> aggregated] \in G[0],
         \A i \in 1..newest : \A u \in BuildSet : u \in G[i - 1] =>
           IF i \in ids THEN Build(u, i, evs) \in G[i] ELSE u \in G[i]
  PROVE  Published(ids, evs, newest) \in BuildSet /\ Published(ids, evs, newest) \in G[newest]
<1> DEFINE n == newest
           D == BuildSet
           Start == [last |-> lastCounters, windows |-> published, events |-> aggregated]
           Step(u, i) == IF i \in ids THEN Build(u, i, evs) ELSE u
           F == [p \in D \X (1..n) |-> Step(p[1], p[2])]
           Body(g, i) == IF i = 0 THEN Start ELSE IF i \in ids THEN BuildNext(g[i - 1], i, evs) ELSE g[i - 1]
           Built(g) == g = [i \in 0..n |-> Body(g, i)]
<1>1. n \in Nat
  BY LenProperties
<1>2. Start \in D
  OBVIOUS
<1>3. \A i \in 1..n : \A u \in D : Step(u, i) \in D
  <2> SUFFICES ASSUME NEW i \in 1..n, NEW u \in D PROVE Step(u, i) \in D
    OBVIOUS
  <2>1. Build(u, i, evs) \in BuildSet
    BY BuildIs
  <2> QED BY <2>1
<1> HIDE DEF D
<1>4. LoopBody(F, n, D)
  <2> SUFFICES ASSUME NEW p \in D \X (1..n) PROVE Step(p[1], p[2]) \in D
    BY DEF LoopBody
  <2>1. p[1] \in D /\ p[2] \in 1..n
    OBVIOUS
  <2> HIDE DEF Step
  <2> QED BY <1>3, <2>1
<1>5. \A i \in 1..n : \A u \in D : F[<<u, i>>] = Step(u, i)
  <2> SUFFICES ASSUME NEW i \in 1..n, NEW u \in D PROVE F[<<u, i>>] = Step(u, i)
    OBVIOUS
  <2>1. <<u, i>> \in D \X (1..n)
    OBVIOUS
  <2> HIDE DEF Step
  <2> QED BY <2>1
<1>6. PICK h : LoopRuns(h, F, n, Start, D)
  <2>1. PICK d : d = Start
    OBVIOUS
  <2>2. d \in D
    BY <1>2, <2>1
  <2> HIDE DEF F, n
  <2>3. \E x : LoopRuns(x, F, n, d, D)
    BY <1>1, <1>4, <2>2, LoopExists
  <2> QED BY <2>1, <2>3
<1>7. \A g, i : Body(g, i) = IF i = 0 THEN Start ELSE Step(g[i - 1], i)
  BY BuildNextIs
<1>8. Built(h)
  <2>1. /\ h \in [0..n -> D] /\ h[0] = Start
        /\ \A i \in 1..n : h[i] = F[<<h[i - 1], i>>]
    BY <1>6 DEF LoopRuns
  <2> HIDE DEF F, Step, Body, Start
  <2>2. ASSUME NEW i \in 0..n
        PROVE  h[i] = Body(h, i)
    <3>1. CASE i = 0
      BY <1>7, <2>1, <3>1
    <3>2. CASE i # 0
      <4>1. i \in 1..n /\ i - 1 \in 0..n
        BY <1>1, <3>2
      <4>2. h[i - 1] \in D
        BY <2>1, <4>1
      <4>3. h[i] = Step(h[i - 1], i)
        BY <1>5, <2>1, <4>1, <4>2
      <4> QED BY <1>7, <3>2, <4>3
    <3> QED BY <3>1, <3>2
  <2>3. h = [i \in 0..n |-> h[i]]
    BY <2>1
  <2> QED BY <2>2, <2>3
<1>9. PICK g : g = CHOOSE x : Built(x)
  OBVIOUS
<1>10. Published(ids, evs, newest) = g[n]
  BY <1>9 DEF Published
<1>11. Built(g)
  <2> HIDE DEF Built
  <2> QED BY <1>8, <1>9
<1>12. g[0] = Start /\ \A i \in 1..n : g[i] = Step(g[i - 1], i)
  <2>1. \A i \in 0..n : g[i] = Body(g, i)
    <3> HIDE DEF Body
    <3> QED BY <1>11
  <2>2. 0 \in 0..n /\ \A i \in 1..n : i \in 0..n /\ i # 0
    BY <1>1
  <2> HIDE DEF Body, Step, Start
  <2> QED BY <1>7, <2>1, <2>2
<1> DEFINE H == [i \in 0..n |-> {c \in D : c \in G[i]}]
<1>13. g[0] \in H[0]
  <2>1. 0 \in 0..n
    BY <1>1
  <2>2. g[0] \in D /\ g[0] \in G[0]
    BY <1>2, <1>12
  <2> QED BY <2>1, <2>2
<1>14. ASSUME NEW i \in 1..n, g[i - 1] \in H[i - 1]
       PROVE  g[i] \in H[i]
  <2>1. i - 1 \in 0..n /\ i \in 0..n
    BY <1>1
  <2>2. g[i - 1] \in D /\ g[i - 1] \in G[i - 1]
    BY <1>14, <2>1
  <2>3. g[i] \in D
    <3> HIDE DEF Step
    <3> QED BY <1>3, <1>12, <2>2
  <2>4. g[i] \in G[i]
    BY <1>12, <2>2 DEF D
  <2> QED BY <2>1, <2>3, <2>4
<1>15. g[n] \in H[n]
  <2> HIDE DEF H, n
  <2> QED BY <1>1, <1>13, <1>14, LoopKeeps
<1>16. n \in 0..n /\ g[n] \in D /\ g[n] \in G[n]
  <2>1. n \in 0..n
    BY <1>1
  <2> QED BY <1>15, <2>1
<1> QED BY <1>10, <1>16 DEF D

-----------------------------------------------------------------------------
(* emitter.js *)

EmitterSet ==
  [seq : Nat, count : Nat, rings : QueueSet, retained : Seq(EventSet), posting : Seq(EventSet),
   post : Nat, shed : 0..3, localDrops : Nat, shedDrops : Nat]

\* What of em no event changes.
SameButRings(d, em) ==
  /\ d.count = em.count /\ d.retained = em.retained /\ d.posting = em.posting
  /\ d.post = em.post /\ d.shed = em.shed /\ d.shedDrops = em.shedDrops

\* rs are em's rings without the oldest event of one of them, a sample or less.
RoomMade(rs, qs) ==
  \E v \in {1, 2} :
    /\ qs[v] # <<>> /\ (qs[2] = <<>> => v = 1)
    /\ \A p \in Priorities : rs[p] = IF p = v THEN Tail(qs[p]) ELSE qs[p]

\* d is em with e in its rings, room having been made for it if need be.
Enqueued(d, em, e) ==
  \E rs \in QueueSet :
    /\ \/ rs = em.rings /\ d.localDrops = em.localDrops /\ Len(rs[e.pri]) < RingCap
       \/ RoomMade(rs, em.rings) /\ d.localDrops = em.localDrops + 1
    /\ \A p \in Priorities : d.rings[p] = IF p = e.pri THEN Append(rs[p], e) ELSE rs[p]

LEMMA EnqueueIs ==
  ASSUME NEW em \in EmitterSet, NEW e \in EventSet, NEW d, d = Enqueue(em, e)
  PROVE  /\ d \in EmitterSet /\ d.seq = em.seq + 1 /\ SameButRings(d, em)
         /\ \/ Enqueued(d, em, e)
            \/ d.rings = em.rings /\ d.localDrops = em.localDrops + 1
<1>1. PICK a, b, qs, re, po, n, sh, l, m :
        /\ em = [seq |-> a, count |-> b, rings |-> qs, retained |-> re, posting |-> po,
                 post |-> n, shed |-> sh, localDrops |-> l, shedDrops |-> m]
        /\ a \in Nat /\ b \in Nat /\ qs \in QueueSet /\ re \in Seq(EventSet)
        /\ po \in Seq(EventSet) /\ n \in Nat /\ sh \in 0..3 /\ l \in Nat /\ m \in Nat
  BY DEF EmitterSet
<1> DEFINE Emitter(x, rs) ==
             [seq |-> a + 1, count |-> b, rings |-> rs, retained |-> re, posting |-> po,
              post |-> n, shed |-> sh, localDrops |-> x, shedDrops |-> m]
<1>2. \A rs \in QueueSet : \A x \in Nat :
        d = Emitter(x, rs) => d \in EmitterSet /\ d.seq = em.seq + 1 /\ SameButRings(d, em)
  <2> SUFFICES ASSUME NEW rs \in QueueSet, NEW x \in Nat, d = Emitter(x, rs)
               PROVE  d \in EmitterSet /\ d.seq = em.seq + 1 /\ SameButRings(d, em)
    OBVIOUS
  <2>1. d \in EmitterSet
    BY <1>1 DEF EmitterSet
  <2> QED BY <1>1, <2>1 DEF SameButRings
<1>3. PICK r \in Priorities : r = e.pri
  BY DEF EventSet
<1>4. PICK v \in Priorities : /\ v = Victim(qs) /\ (v # 0 => qs[v] # <<>>)
                              /\ (qs[1] # <<>> => 1 <= v) /\ (qs[2] # <<>> => 2 <= v)
  BY <1>1, VictimIs DEF QueueSet
<1>5. PICK k \in Nat : k = Len(qs[r])
  BY <1>1, QueuesInOrder DEF QueueSet
<1>6. RingCap \in Nat /\ v \in 0..2
  BY Constants DEF Priorities
<1>7. qs[r] \in Seq(EventSet) /\ Append(qs[r], e) \in Seq(EventSet) /\ l + 1 \in Nat
  <2>1. qs[r] \in Seq(EventSet)
    BY <1>1 DEF QueueSet
  <2> QED BY <1>1, <2>1, AppendProperties
<1>8. em.rings = qs /\ em.localDrops = l
  BY <1>1
<1>9. CASE k < RingCap
  <2> DEFINE rs == [qs EXCEPT ![r] = Append(qs[r], e)]
  <2>1. d = Emitter(l, rs)
    <3>1. d = Numbered(em, Into(em.rings, e), 0)
      <4>1. ~(Len(em.rings[e.pri]) >= RingCap)
        BY <1>3, <1>5, <1>6, <1>8, <1>9
      <4> QED BY <4>1 DEF Enqueue
    <3>2. Into(em.rings, e) = rs
      BY <1>3, <1>8 DEF Into
    <3>3. l + 0 = l
      BY <1>1
    <3> HIDE DEF rs
    <3> QED BY <1>1, <3>1, <3>2, <3>3 DEF Numbered
  <2>2. rs \in QueueSet
    BY <1>1, <1>7 DEF QueueSet
  <2>3. \A p \in Priorities : rs[p] = IF p = r THEN Append(qs[p], e) ELSE qs[p]
    BY <1>1 DEF QueueSet
  <2>4. d.rings = rs /\ d.localDrops = l
    BY <2>1
  <2> HIDE DEF rs
  <2>5. Enqueued(d, em, e)
    BY <1>1, <1>3, <1>5, <1>8, <1>9, <2>3, <2>4 DEF Enqueued
  <2>6. d \in EmitterSet /\ d.seq = em.seq + 1 /\ SameButRings(d, em)
    <3> HIDE DEF Emitter
    <3> QED BY <1>1, <1>2, <2>1, <2>2
  <2> QED BY <2>5, <2>6
<1>10. CASE k >= RingCap /\ v = 0
  <2>1. d = Emitter(l + 1, qs)
    <3>1. d = Numbered(em, em.rings, 1)
      <4>1. Len(em.rings[e.pri]) >= RingCap
        BY <1>3, <1>5, <1>8, <1>10
      <4> QED BY <1>4, <1>8, <1>10, <4>1 DEF Enqueue
    <3> QED BY <1>1, <1>8, <3>1 DEF Numbered
  <2>2. d.rings = qs /\ d.localDrops = l + 1
    BY <2>1
  <2>3. d \in EmitterSet /\ d.seq = em.seq + 1 /\ SameButRings(d, em)
    <3> HIDE DEF Emitter
    <3> QED BY <1>1, <1>2, <1>7, <2>1
  <2> QED BY <1>8, <2>2, <2>3
<1>11. CASE k >= RingCap /\ v # 0
  <2> DEFINE us == [qs EXCEPT ![v] = Tail(qs[v])]
             rs == [us EXCEPT ![r] = Append(us[r], e)]
  <2>1. d = Emitter(l + 1, rs)
    <3>1. d = Numbered(em, Into(us, e), 1)
      <4>1. Len(em.rings[e.pri]) >= RingCap
        BY <1>3, <1>5, <1>8, <1>11
      <4>2. [em.rings EXCEPT ![v] = Tail(@)] = us
        BY <1>8
      <4> HIDE DEF us
      <4> QED BY <1>4, <1>8, <1>11, <4>1, <4>2 DEF Enqueue
    <3>2. Into(us, e) = rs
      BY <1>3 DEF Into
    <3> HIDE DEF rs
    <3> QED BY <1>1, <3>1, <3>2 DEF Numbered
  <2>2. qs[v] \in Seq(EventSet) /\ Tail(qs[v]) \in Seq(EventSet) /\ qs[v] # <<>>
    <3>1. qs[v] \in Seq(EventSet) /\ qs[v] # <<>>
      BY <1>1, <1>4, <1>11 DEF QueueSet
    <3> QED BY <3>1, SetOfTail
  <2>3. us \in QueueSet
    BY <1>1, <2>2 DEF QueueSet
  <2>4. \A p \in Priorities : us[p] = IF p = v THEN Tail(qs[p]) ELSE qs[p]
    BY <1>1 DEF QueueSet
  <2> HIDE DEF us
  <2>5. rs \in QueueSet
    <3>1. us[r] \in Seq(EventSet)
      BY <2>3 DEF QueueSet
    <3>2. Append(us[r], e) \in Seq(EventSet)
      BY <3>1, AppendProperties
    <3> QED BY <2>3, <3>2 DEF QueueSet
  <2>6. \A p \in Priorities : rs[p] = IF p = r THEN Append(us[p], e) ELSE us[p]
    BY <2>3 DEF QueueSet
  <2>7. d.rings = rs /\ d.localDrops = l + 1
    BY <2>1
  <2> HIDE DEF rs
  <2>8. RoomMade(us, qs)
    <3>1. v \in {1, 2} /\ qs[v] # <<>> /\ (qs[2] = <<>> => v = 1)
      BY <1>4, <1>6, <1>11
    <3> QED BY <2>4, <3>1 DEF RoomMade
  <2>9. Enqueued(d, em, e)
    BY <1>3, <1>8, <2>3, <2>6, <2>7, <2>8 DEF Enqueued
  <2>10. d \in EmitterSet /\ d.seq = em.seq + 1 /\ SameButRings(d, em)
    <3> HIDE DEF Emitter
    <3> QED BY <1>2, <1>7, <2>1, <2>5
  <2> QED BY <2>9, <2>10
<1> QED BY <1>6, <1>9, <1>10, <1>11

\* Only the snapshots' ring may grow past its cap.
EmitterOK(em) ==
  /\ em \in EmitterSet /\ InPlace(em.rings)
  /\ Len(em.rings[1]) <= RingCap /\ em.rings[2] = <<>>

LEMMA EnqueueKeeps ==
  ASSUME NEW em, EmitterOK(em), NEW e \in EventSet, e.pri \in {0, 1}, NEW d, d = Enqueue(em, e)
  PROVE  EmitterOK(d)
<1>1. /\ em \in EmitterSet /\ d \in EmitterSet
      /\ \/ Enqueued(d, em, e)
         \/ d.rings = em.rings /\ d.localDrops = em.localDrops + 1
  BY EnqueueIs DEF EmitterOK
<1>2. PICK qs \in QueueSet, ds \in QueueSet : qs = em.rings /\ ds = d.rings
  BY <1>1 DEF EmitterSet
<1>3. PICK r \in {0, 1} : r = e.pri
  OBVIOUS
<1>4. InPlace(qs) /\ Len(qs[1]) <= RingCap /\ qs[2] = <<>>
  BY <1>2 DEF EmitterOK
<1>5. RingCap \in Nat
  BY Constants
<1>6. CASE d.rings = em.rings
  BY <1>1, <1>2, <1>4, <1>6 DEF EmitterOK
<1>7. CASE Enqueued(d, em, e)
  <2>1. PICK rs \in QueueSet :
          /\ \/ rs = qs /\ Len(rs[r]) < RingCap
             \/ RoomMade(rs, qs)
          /\ \A p \in Priorities : ds[p] = IF p = r THEN Append(rs[p], e) ELSE rs[p]
    BY <1>2, <1>3, <1>7 DEF Enqueued
  <2>2. /\ rs[1] \in Seq(EventSet) /\ rs[2] \in Seq(EventSet) /\ rs[0] \in Seq(EventSet)
        /\ qs[1] \in Seq(EventSet)
    BY DEF QueueSet, Priorities
  <2>3. /\ InPlace(rs) /\ Len(rs[1]) <= RingCap /\ rs[2] = <<>>
        /\ r = 1 => Len(rs[1]) < RingCap
    <3>1. CASE rs = qs /\ Len(rs[r]) < RingCap
      BY <1>4, <3>1
    <3>2. CASE RoomMade(rs, qs)
      <4>1. PICK v \in {1, 2} : /\ v = 1 /\ qs[1] # <<>>
                                /\ \A p \in Priorities : rs[p] = IF p = v THEN Tail(qs[p]) ELSE qs[p]
        BY <1>4, <3>2 DEF RoomMade
      <4>2. rs[1] = Tail(qs[1]) /\ rs[2] = qs[2] /\ rs[0] = qs[0]
        BY <4>1 DEF Priorities
      <4>3. PICK s \in Seq(EventSet) : s = qs[1] /\ s # <<>>
        BY <2>2, <4>1
      <4>4. Len(Tail(s)) = Len(s) - 1 /\ Len(s) \in Nat /\ ToSet(Tail(s)) \subseteq ToSet(s)
        BY <4>3, SetOfTail
      <4>5. Len(rs[1]) < RingCap
        BY <1>4, <1>5, <4>2, <4>3, <4>4
      <4>6. InPlace(rs)
        BY <1>4, <4>2, <4>3, <4>4 DEF InPlace, Priorities
      <4>7. Len(rs[1]) <= RingCap
        BY <1>5, <2>2, <4>5, LenProperties
      <4> QED BY <1>4, <4>2, <4>5, <4>6, <4>7
    <3> QED BY <2>1, <3>1, <3>2
  <2>4. ds[2] = <<>>
    BY <2>1, <2>3 DEF Priorities
  <2>5. Len(ds[1]) <= RingCap
    <3>1. PICK s \in Seq(EventSet) : s = rs[1]
      BY <2>2
    <3>2. Len(Append(s, e)) = Len(s) + 1 /\ Len(s) \in Nat
      BY AppendProperties, LenProperties
    <3>3. ds[1] = IF 1 = r THEN Append(s, e) ELSE s
      BY <2>1, <3>1 DEF Priorities
    <3>4. CASE r = 1
      <4>1. Len(s) < RingCap /\ ds[1] = Append(s, e)
        BY <2>3, <3>1, <3>3, <3>4
      <4> QED BY <1>5, <3>2, <4>1
    <3>5. CASE r # 1
      BY <2>3, <3>1, <3>3, <3>5
    <3> QED BY <3>4, <3>5
  <2>6. InPlace(ds)
    <3> SUFFICES ASSUME NEW p \in Priorities, NEW x \in ToSet(ds[p]) PROVE x.pri = p
      BY DEF InPlace
    <3>1. PICK s \in Seq(EventSet) : s = rs[p]
      BY DEF QueueSet
    <3>2. ToSet(Append(s, e)) = ToSet(s) \cup {e}
      BY SetOfAppend
    <3>3. p = r => x \in ToSet(s) \/ x = e
      BY <2>1, <3>1, <3>2
    <3>4. p # r => x \in ToSet(s)
      BY <2>1, <3>1
    <3> QED BY <1>3, <2>3, <3>1, <3>3, <3>4 DEF InPlace
  <2> QED BY <1>1, <1>2, <2>4, <2>5, <2>6 DEF EmitterOK
<1> QED BY <1>1, <1>6, <1>7

\* What is left in the queues was in them, and no more of it.
LEMMA LeaveKeeps ==
  ASSUME NEW qs \in QueueSet, NEW n \in Nat, NEW rs, rs = LeaveRest(qs, n)
  PROVE  /\ rs \in QueueSet /\ TakeFirst(qs, n) \in Seq(EventSet)
         /\ \A p \in Priorities : /\ Len(rs[p]) <= Len(qs[p]) /\ Len(rs[p]) \in Nat
                                  /\ ToSet(rs[p]) \subseteq ToSet(qs[p])
         /\ ToSet(InOrder(qs)) = ToSet(TakeFirst(qs, n)) \cup ToSet(InOrder(rs))
         /\ Depth(rs) <= Depth(qs)
         /\ InPlace(qs) => InPlace(rs)
<1>1. PICK ts \in QueueSet :
        /\ TakeFirst(qs, n) = InOrder(ts) /\ rs \in QueueSet
        /\ \A p \in Priorities : ts[p] \o rs[p] = qs[p] /\ Len(ts[p]) + Len(rs[p]) = Len(qs[p])
  <2>1. PICK S : S = EventSet
    OBVIOUS
  <2>2. qs \in [Priorities -> Seq(S)] /\ QueueSet = [Priorities -> Seq(S)]
    BY <2>1 DEF QueueSet
  <2>3. CutInTwo(qs, n, S)
    BY <2>2, TakeAndLeave
  <2> QED BY <2>2, <2>3 DEF CutInTwo
<1>2. TakeFirst(qs, n) \in Seq(EventSet)
  BY <1>1, QueuesInOrder DEF QueueSet
<1>3. ASSUME NEW p \in Priorities
      PROVE  /\ Len(rs[p]) <= Len(qs[p]) /\ Len(rs[p]) \in Nat /\ Len(qs[p]) \in Nat
             /\ ToSet(qs[p]) = ToSet(ts[p]) \cup ToSet(rs[p])
  <2>1. PICK a \in Seq(EventSet), b \in Seq(EventSet) : a = ts[p] /\ b = rs[p]
    BY <1>1 DEF QueueSet
  <2>2. ToSet(a \o b) = ToSet(a) \cup ToSet(b) /\ Len(a) \in Nat /\ Len(b) \in Nat
    BY SetOfConcat, LenProperties
  <2>3. PICK x, y, z : x = Len(a) /\ y = Len(b) /\ z = Len(qs[p]) /\ x \in Nat /\ y \in Nat
    BY <2>2
  <2>4. x + y = z
    BY <1>1, <2>1, <2>3
  <2>5. y <= z /\ y \in Nat /\ z \in Nat
    BY <2>3, <2>4
  <2>6. ToSet(qs[p]) = ToSet(ts[p]) \cup ToSet(rs[p])
    BY <1>1, <2>1, <2>2
  <2> QED BY <2>1, <2>3, <2>5, <2>6
<1>4. 0 \in Priorities /\ 1 \in Priorities /\ 2 \in Priorities
  BY DEF Priorities
<1>5. Depth(rs) <= Depth(qs)
  <2>1. /\ Depth(qs) = Len(qs[0]) + Len(qs[1]) + Len(qs[2])
        /\ Depth(rs) = Len(rs[0]) + Len(rs[1]) + Len(rs[2])
    BY <1>1, QueuesInOrder DEF QueueSet
  <2>2. PICK a, b, c, x, y, z : /\ a = Len(qs[0]) /\ b = Len(qs[1]) /\ c = Len(qs[2])
                                /\ x = Len(rs[0]) /\ y = Len(rs[1]) /\ z = Len(rs[2])
    OBVIOUS
  <2>3. /\ a \in Nat /\ b \in Nat /\ c \in Nat /\ x \in Nat /\ y \in Nat /\ z \in Nat
        /\ x <= a /\ y <= b /\ z <= c
    BY <1>3, <1>4, <2>2
  <2>4. x + y + z <= a + b + c
    BY <2>3
  <2> QED BY <2>1, <2>2, <2>4
<1>6. ToSet(InOrder(qs)) = ToSet(TakeFirst(qs, n)) \cup ToSet(InOrder(rs))
  <2>1. /\ ToSet(InOrder(qs)) = ToSet(qs[0]) \cup ToSet(qs[1]) \cup ToSet(qs[2])
        /\ ToSet(InOrder(ts)) = ToSet(ts[0]) \cup ToSet(ts[1]) \cup ToSet(ts[2])
        /\ ToSet(InOrder(rs)) = ToSet(rs[0]) \cup ToSet(rs[1]) \cup ToSet(rs[2])
    BY <1>1, QueuesInOrder DEF QueueSet
  <2>2. /\ ToSet(qs[0]) = ToSet(ts[0]) \cup ToSet(rs[0])
        /\ ToSet(qs[1]) = ToSet(ts[1]) \cup ToSet(rs[1])
        /\ ToSet(qs[2]) = ToSet(ts[2]) \cup ToSet(rs[2])
    BY <1>3, <1>4
  <2>3. ToSet(TakeFirst(qs, n)) = ToSet(InOrder(ts))
    BY <1>1
  <2> QED BY <2>1, <2>2, <2>3
<1>7. InPlace(qs) => InPlace(rs)
  BY <1>3 DEF InPlace
<1> QED BY <1>1, <1>2, <1>3, <1>5, <1>6, <1>7

\* flush: what was retained goes out with what is kept of the batch.
Flushed(em, kept, d) ==
  LET batch == TakeFirst(em.rings, BatchMax)
  IN /\ em.posting = <<>> /\ kept \in SUBSET ToSet(batch)
     /\ d.seq = em.seq /\ d.count = em.count /\ d.shed = em.shed
     /\ d.rings = LeaveRest(em.rings, BatchMax) /\ d.retained = <<>>
     /\ d.posting = em.retained \o Kept(batch, kept)
     /\ d.post = em.post + IF d.posting = <<>> THEN 0 ELSE 1
     /\ d.localDrops = em.localDrops
     /\ d.shedDrops = em.shedDrops + Len(batch) - Cardinality(kept)

LEMMA FlushIs ==
  ASSUME NEW s \in Services, Flush(s), emitters \in [Services -> EmitterSet],
         EmitterOK(emitters[s])
  PROVE  \E d, kept : /\ emitters' = [emitters EXCEPT ![s] = d]
                      /\ Flushed(emitters[s], kept, d) /\ EmitterOK(d)
<1>1. PICK em \in EmitterSet : em = emitters[s]
  OBVIOUS
<1>2. PICK batch \in Seq(EventSet) : batch = TakeFirst(em.rings, BatchMax)
  BY Constants, LeaveKeeps DEF EmitterSet
<1>3. PICK kept \in ShedChoices(batch, em.shed) :
        LET sent == em.retained \o Kept(batch, kept)
        IN emitters' = [emitters EXCEPT ![s] =
             [em EXCEPT !.rings = LeaveRest(em.rings, BatchMax), !.retained = <<>>,
                        !.posting = sent,
                        !.post = @ + IF sent = <<>> THEN 0 ELSE 1,
                        !.shedDrops = @ + Len(batch) - Cardinality(kept)]]
  BY <1>1, <1>2 DEF Flush
<1>4. em.posting = <<>>
  BY <1>1 DEF Flush
<1>5. kept \in SUBSET ToSet(batch)
  <2>1. em.shed \in 0..3
    BY DEF EmitterSet
  <2>2. em.shed \in {0, 1, 2, 3}
    BY <2>1
  <2> QED BY <1>3, <2>2 DEF ShedChoices
<1>6. PICK sent \in Seq(EventSet) : sent = em.retained \o Kept(batch, kept)
  <2>1. em.retained \in Seq(EventSet) /\ Kept(batch, kept) \in Seq(EventSet)
    BY KeptIs DEF EmitterSet
  <2> QED BY <2>1, ConcatProperties
<1>7. PICK k \in Nat : k = Len(batch) - Cardinality(kept)
  <2>1. /\ IsFiniteSet(ToSet(batch)) /\ Cardinality(ToSet(batch)) <= Len(batch)
        /\ Len(batch) \in Nat
    BY SetOf, LenProperties
  <2>2. IsFiniteSet(kept) /\ Cardinality(kept) <= Cardinality(ToSet(batch))
    BY <1>5, <2>1, FS_Subset
  <2>3. Cardinality(kept) \in Nat /\ Cardinality(ToSet(batch)) \in Nat
    BY <2>1, <2>2, FS_CardinalityType
  <2>4. Len(batch) - Cardinality(kept) \in Nat
    BY <2>1, <2>2, <2>3
  <2> QED BY <2>4
<1>8. PICK rs \in QueueSet : rs = LeaveRest(em.rings, BatchMax)
  BY Constants, LeaveKeeps DEF EmitterSet
<1>9. PICK a, b, qs, re, po, n, sh, l, m :
        /\ em = [seq |-> a, count |-> b, rings |-> qs, retained |-> re, posting |-> po,
                 post |-> n, shed |-> sh, localDrops |-> l, shedDrops |-> m]
        /\ a \in Nat /\ b \in Nat /\ qs \in QueueSet /\ n \in Nat /\ sh \in 0..3
        /\ l \in Nat /\ m \in Nat
  BY DEF EmitterSet
<1>10. PICK x \in Nat : x = n + IF sent = <<>> THEN 0 ELSE 1
  BY <1>9
<1>11. PICK y \in Nat : y = m + k /\ y = m + Len(batch) - Cardinality(kept)
  <2>1. PICK u, v : u = Len(batch) /\ v = Cardinality(kept)
    OBVIOUS
  <2>2. u \in Int /\ v \in Int
    <3>1. IsFiniteSet(ToSet(batch)) /\ Len(batch) \in Nat
      BY SetOf, LenProperties
    <3>2. IsFiniteSet(kept)
      BY <1>5, <3>1, FS_Subset
    <3> QED BY <2>1, <3>1, <3>2, FS_CardinalityType
  <2>3. k = u - v
    BY <1>7, <2>1
  <2>4. m + k = m + u - v /\ m + k \in Nat
    BY <1>9, <2>2, <2>3
  <2> QED BY <2>1, <2>4
<1> DEFINE d == [seq |-> a, count |-> b, rings |-> rs, retained |-> <<>>, posting |-> sent,
                 post |-> x, shed |-> sh, localDrops |-> l, shedDrops |-> y]
<1>12. emitters' = [emitters EXCEPT ![s] = d]
  <2>1. [em EXCEPT !.rings = LeaveRest(em.rings, BatchMax), !.retained = <<>>,
                   !.posting = sent, !.post = @ + IF sent = <<>> THEN 0 ELSE 1,
                   !.shedDrops = @ + Len(batch) - Cardinality(kept)] = d
    <3>1. em.rings = qs /\ em.post = n /\ em.shedDrops = m
      BY <1>9
    <3>2. /\ em.post + (IF sent = <<>> THEN 0 ELSE 1) = x
          /\ em.shedDrops + Len(batch) - Cardinality(kept) = y
      BY <1>10, <1>11, <3>1
    <3>3. [em EXCEPT !.rings = rs, !.retained = <<>>, !.posting = sent, !.post = x,
                     !.shedDrops = y] = d
      <4>1. PICK c : c = [em EXCEPT !.rings = rs, !.retained = <<>>]
        OBVIOUS
      <4>2. c = [seq |-> a, count |-> b, rings |-> rs, retained |-> <<>>, posting |-> po,
                 post |-> n, shed |-> sh, localDrops |-> l, shedDrops |-> m]
        BY <1>9, <4>1
      <4>3. PICK g : g = [c EXCEPT !.posting = sent, !.post = x, !.shedDrops = y]
        OBVIOUS
      <4>4. g = d
        BY <4>2, <4>3
      <4> HIDE DEF d
      <4> QED BY <4>1, <4>3, <4>4
    <3> HIDE DEF d
    <3> QED BY <1>8, <3>2, <3>3, Zenon
  <2> HIDE DEF d
  <2> QED BY <1>3, <1>6, <2>1
<1>13. d \in EmitterSet
  <2>1. <<>> \in Seq(EventSet)
    BY EmptySeq
  <2> QED BY <1>9, <2>1 DEF EmitterSet
<1>14. Flushed(em, kept, d)
  <2>1. /\ d.seq = em.seq /\ d.count = em.count /\ d.shed = em.shed /\ d.rings = rs
        /\ d.retained = <<>> /\ d.posting = sent /\ d.post = em.post + IF sent = <<>> THEN 0 ELSE 1
        /\ d.localDrops = em.localDrops
        /\ d.shedDrops = em.shedDrops + Len(batch) - Cardinality(kept)
    BY <1>9, <1>10, <1>11
  <2> HIDE DEF d
  <2> QED BY <1>2, <1>4, <1>5, <1>6, <1>8, <2>1 DEF Flushed
<1>15. EmitterOK(d)
  <2>1. /\ InPlace(qs) /\ Len(qs[1]) <= RingCap /\ qs[2] = <<>>
    BY <1>1, <1>9 DEF EmitterOK
  <2>2. rs = LeaveRest(qs, BatchMax) /\ 1 \in Priorities /\ 2 \in Priorities
    BY <1>8, <1>9 DEF Priorities
  <2>3. /\ InPlace(rs) /\ \A p \in Priorities : Len(rs[p]) <= Len(qs[p]) /\ Len(rs[p]) \in Nat
    BY <1>9, <2>1, <2>2, Constants, LeaveKeeps
  <2>4. Len(rs[1]) <= RingCap
    <3>1. Len(qs[1]) \in Nat /\ RingCap \in Nat
      BY <1>9, <2>2, QueuesInOrder, Constants DEF QueueSet
    <3>2. Len(rs[1]) <= Len(qs[1]) /\ Len(rs[1]) \in Nat
      BY <2>2, <2>3
    <3> QED BY <2>1, <3>1, <3>2
  <2>5. rs[2] = <<>>
    <3>1. Len(rs[2]) <= 0 /\ Len(rs[2]) \in Nat
      BY <2>1, <2>2, <2>3, EmptySeq
    <3>2. rs[2] \in Seq(EventSet)
      BY <2>2 DEF QueueSet
    <3> QED BY <3>1, <3>2, EmptySeq
  <2>6. d.rings = rs
    OBVIOUS
  <2> HIDE DEF d
  <2> QED BY <1>13, <2>3, <2>4, <2>5, <2>6 DEF EmitterOK
<1> HIDE DEF d
<1> QED BY <1>1, <1>12, <1>14, <1>15

-----------------------------------------------------------------------------
(* Type correctness *)

MsgSet   == [svc : Services, life : Nat, post : Nat, events : Seq(EventSet)]
ReplySet == [svc : Services, life : Nat, post : Nat, level : 0..3]

RunInv ==
  /\ now \in 1..MaxNow /\ resets \in Nat /\ lives \in [Services -> Nat]
  /\ Disturbances <= MaxDisturbances
CollectorInv ==
  /\ IngestOK(Intake) /\ late \in Nat /\ store \in Seq(EventSet)
  /\ lastCounters \in [Services -> Nat] /\ published \in Seq(WindowSet)
  /\ aggregated \in Seq(EventSet)
  /\ maxEventTime \in 0..MaxNow /\ lastClosedId \in 0..MaxNow
  /\ \A e \in ToSet(store) : lastClosedId < e.t /\ e.t <= maxEventTime
EmittersInv ==
  /\ emitters \in [Services -> EmitterSet] /\ events \in [Services -> 0..MaxEvents]
  /\ \A s \in Services : EmitterOK(emitters[s]) /\ emitters[s].seq <= events[s]
NetInv == wire \subseteq MsgSet /\ replies \subseteq ReplySet

TypeInv == RunInv /\ CollectorInv /\ EmittersInv /\ NetInv

\* One emitter changes.
LEMMA EmitterStep ==
  ASSUME EmittersInv, NEW s \in Services, NEW d, emitters' = [emitters EXCEPT ![s] = d],
         EmitterOK(d), events' \in [Services -> 0..MaxEvents], d.seq <= events'[s],
         \A x \in Services : events[x] <= events'[x]
  PROVE  EmittersInv' /\ emitters'[s] = d /\ \A x \in Services : x # s => emitters'[x] = emitters[x]
<1>1. d \in EmitterSet /\ emitters \in [Services -> EmitterSet]
  BY DEF EmitterOK, EmittersInv
<1>2. /\ emitters' \in [Services -> EmitterSet] /\ emitters'[s] = d
      /\ \A x \in Services : x # s => emitters'[x] = emitters[x]
  BY <1>1
<1>3. ASSUME NEW x \in Services
      PROVE  EmitterOK(emitters'[x]) /\ emitters'[x].seq <= events'[x]
  <2>1. CASE x = s
    BY <1>2, <2>1
  <2>2. CASE x # s
    <3>1. EmitterOK(emitters[x]) /\ emitters[x].seq <= events[x] /\ emitters[x].seq \in Nat
      BY DEF EmittersInv, EmitterSet
    <3>2. events[x] \in Nat /\ events'[x] \in Nat /\ events[x] <= events'[x]
      <4>1. events[x] \in 0..MaxEvents /\ events'[x] \in 0..MaxEvents /\ MaxEvents \in Nat
        BY Constants DEF EmittersInv
      <4> QED BY <4>1
    <3>3. PICK a \in Nat, b \in Nat, c \in Nat :
            a = emitters[x].seq /\ b = events[x] /\ c = events'[x] /\ a <= b /\ b <= c
      BY <3>1, <3>2
    <3>4. a <= c
      BY <3>3
    <3> QED BY <1>2, <2>2, <3>1, <3>3, <3>4
  <2> QED BY <2>1, <2>2
<1> QED BY <1>2, <1>3 DEF EmittersInv

\* The event a request or a snapshot enqueues.
LEMMA EventIs ==
  ASSUME NEW s \in Services, NEW em \in EmitterSet, NEW pri \in {0, 1}, NEW t \in 1..MaxNow,
         NEW life \in Nat, em.seq < MaxEvents
  PROVE  /\ Event(s, em, pri, t, life) \in EventSet
         /\ Event(s, em, pri, t, life).pri = pri
         /\ Event(s, em, pri, t, life).svc = s /\ Event(s, em, pri, t, life).seq = em.seq
         /\ Event(s, em, pri, t, life).t = t
         /\ Event(s, em, pri, t, life).count = IF pri = 0 THEN em.count ELSE 0
<1>1. em.seq \in Nat /\ em.count \in Nat /\ pri \in Priorities
  BY DEF EmitterSet, Priorities
<1>2. (IF pri = 0 THEN em.count ELSE 0) \in Nat
  BY <1>1
<1>3. em.seq \in Numbers
  BY <1>1, Constants DEF Numbers
<1> QED BY <1>1, <1>2, <1>3 DEF Event, EventSet

LEMMA CountedIs ==
  ASSUME NEW em, EmitterOK(em), NEW c, c = [em EXCEPT !.count = @ + 1]
  PROVE  /\ EmitterOK(c) /\ c.seq = em.seq /\ c.count = em.count + 1 /\ c.rings = em.rings
         /\ c.retained = em.retained /\ c.posting = em.posting /\ c.post = em.post
         /\ c.shed = em.shed /\ c.localDrops = em.localDrops /\ c.shedDrops = em.shedDrops
<1>1. PICK n : n = em.count + 1
  OBVIOUS
<1>2. em \in EmitterSet /\ n \in Nat
  BY <1>1 DEF EmitterOK, EmitterSet
<1>3. PICK a, b, qs, re, po, k, sh, l, m :
        /\ em = [seq |-> a, count |-> b, rings |-> qs, retained |-> re, posting |-> po,
                 post |-> k, shed |-> sh, localDrops |-> l, shedDrops |-> m]
        /\ a \in Nat /\ b \in Nat /\ qs \in QueueSet /\ re \in Seq(EventSet)
        /\ po \in Seq(EventSet) /\ k \in Nat /\ sh \in 0..3 /\ l \in Nat /\ m \in Nat
  BY <1>2 DEF EmitterSet
<1>4. c = [seq |-> a, count |-> n, rings |-> qs, retained |-> re, posting |-> po,
           post |-> k, shed |-> sh, localDrops |-> l, shedDrops |-> m]
  BY <1>1, <1>3
<1>5. c \in EmitterSet
  BY <1>2, <1>3, <1>4 DEF EmitterSet
<1> QED BY <1>1, <1>3, <1>4, <1>5 DEF EmitterOK

\* What Produce does: the emitter, its counter raised for a request, numbers an event.
Produced(s, c, e, d) ==
  /\ emitters' = [emitters EXCEPT ![s] = d] /\ d = Enqueue(c, e) /\ EmitterOK(c) /\ EmitterOK(d)
  /\ e \in EventSet /\ e.svc = s /\ e.seq = c.seq /\ e.t = now /\ e.pri \in {0, 1}
  /\ c.seq = emitters[s].seq /\ c.rings = emitters[s].rings
  /\ c.retained = emitters[s].retained /\ c.posting = emitters[s].posting
  /\ c.post = emitters[s].post /\ c.shed = emitters[s].shed
  /\ c.localDrops = emitters[s].localDrops /\ c.shedDrops = emitters[s].shedDrops
  /\ \/ e.pri = 1 /\ c.count = emitters[s].count + 1 /\ e.count = 0
     \/ e.pri = 0 /\ c.count = emitters[s].count /\ e.count = c.count

LEMMA ProduceIs ==
  ASSUME TypeInv, NEW s \in Services, Produce(s)
  PROVE  \E c, e, d : Produced(s, c, e, d)
<1>1. PICK em \in EmitterSet : em = emitters[s] /\ EmitterOK(em)
  BY DEF TypeInv, EmittersInv
<1>2. now \in 1..MaxNow /\ lives[s] \in Nat /\ em.seq < MaxEvents
  <2>1. /\ emitters[s].seq <= events[s] /\ events[s] < MaxEvents /\ emitters[s].seq \in Nat
        /\ events[s] \in 0..MaxEvents
    BY DEF Produce, TypeInv, EmittersInv, EmitterSet
  <2>2. em.seq < MaxEvents
    BY <1>1, <2>1, Constants
  <2> QED BY <2>2 DEF TypeInv, RunInv
<1>3. CASE Request(s, now, lives[s])
  <2>1. PICK c : c = [em EXCEPT !.count = @ + 1]
    OBVIOUS
  <2>2. /\ EmitterOK(c) /\ c.seq = em.seq /\ c.count = em.count + 1 /\ c.rings = em.rings
        /\ c.retained = em.retained /\ c.posting = em.posting /\ c.post = em.post
        /\ c.shed = em.shed /\ c.localDrops = em.localDrops /\ c.shedDrops = em.shedDrops
    BY <1>1, <2>1, CountedIs
  <2>3. PICK e : e = Event(s, c, 1, now, lives[s])
    OBVIOUS
  <2>4. c \in EmitterSet
    BY <2>2 DEF EmitterOK
  <2>5. /\ e \in EventSet /\ e.pri = 1 /\ e.svc = s /\ e.seq = c.seq /\ e.t = now /\ e.count = 0
    BY <1>2, <2>2, <2>3, <2>4, EventIs
  <2>6. PICK d : d = Enqueue(c, e)
    OBVIOUS
  <2>7. EmitterOK(d)
    BY <2>2, <2>5, <2>6, EnqueueKeeps
  <2>8. emitters' = [emitters EXCEPT ![s] = d]
    BY <1>1, <1>3, <2>1, <2>3, <2>6 DEF Request
  <2>9. Produced(s, c, e, d)
    BY <1>1, <2>2, <2>5, <2>6, <2>7, <2>8 DEF Produced
  <2> QED BY <2>9
<1>4. CASE Snapshot(s, now, lives[s])
  <2>3. PICK e : e = Event(s, em, 0, now, lives[s])
    OBVIOUS
  <2>5. /\ e \in EventSet /\ e.pri = 0 /\ e.svc = s /\ e.seq = em.seq /\ e.t = now
        /\ e.count = em.count
    BY <1>2, <2>3, EventIs
  <2>6. PICK d : d = Enqueue(em, e)
    OBVIOUS
  <2>7. EmitterOK(d)
    BY <1>1, <2>5, <2>6, EnqueueKeeps
  <2>8. emitters' = [emitters EXCEPT ![s] = d]
    BY <1>1, <1>4, <2>3, <2>6 DEF Snapshot
  <2>9. Produced(s, em, e, d)
    BY <1>1, <2>5, <2>6, <2>7, <2>8 DEF Produced
  <2> QED BY <2>9
<1> QED BY <1>3, <1>4 DEF Produce

LEMMA ProduceTypes ==
  ASSUME TypeInv, NEW s \in Services, Produce(s)
  PROVE  TypeInv'
<1>1. PICK c, e, d : Produced(s, c, e, d)
  BY ProduceIs
<1>2. d.seq = emitters[s].seq + 1
  <2>1. c \in EmitterSet /\ e \in EventSet /\ d = Enqueue(c, e) /\ c.seq = emitters[s].seq
    BY <1>1 DEF Produced, EmitterOK
  <2> QED BY <2>1, EnqueueIs
<1>3. /\ events \in [Services -> 0..MaxEvents] /\ events[s] < MaxEvents
      /\ events' = [events EXCEPT ![s] = @ + 1] /\ MaxEvents \in Nat
  BY Constants DEF Produce, TypeInv, EmittersInv
<1>4. /\ events' \in [Services -> 0..MaxEvents] /\ events'[s] = events[s] + 1
      /\ \A x \in Services : events[x] <= events'[x]
  <2>1. events[s] + 1 \in 0..MaxEvents /\ \A x \in Services : events[x] \in Nat
    BY <1>3
  <2>2. events' \in [Services -> 0..MaxEvents] /\ events'[s] = events[s] + 1
    BY <1>3, <2>1
  <2>3. \A x \in Services : events'[x] = IF x = s THEN events[x] + 1 ELSE events[x]
    BY <1>3
  <2> QED BY <2>1, <2>2, <2>3
<1>5. d.seq <= events'[s]
  <2>1. emitters[s].seq <= events[s] /\ emitters[s].seq \in Nat /\ events[s] \in Nat
    BY <1>3 DEF TypeInv, EmittersInv, EmitterSet
  <2> QED BY <1>2, <1>4, <2>1
<1>6. EmittersInv'
  BY <1>1, <1>4, <1>5, EmitterStep DEF Produced, TypeInv
<1>7. UNCHANGED <<now, collectorVars, wire, replies, lives, posts, resets>>
  BY DEF Produce
<1>8. RunInv' /\ CollectorInv' /\ NetInv'
  BY <1>7 DEF TypeInv, RunInv, CollectorInv, NetInv, Disturbances, collectorVars, Intake
<1> QED BY <1>6, <1>8 DEF TypeInv

LEMMA SendTypes ==
  ASSUME TypeInv, NEW s \in Services, Send(s)
  PROVE  TypeInv'
<1>1. /\ Flush(s) /\ emitters \in [Services -> EmitterSet] /\ EmitterOK(emitters[s])
      /\ events \in [Services -> 0..MaxEvents]
  BY DEF Send, TypeInv, EmittersInv
<1>2. PICK d, kept : /\ emitters' = [emitters EXCEPT ![s] = d]
                     /\ Flushed(emitters[s], kept, d) /\ EmitterOK(d)
  BY <1>1, FlushIs
<1>3. events' = events /\ \A x \in Services : events[x] <= events'[x]
  <2>1. \A x \in Services : events[x] \in 0..MaxEvents
    BY <1>1
  <2> QED BY <2>1, Constants DEF Send
<1>4. d.seq <= events'[s]
  BY <1>2, <1>3 DEF Flushed, TypeInv, EmittersInv
<1>5. EmittersInv' /\ emitters'[s] = d
  BY <1>1, <1>2, <1>3, <1>4, EmitterStep DEF TypeInv
<1>6. wire' \subseteq MsgSet
  <2>1. d.post \in Nat /\ d.posting \in Seq(EventSet) /\ lives[s] \in Nat /\ wire \subseteq MsgSet
    BY <1>2 DEF EmitterOK, EmitterSet, TypeInv, RunInv, NetInv
  <2>2. PICK m : m = [svc |-> s, life |-> lives[s], post |-> d.post, events |-> d.posting]
    OBVIOUS
  <2>3. m \in MsgSet
    BY <2>1, <2>2 DEF MsgSet
  <2>4. wire' = wire \cup IF d.posting = <<>> THEN {} ELSE {m}
    BY <1>5, <2>2 DEF Send
  <2> QED BY <2>1, <2>3, <2>4
<1>7. UNCHANGED <<now, collectorVars, replies, lives, resets>>
  BY DEF Send
<1>8. RunInv' /\ CollectorInv' /\ NetInv'
  BY <1>6, <1>7 DEF TypeInv, RunInv, CollectorInv, NetInv, Disturbances, collectorVars, Intake
<1> QED BY <1>5, <1>8 DEF TypeInv

LEMMA ShedLevelIs ==
  \A qs : ShedLevel(qs) \in 0..3
<1> SUFFICES ASSUME NEW qs PROVE ShedLevel(qs) \in 0..3
  OBVIOUS
<1>1. PICK S : S = {i \in 1..3 : Depth(qs) >= ShedThresholds[i]}
  OBVIOUS
<1>2. S \subseteq 1..3
  BY <1>1
<1>3. PICK n \in Nat : n = 3
  OBVIOUS
<1>4. IsFiniteSet(1..n) /\ Cardinality(1..n) = n
  BY FS_Interval
<1>5. IsFiniteSet(S) /\ Cardinality(S) <= 3
  BY <1>2, <1>3, <1>4, FS_Subset
<1>6. Cardinality(S) \in Nat
  BY <1>5, FS_CardinalityType
<1> QED BY <1>1, <1>5, <1>6 DEF ShedLevel

\* A batch is ingested: the types hold after it.
LEMMA IngestTypes ==
  ASSUME CollectorInv, NEW evs \in Seq(EventSet), Ingest(evs)
  PROVE  CollectorInv' /\ Intake' = Ingested(evs)
<1>1. IngestOK(Intake)
  BY DEF CollectorInv
<1>2. PICK c : c = Ingested(evs)
  OBVIOUS
<1> DEFINE G == [i \in 0..Len(evs) |-> {u \in IngestSet : TRUE}]
<1>3. IngestOK(c)
  <2>1. Len(evs) \in Nat /\ \A i \in 1..Len(evs) : evs[i] \in EventSet
    BY LenProperties
  <2>2. Intake \in G[0]
    BY <1>1, <2>1 DEF IngestOK
  <2>3. \A i \in 1..Len(evs) : \A u :
          IngestOK(u) /\ u \in G[i - 1] => IngestOne(u, evs[i]) \in G[i]
    <3> SUFFICES ASSUME NEW i \in 1..Len(evs), NEW u, IngestOK(u)
                 PROVE  IngestOne(u, evs[i]) \in G[i]
      OBVIOUS
    <3>1. IngestOK(IngestOne(u, evs[i]))
      BY <2>1, IngestOneIs
    <3> QED BY <2>1, <3>1 DEF IngestOK
  <2> HIDE DEF G
  <2> QED BY <1>1, <1>2, <2>2, <2>3, IngestLoop
<1>4. seen' = c.seen /\ queues' = c.queues /\ dropped' = c.dropped
  BY <1>2 DEF Ingest
<1>5. Intake' = c
  <2>1. c \in IngestSet
    BY <1>3 DEF IngestOK
  <2> QED BY <1>4, <2>1 DEF Intake, IngestSet
<1>6. UNCHANGED <<store, maxEventTime, lastClosedId, late, lastCounters, published, aggregated>>
  BY DEF Ingest
<1>7. IngestOK(Intake')
  BY <1>3, <1>5
<1> QED BY <1>2, <1>5, <1>6, <1>7 DEF CollectorInv

LEMMA ReceiveTypes ==
  ASSUME TypeInv, NEW m \in wire, Receive(m)
  PROVE  TypeInv'
<1>1. m \in MsgSet /\ wire \subseteq MsgSet /\ replies \subseteq ReplySet
  BY DEF TypeInv, NetInv
<1>2. m.events \in Seq(EventSet)
  BY <1>1 DEF MsgSet
<1>3. CollectorInv'
  BY <1>2, IngestTypes DEF TypeInv, Receive
<1>4. replies' \subseteq ReplySet
  <2>1. PICK r : r = [svc |-> m.svc, life |-> m.life, post |-> m.post, level |-> ShedLevel(queues')]
    OBVIOUS
  <2>2. r \in ReplySet
    <3>1. ShedLevel(queues') \in 0..3
      BY ShedLevelIs
    <3> QED BY <1>1, <2>1, <3>1 DEF MsgSet, ReplySet
  <2>3. replies' = replies \cup {r}
    BY <2>1 DEF Receive
  <2> QED BY <1>1, <2>2, <2>3
<1>5. wire' \subseteq wire /\ UNCHANGED <<now, emitters, lives, events, resets>>
  BY DEF Receive
<1>6. RunInv' /\ EmittersInv' /\ NetInv'
  BY <1>1, <1>4, <1>5 DEF TypeInv, RunInv, EmittersInv, NetInv, Disturbances
<1> QED BY <1>3, <1>6 DEF TypeInv

\* What an answer, a failure and a restart make of an emitter.
Answered(em, level) == [em EXCEPT !.posting = <<>>, !.shed = level]
Failed(em)          == [em EXCEPT !.posting = <<>>, !.retained = em.posting]

LEMMA AcknowledgedIs ==
  ASSUME NEW em, EmitterOK(em), NEW level \in 0..3, NEW d, d = Answered(em, level)
  PROVE  /\ EmitterOK(d) /\ d.seq = em.seq /\ d.count = em.count /\ d.rings = em.rings
         /\ d.retained = em.retained /\ d.posting = <<>> /\ d.post = em.post
         /\ d.localDrops = em.localDrops /\ d.shedDrops = em.shedDrops
<1>1. PICK a, b, qs, re, po, k, sh, l, m :
        /\ em = [seq |-> a, count |-> b, rings |-> qs, retained |-> re, posting |-> po,
                 post |-> k, shed |-> sh, localDrops |-> l, shedDrops |-> m]
        /\ a \in Nat /\ b \in Nat /\ qs \in QueueSet /\ re \in Seq(EventSet)
        /\ po \in Seq(EventSet) /\ k \in Nat /\ l \in Nat /\ m \in Nat
  BY DEF EmitterOK, EmitterSet
<1> DEFINE c == [seq |-> a, count |-> b, rings |-> qs, retained |-> re, posting |-> <<>>,
           post |-> k, shed |-> level, localDrops |-> l, shedDrops |-> m]
<1>2. d = c
  BY <1>1 DEF Answered
<1>3. c \in EmitterSet
  <2>1. <<>> \in Seq(EventSet)
    BY EmptySeq
  <2> QED BY <1>1, <2>1 DEF EmitterSet
<1>4. d \in EmitterSet
  <2> HIDE DEF c
  <2> QED BY <1>2, <1>3
<1> QED BY <1>1, <1>2, <1>4 DEF EmitterOK

LEMMA FailedIs ==
  ASSUME NEW em, EmitterOK(em), NEW d, d = Failed(em)
  PROVE  /\ EmitterOK(d) /\ d.seq = em.seq /\ d.count = em.count /\ d.rings = em.rings
         /\ d.retained = em.posting /\ d.posting = <<>> /\ d.post = em.post
         /\ d.shed = em.shed /\ d.localDrops = em.localDrops /\ d.shedDrops = em.shedDrops
<1>1. PICK a, b, qs, re, po, k, sh, l, m :
        /\ em = [seq |-> a, count |-> b, rings |-> qs, retained |-> re, posting |-> po,
                 post |-> k, shed |-> sh, localDrops |-> l, shedDrops |-> m]
        /\ a \in Nat /\ b \in Nat /\ qs \in QueueSet /\ re \in Seq(EventSet)
        /\ po \in Seq(EventSet) /\ k \in Nat /\ sh \in 0..3 /\ l \in Nat /\ m \in Nat
  BY DEF EmitterOK, EmitterSet
<1> DEFINE c == [seq |-> a, count |-> b, rings |-> qs, retained |-> po, posting |-> <<>>,
           post |-> k, shed |-> sh, localDrops |-> l, shedDrops |-> m]
<1>2. d = c
  BY <1>1 DEF Failed
<1>3. c \in EmitterSet
  <2>1. <<>> \in Seq(EventSet)
    BY EmptySeq
  <2> QED BY <1>1, <2>1 DEF EmitterSet
<1>4. d \in EmitterSet
  <2> HIDE DEF c
  <2> QED BY <1>2, <1>3
<1> QED BY <1>1, <1>2, <1>4 DEF EmitterOK

LEMMA NewEmitterIs ==
  EmitterOK(NewEmitter) /\ NewEmitter.seq = 0
<1>1. <<>> \in Seq(EventSet) /\ 0 \in Nat /\ 0 \in 0..3 /\ NoEvents \in QueueSet
  BY EmptySeq DEF NoEvents, QueueSet
<1>2. NewEmitter \in EmitterSet
  BY <1>1 DEF NewEmitter, EmitterSet
<1>3. NoEvents[1] = <<>> /\ NoEvents[2] = <<>> /\ \A p \in Priorities : NoEvents[p] = <<>>
  BY DEF NoEvents, Priorities
<1>4. Len(<<>>) = 0 /\ ToSet(<<>>) = {}
  BY DEF ToSet
<1>5. NewEmitter.rings = NoEvents /\ NewEmitter.seq = 0
  BY DEF NewEmitter
<1>6. InPlace(NoEvents)
  BY <1>3, <1>4 DEF InPlace
<1>7. 0 <= RingCap
  BY Constants
<1> QED BY <1>2, <1>3, <1>4, <1>5, <1>6, <1>7 DEF EmitterOK

LEMMA AnswerTypes ==
  ASSUME TypeInv, NEW r \in replies, Answer(r)
  PROVE  TypeInv'
<1>1. r \in ReplySet /\ replies \subseteq ReplySet
  BY DEF TypeInv, NetInv
<1>2. PICK s \in Services : s = r.svc /\ r.level \in 0..3
  BY <1>1 DEF ReplySet
<1>3. UNCHANGED <<now, collectorVars, wire, lives, events, resets>> /\ replies' \subseteq replies
  BY DEF Answer
<1>4. EmittersInv'
  <2>1. CASE Acknowledged(s, r.level)
    <3>1. PICK em : em = emitters[s] /\ EmitterOK(em) /\ em.seq <= events[s]
      BY DEF TypeInv, EmittersInv
    <3>2. PICK d : d = Answered(em, r.level)
      OBVIOUS
    <3>3. EmitterOK(d) /\ d.seq = em.seq
      BY <1>2, <3>1, <3>2, AcknowledgedIs
    <3>4. emitters \in [Services -> EmitterSet] /\ events' \in [Services -> 0..MaxEvents]
      BY <1>3 DEF TypeInv, EmittersInv
    <3>5. emitters' = [emitters EXCEPT ![s] = d]
      BY <2>1, <3>1, <3>2, <3>4 DEF Acknowledged, Answered
    <3>6. d.seq <= events'[s] /\ \A x \in Services : events[x] <= events'[x]
      <4>1. \A x \in Services : events[x] \in 0..MaxEvents
        BY DEF TypeInv, EmittersInv
      <4> QED BY <1>3, <3>1, <3>3, <4>1, Constants
    <3> QED BY <3>3, <3>4, <3>5, <3>6, EmitterStep DEF TypeInv
  <2>2. CASE UNCHANGED emitters
    BY <1>3, <2>2 DEF TypeInv, EmittersInv
  <2> QED BY <1>2, <2>1, <2>2 DEF Answer
<1>5. RunInv' /\ CollectorInv' /\ NetInv'
  BY <1>3 DEF TypeInv, RunInv, CollectorInv, NetInv, Disturbances, collectorVars, Intake
<1> QED BY <1>4, <1>5 DEF TypeInv

LEMMA FailTypes ==
  ASSUME TypeInv, NEW s \in Services, Fail(s)
  PROVE  TypeInv'
<1>1. PICK em : em = emitters[s] /\ EmitterOK(em) /\ em.seq <= events[s]
  BY DEF TypeInv, EmittersInv
<1>2. PICK d : d = Failed(em)
  OBVIOUS
<1>3. EmitterOK(d) /\ d.seq = em.seq
  BY <1>1, <1>2, FailedIs
<1>4. UNCHANGED <<now, collectorVars, replies, lives, events, resets>> /\ wire' \subseteq wire
  BY DEF Fail
<1>5. emitters' = [emitters EXCEPT ![s] = d]
  <2>1. emitters \in [Services -> EmitterSet]
    BY DEF TypeInv, EmittersInv
  <2> QED BY <1>1, <1>2, <2>1 DEF Fail, PostFails, Failed
<1>6. EmittersInv'
  <2>1. \A x \in Services : events[x] \in 0..MaxEvents
    BY DEF TypeInv, EmittersInv
  <2>2. \A x \in Services : events[x] <= events'[x]
    BY <1>4, <2>1, Constants
  <2>3. d.seq <= events'[s] /\ events' \in [Services -> 0..MaxEvents]
    BY <1>1, <1>3, <1>4 DEF TypeInv, EmittersInv
  <2> QED BY <1>3, <1>5, <2>2, <2>3, EmitterStep DEF TypeInv
<1>7. RunInv' /\ CollectorInv' /\ NetInv'
  BY <1>4 DEF TypeInv, RunInv, CollectorInv, NetInv, Disturbances, collectorVars, Intake
<1> QED BY <1>6, <1>7 DEF TypeInv

\* A service that is started again is a disturbance more.
LEMMA LivesStep ==
  ASSUME RunInv, NEW s \in Services, lives' = [lives EXCEPT ![s] = @ + 1]
  PROVE  /\ lives' \in [Services -> Nat] /\ SumFunction(lives') = SumFunction(lives) + 1
         /\ SumFunction(lives) \in Nat /\ lives'[s] = lives[s] + 1
<1>1. lives \in [Services -> Nat] /\ IsFiniteSet(Services)
  BY Constants DEF RunInv
<1>2. PICK f, g : f = lives /\ g = lives' /\ f \in [Services -> Nat]
  BY <1>1
<1>3. g \in [Services -> Nat] /\ g[s] = f[s] + 1 /\ \A x \in Services : x # s => g[x] = f[x]
  BY <1>2
<1>4. f \in [Services -> Int] /\ g \in [Services -> Int]
  BY <1>2, <1>3
<1>5. SumFunction(g) = SumFunction(f) + g[s] - f[s]
  BY <1>1, <1>3, <1>4, SumStep
<1>6. SumFunction(f) \in Nat
  BY <1>1, <1>2, SumOfNats
<1>7. f[s] \in Nat
  BY <1>2
<1>8. SumFunction(g) = SumFunction(f) + 1
  BY <1>3, <1>5, <1>6, <1>7
<1> QED BY <1>2, <1>3, <1>6, <1>8

LEMMA RestartTypes ==
  ASSUME TypeInv, NEW s \in Services, Restart(s)
  PROVE  TypeInv'
<1>1. /\ UNCHANGED <<now, collectorVars, wire, replies, events, posts, resets>>
      /\ Disturbances < MaxDisturbances /\ lives' = [lives EXCEPT ![s] = @ + 1]
  BY DEF Restart
<1>2. RunInv'
  <2>1. /\ lives' \in [Services -> Nat] /\ SumFunction(lives') = SumFunction(lives) + 1
        /\ SumFunction(lives) \in Nat
    BY <1>1, LivesStep DEF TypeInv
  <2>2. PICK a \in Nat, b \in Nat : a = resets /\ b = SumFunction(lives)
    BY <2>1 DEF TypeInv, RunInv
  <2>3. Disturbances = a + b /\ Disturbances' = a + (b + 1)
    BY <1>1, <2>1, <2>2 DEF Disturbances
  <2>4. a + (b + 1) <= MaxDisturbances
    BY <1>1, <2>3, Constants
  <2> QED BY <1>1, <2>1, <2>3, <2>4 DEF TypeInv, RunInv
<1>3. EmittersInv'
  <2>1. \A x \in Services : events[x] \in 0..MaxEvents
    BY DEF TypeInv, EmittersInv
  <2>2. \A x \in Services : events[x] <= events'[x]
    BY <1>1, <2>1, Constants
  <2>3. NewEmitter.seq <= events'[s] /\ events' \in [Services -> 0..MaxEvents]
    BY <1>1, <2>1, NewEmitterIs, Constants DEF TypeInv, EmittersInv
  <2>4. emitters' = [emitters EXCEPT ![s] = NewEmitter]
    BY DEF Restart, ServiceRestart
  <2> QED BY <2>2, <2>3, <2>4, NewEmitterIs, EmitterStep DEF TypeInv
<1>4. CollectorInv' /\ NetInv'
  BY <1>1 DEF TypeInv, CollectorInv, NetInv, collectorVars, Intake
<1> QED BY <1>2, <1>3, <1>4 DEF TypeInv

\* A collector that holds nothing.
LEMMA EmptyCollector ==
  IngestOK([seen |-> <<>>, queues |-> NoEvents, dropped |-> [p \in Priorities |-> 0]])
<1>1. PICK c : c = [seen |-> <<>>, queues |-> NoEvents, dropped |-> [p \in Priorities |-> 0]]
  OBVIOUS
<1>2. <<>> \in Seq(EventSet) /\ <<>> \in Seq(KeySet) /\ Len(<<>>) = 0 /\ ToSet(<<>>) = {}
  BY EmptySeq DEF ToSet
<1>3. NoEvents \in QueueSet /\ \A p \in Priorities : NoEvents[p] = <<>>
  BY <1>2 DEF NoEvents, QueueSet
<1>4. c \in IngestSet
  BY <1>1, <1>2, <1>3 DEF IngestSet
<1>5. IsInjective(<<>>)
  BY DEF IsInjective
<1>6. InPlace(NoEvents)
  BY <1>2, <1>3 DEF InPlace
<1>7. Depth(NoEvents) = 0
  <2>1. Depth(NoEvents) = Len(NoEvents[0]) + Len(NoEvents[1]) + Len(NoEvents[2])
    BY <1>3, QueuesInOrder DEF QueueSet
  <2>2. 0 \in Priorities /\ 1 \in Priorities /\ 2 \in Priorities
    BY DEF Priorities
  <2>3. Len(NoEvents[0]) = 0 /\ Len(NoEvents[1]) = 0 /\ Len(NoEvents[2]) = 0
    BY <1>2, <1>3, <2>2
  <2> QED BY <2>1, <2>3
<1>8. c.seen = <<>> /\ c.queues = NoEvents
  BY <1>1
<1>9. 0 <= QueueMax /\ 0 <= DedupLru
  BY Constants
<1> QED BY <1>1, <1>2, <1>4, <1>5, <1>6, <1>7, <1>8, <1>9 DEF IngestOK

LEMMA ResetTypes ==
  ASSUME TypeInv, Reset
  PROVE  TypeInv'
<1>1. UNCHANGED <<now, emitters, wire, replies, lives, events, posts>>
  BY DEF Reset
<1>2. RunInv'
  <2>1. resets' = resets + 1 /\ Disturbances < MaxDisturbances
    BY DEF Reset
  <2>2. SumFunction(lives) \in Nat
    BY Constants, SumOfNats DEF TypeInv, RunInv
  <2>3. PICK a \in Nat, b \in Nat : a = resets /\ b = SumFunction(lives)
    BY <2>2 DEF TypeInv, RunInv
  <2>4. Disturbances = a + b /\ Disturbances' = (a + 1) + b
    BY <1>1, <2>1, <2>3 DEF Disturbances
  <2>5. (a + 1) + b <= MaxDisturbances
    BY <2>1, <2>4, Constants
  <2> QED BY <1>1, <2>1, <2>3, <2>4, <2>5 DEF TypeInv, RunInv
<1>3. CollectorInv'
  <2>1. /\ seen' = <<>> /\ queues' = NoEvents /\ store' = <<>>
        /\ dropped' = [p \in Priorities |-> 0] /\ late' = 0
        /\ maxEventTime' = 0 /\ lastClosedId' = 0
        /\ lastCounters' = [s \in Services |-> 0] /\ published' = <<>> /\ aggregated' = <<>>
    BY DEF Reset, CollectorReset
  <2>2. IngestOK(Intake')
    BY <2>1, EmptyCollector DEF Intake
  <2>3. <<>> \in Seq(EventSet) /\ <<>> \in Seq(WindowSet) /\ ToSet(<<>>) = {}
    BY EmptySeq DEF ToSet
  <2>4. 0 \in 0..MaxNow /\ 0 \in Nat
    BY Constants
  <2>5. [s \in Services |-> 0] \in [Services -> Nat]
    OBVIOUS
  <2> QED BY <2>1, <2>2, <2>3, <2>4, <2>5 DEF CollectorInv
<1>4. EmittersInv' /\ NetInv'
  BY <1>1 DEF TypeInv, EmittersInv, NetInv
<1> QED BY <1>2, <1>3, <1>4 DEF TypeInv

LEMMA ClockTypes ==
  ASSUME TypeInv, ClockTick
  PROVE  TypeInv'
<1>1. UNCHANGED <<collectorVars, emitters, wire, replies, lives, events, posts, resets>>
  BY DEF ClockTick
<1>2. now' \in 1..MaxNow
  BY Constants DEF ClockTick, TypeInv, RunInv
<1> QED BY <1>1, <1>2 DEF TypeInv, RunInv, CollectorInv, EmittersInv, NetInv, Disturbances,
                         collectorVars, Intake

-----------------------------------------------------------------------------
(* The collector's tick *)

OnTime    == Kept(Drained, {e \in ToSet(Drained) : ~IsLate(e)})
Arrived   == store \o OnTime
Newest    == Max({maxEventTime} \cup {e.t : e \in ToSet(Drained)})
Watermark == Max({Newest, now - Lag}) - Lag
Closing   == Closable(Arrived, Watermark)
Built     == Published(Closing, Arrived, Newest)
PublishStart == [last |-> lastCounters, windows |-> published, events |-> aggregated]

LEMMA TickAssigns ==
  ASSUME CollectorTick
  PROVE  /\ queues' = LeaveRest(queues, DrainMax) /\ maxEventTime' = Newest
         /\ late' = late + Len(Drained) - Len(OnTime)
         /\ store' = Kept(Arrived, {e \in ToSet(Arrived) : e.t \notin Closing})
         /\ lastClosedId' = Max({lastClosedId} \cup Closing)
         /\ lastCounters' = Built.last /\ published' = Built.windows
         /\ aggregated' = Built.events /\ seen' = seen /\ dropped' = dropped
BY DEF CollectorTick, OnTime, Arrived, Newest, Watermark, Closing, Built

\* The largest of a number and the times of some events.
LEMMA NewestIs ==
  ASSUME NEW n \in 0..MaxNow, NEW T, IsFiniteSet(T), T \subseteq 1..MaxNow,
         NEW x, x = Max({n} \cup T)
  PROVE  x \in 0..MaxNow /\ n <= x /\ (\A t \in T : t <= x) /\ (x = n \/ x \in T)
<1>1. MaxNow \in Nat
  BY Constants
<1>2. PICK U : U = {n} \cup T
  OBVIOUS
<1>3. U \in SUBSET Int /\ U # {} /\ U \subseteq 0..MaxNow
  BY <1>1, <1>2
<1>4. IsFiniteSet(U)
  BY <1>2, FS_AddElement
<1>5. Max(U) \in U /\ \A y \in U : y <= Max(U)
  BY <1>3, <1>4, MaxIsGreatest
<1> QED BY <1>2, <1>3, <1>5

LEMMA TickIs ==
  ASSUME TypeInv
  PROVE  /\ Drained \in Seq(EventSet) /\ OnTime \in Seq(EventSet) /\ Arrived \in Seq(EventSet)
         /\ ToSet(OnTime) = {e \in ToSet(Drained) : ~IsLate(e)}
         /\ Len(OnTime) \in Nat /\ Len(Drained) \in Nat /\ Len(OnTime) <= Len(Drained)
         /\ ToSet(Arrived) = ToSet(store) \cup ToSet(OnTime)
         /\ Newest \in 0..MaxNow /\ maxEventTime <= Newest /\ Watermark \in Int
         /\ \A e \in ToSet(Arrived) : lastClosedId < e.t /\ e.t <= Newest
<1>1. queues \in QueueSet /\ store \in Seq(EventSet) /\ maxEventTime \in 0..MaxNow
  BY DEF TypeInv, CollectorInv, IngestOK, Intake, IngestSet
<1>2. PICK dr \in Seq(EventSet) : dr = Drained
  BY <1>1, LeaveKeeps, Constants DEF Drained
<1>3. PICK K : K = {e \in ToSet(dr) : ~IsLate(e)}
  OBVIOUS
<1>4. PICK on : on = Kept(dr, K)
  OBVIOUS
<1>5. /\ on \in Seq(EventSet) /\ ToSet(on) = ToSet(dr) \cap K
      /\ Len(on) \in Nat /\ Len(on) <= Len(dr) /\ Len(dr) \in Nat
  BY <1>4, KeptIs, LenProperties
<1>6. on = OnTime
  BY <1>2, <1>3, <1>4 DEF OnTime
<1>7. store \o on \in Seq(EventSet) /\ ToSet(store \o on) = ToSet(store) \cup ToSet(on)
  BY <1>1, <1>5, SetOfConcat, ConcatProperties
<1>8. ToSet(dr) \in SUBSET EventSet /\ IsFiniteSet(ToSet(dr))
  BY SetOf
<1>9. PICK T : T = {e.t : e \in ToSet(dr)}
  OBVIOUS
<1>10. T \subseteq 1..MaxNow
  BY <1>8, <1>9 DEF EventSet
<1>11. IsFiniteSet(T)
  <2>1. PICK S : S = ToSet(dr)
    OBVIOUS
  <2> DEFINE f == [e \in S |-> e.t]
  <2>2. f \in Surjection(S, T)
    <3>1. f \in [S -> T] /\ \A y \in T : \E e \in S : f[e] = y
      BY <1>9, <2>1
    <3> HIDE DEF f
    <3> QED BY <3>1, Zenon DEF Surjection
  <2>3. IsFiniteSet(S)
    BY <1>8, <2>1
  <2> QED BY <2>2, <2>3, FS_Surjection
<1>12. PICK w : w = Newest
  OBVIOUS
<1>13. w = Max({maxEventTime} \cup T)
  BY <1>2, <1>9, <1>12 DEF Newest
<1>14. w \in 0..MaxNow /\ maxEventTime <= w /\ \A t \in T : t <= w
  BY <1>1, <1>10, <1>11, <1>13, NewestIs
<1>15. Watermark \in Int
  <2>1. PICK u \in Int, l \in Nat : u = now - Lag /\ l = Lag
    <3>1. now \in Int /\ Lag \in Nat
      BY Constants DEF TypeInv, RunInv
    <3> QED BY <3>1
  <2>2. w \in Int
    BY <1>14
  <2>3. Max({w, u}) \in Int
    <3>1. Max({w, u}) = IF w <= u THEN u ELSE w
      BY <2>2, GreaterOf
    <3> QED BY <2>2, <3>1
  <2>4. Watermark = Max({w, u}) - l
    BY <1>12, <2>1, Zenon DEF Watermark
  <2> QED BY <2>1, <2>3, <2>4
<1>16. ASSUME NEW e \in ToSet(store \o on)
       PROVE  lastClosedId < e.t /\ e.t <= w
  <2>1. lastClosedId \in Int /\ maxEventTime \in Int /\ w \in Int
    BY <1>1, <1>14, Constants DEF TypeInv, CollectorInv
  <2>2. CASE e \in ToSet(store)
    <3>1. lastClosedId < e.t /\ e.t <= maxEventTime /\ e \in EventSet
      BY <1>1, <2>2, SetOf DEF TypeInv, CollectorInv
    <3>2. e.t \in Int
      BY <3>1, Constants DEF EventSet
    <3> QED BY <1>14, <2>1, <3>1, <3>2
  <2>3. CASE e \in ToSet(on)
    <3>1. e \in ToSet(dr) /\ ~IsLate(e) /\ e \in EventSet
      BY <1>3, <1>5, <1>8, <2>3
    <3>2. e.t \in Int /\ e.t \in T
      BY <1>9, <3>1, Constants DEF EventSet
    <3> QED BY <1>14, <2>1, <3>1, <3>2 DEF IsLate
  <2> QED BY <1>7, <2>2, <2>3
<1>17. ToSet(on) = {e \in ToSet(dr) : ~IsLate(e)}
  BY <1>3, <1>5
<1>18. Arrived = store \o on
  BY <1>6 DEF Arrived
<1> QED BY <1>2, <1>5, <1>6, <1>7, <1>12, <1>14, <1>15, <1>16, <1>17, <1>18

\* The windows a tick closes, and the mark it leaves.
LEMMA ClosingIs ==
  ASSUME TypeInv, CollectorTick
  PROVE  /\ Closing \subseteq 1..Newest /\ lastClosedId' \in 0..MaxNow
         /\ \A id \in Closing : lastClosedId < id /\ id <= lastClosedId'
         /\ lastClosedId <= lastClosedId'
         /\ \A e \in ToSet(Arrived) : e.t \notin Closing <=> lastClosedId' < e.t
<1>1. PICK ar \in Seq(EventSet), w \in 0..MaxNow, h \in Int :
        /\ ar = Arrived /\ w = Newest /\ h = Watermark
        /\ \A e \in ToSet(ar) : lastClosedId < e.t /\ e.t <= w
  BY TickIs
<1>2. ToSet(ar) \in SUBSET EventSet /\ IsFiniteSet(ToSet(ar))
  BY SetOf
<1>3. PICK C : C = Closing
  OBVIOUS
<1>4. C = {e.t : e \in {x \in ToSet(ar) : x.t + 1 + Lateness <= h}}
  BY <1>1, <1>3 DEF Closing, Closable
<1>5. \A e \in ToSet(ar) : e.t \in 1..MaxNow
  BY <1>2 DEF EventSet
<1>6. MaxNow \in Nat /\ Lateness \in Nat /\ lastClosedId \in 0..MaxNow
  BY Constants DEF TypeInv, CollectorInv
<1>7. \A id \in C : /\ id \in 1..MaxNow /\ id <= w /\ lastClosedId < id
                    /\ id + 1 + Lateness <= h
  BY <1>1, <1>4, <1>5
<1>8. IsFiniteSet(C)
  <2>1. PICK S : S = {x \in ToSet(ar) : x.t + 1 + Lateness <= h}
    OBVIOUS
  <2>2. IsFiniteSet(S)
    BY <1>2, <2>1, FS_Subset
  <2> DEFINE f == [e \in S |-> e.t]
  <2>3. f \in Surjection(S, C)
    <3>1. f \in [S -> C] /\ \A y \in C : \E e \in S : f[e] = y
      BY <1>4, <2>1
    <3> HIDE DEF f
    <3> QED BY <3>1, Zenon DEF Surjection
  <2> QED BY <2>2, <2>3, FS_Surjection
<1>9. PICK l : l = lastClosedId'
  OBVIOUS
<1>10. l = Max({lastClosedId} \cup C)
  BY <1>3, <1>9, TickAssigns
<1>11. l \in 0..MaxNow /\ lastClosedId <= l /\ (\A id \in C : id <= l) /\ (l = lastClosedId \/ l \in C)
  BY <1>6, <1>7, <1>8, <1>10, NewestIs
<1>12. ASSUME NEW e \in ToSet(ar)
       PROVE  e.t \notin C <=> l < e.t
  <2>1. e.t \in Int /\ l \in Int /\ lastClosedId < e.t /\ lastClosedId \in Int
    BY <1>1, <1>5, <1>6, <1>11
  <2>2. e.t \in C => ~(l < e.t)
    BY <1>11, <2>1
  <2>3. ASSUME e.t \notin C PROVE l < e.t
    <3>1. ~(e.t + 1 + Lateness <= h)
      BY <1>4, <2>3
    <3>2. CASE l = lastClosedId
      BY <2>1, <3>2
    <3>3. CASE l \in C
      <4>1. l + 1 + Lateness <= h
        BY <1>7, <3>3
      <4> QED BY <1>6, <2>1, <3>1, <4>1
    <3> QED BY <1>11, <3>2, <3>3
  <2> QED BY <2>2, <2>3
<1>13. C \subseteq 1..w
  BY <1>1, <1>6, <1>7
<1> QED BY <1>1, <1>3, <1>7, <1>9, <1>11, <1>12, <1>13

LEMMA PublishStartIs ==
  ASSUME TypeInv
  PROVE  PublishStart \in BuildSet
BY DEF TypeInv, CollectorInv, BuildSet, PublishStart

LEMMA BuiltTypes ==
  ASSUME TypeInv
  PROVE  Built \in BuildSet
<1>1. PICK evs \in Seq(EventSet), w \in Nat : evs = Arrived /\ w = Newest
  BY TickIs, Constants
<1> DEFINE C == Closing
<1>2. PublishStart \in BuildSet
  BY PublishStartIs
<1> DEFINE G == [i \in 0..w |-> BuildSet]
<1>3. \A i \in 0..w : G[i] = BuildSet
  OBVIOUS
<1>4. PublishStart \in G[0]
  BY <1>2, <1>3
<1>5. \A i \in 1..w : \A u \in BuildSet : u \in G[i - 1] =>
        IF i \in C THEN Build(u, i, evs) \in G[i] ELSE u \in G[i]
  <2> SUFFICES ASSUME NEW i \in 1..w, NEW u \in BuildSet
               PROVE  IF i \in C THEN Build(u, i, evs) \in G[i] ELSE u \in G[i]
    OBVIOUS
  <2>1. i \in 0..w /\ i \in Nat
    OBVIOUS
  <2>2. Build(u, i, evs) \in BuildSet
    BY <2>1, BuildIs
  <2> QED BY <1>3, <2>1, <2>2
<1>6. Published(C, evs, w) \in BuildSet
  <2> HIDE DEF G, C
  <2> QED BY <1>2, <1>4, <1>5, PublishLoop DEF PublishStart
<1> QED BY <1>1, <1>6 DEF Built

LEMMA TickTypes ==
  ASSUME TypeInv, Tick
  PROVE  TypeInv'
<1>1. UNCHANGED <<now, emitters, wire, replies, lives, events, posts, resets>> /\ CollectorTick
  BY DEF Tick
<1>2. IngestOK(Intake')
  <2>1. /\ seen \in Seq(KeySet) /\ queues \in QueueSet /\ dropped \in [Priorities -> Nat]
        /\ IsInjective(seen) /\ Len(seen) <= DedupLru /\ InPlace(queues)
        /\ Depth(queues) <= QueueMax
    BY DEF TypeInv, CollectorInv, IngestOK, Intake, IngestSet
  <2>2. PICK qs : qs = LeaveRest(queues, DrainMax)
    OBVIOUS
  <2>3. qs \in QueueSet /\ Depth(qs) <= Depth(queues) /\ InPlace(qs)
    BY <2>1, <2>2, LeaveKeeps, Constants
  <2>4. Depth(qs) <= QueueMax
    <3>1. Depth(qs) \in Nat /\ Depth(queues) \in Nat /\ QueueMax \in Nat
      BY <2>1, <2>3, QueuesInOrder, Constants DEF QueueSet
    <3> QED BY <2>1, <2>3, <3>1
  <2>5. seen' = seen /\ queues' = qs /\ dropped' = dropped
    BY <1>1, <2>2, TickAssigns
  <2> QED BY <2>1, <2>3, <2>4, <2>5 DEF IngestOK, Intake, IngestSet
<1>3. late' \in Nat
  <2>1. PICK a \in Nat, b \in Nat, c \in Nat :
          a = late /\ b = Len(Drained) /\ c = Len(OnTime) /\ c <= b
    BY TickIs DEF TypeInv, CollectorInv
  <2>2. late' = a + b - c
    BY <1>1, <2>1, TickAssigns
  <2> QED BY <2>1, <2>2
<1>4. PICK ar, C : ar = Arrived /\ C = Closing /\ ar \in Seq(EventSet)
  BY TickIs
<1>5. store' = Kept(ar, {e \in ToSet(ar) : e.t \notin C})
  BY <1>1, <1>4, TickAssigns
<1>6. store' \in Seq(EventSet) /\ ToSet(store') = {e \in ToSet(ar) : e.t \notin C}
  <2>1. PICK K : K = {e \in ToSet(ar) : e.t \notin C}
    OBVIOUS
  <2>2. Kept(ar, K) \in Seq(EventSet) /\ ToSet(Kept(ar, K)) = ToSet(ar) \cap K
    BY <1>4, KeptIs
  <2> QED BY <1>5, <2>1, <2>2
<1>7. maxEventTime' \in 0..MaxNow /\ lastClosedId' \in 0..MaxNow
  BY <1>1, TickAssigns, TickIs, ClosingIs
<1>8. \A e \in ToSet(store') : lastClosedId' < e.t /\ e.t <= maxEventTime'
  BY <1>1, <1>4, <1>6, TickIs, ClosingIs, TickAssigns
<1>9. /\ lastCounters' \in [Services -> Nat] /\ published' \in Seq(WindowSet)
      /\ aggregated' \in Seq(EventSet)
  BY <1>1, TickAssigns, BuiltTypes DEF BuildSet
<1>10. CollectorInv'
  BY <1>2, <1>3, <1>6, <1>7, <1>8, <1>9 DEF CollectorInv
<1>11. RunInv' /\ EmittersInv' /\ NetInv'
  BY <1>1 DEF TypeInv, RunInv, EmittersInv, NetInv, Disturbances
<1> QED BY <1>10, <1>11 DEF TypeInv

LEMMA NoLives ==
  ASSUME lives = [s \in Services |-> 0]
  PROVE  lives \in [Services -> Nat] /\ SumFunction(lives) = 0
<1>1. PICK f \in [Services -> Nat] : f = lives
  OBVIOUS
<1>2. \A s \in Services : f[s] = 0
  BY <1>1
<1> QED BY <1>1, <1>2, Constants, SumOfNats

LEMMA InitTypes ==
  ASSUME Init
  PROVE  TypeInv
<1>1. /\ now = 1 /\ resets = 0 /\ lives = [s \in Services |-> 0] /\ wire = {} /\ replies = {}
      /\ events = lives
  BY DEF Init
<1>2. RunInv
  BY <1>1, NoLives, Constants DEF RunInv, Disturbances
<1>3. CollectorInv
  <2>1. /\ seen = <<>> /\ queues = NoEvents /\ store = <<>>
        /\ dropped = [p \in Priorities |-> 0] /\ late = 0
        /\ maxEventTime = 0 /\ lastClosedId = 0
        /\ lastCounters = [s \in Services |-> 0] /\ published = <<>> /\ aggregated = <<>>
    BY DEF Init, CollectorInit
  <2>2. IngestOK(Intake)
    BY <2>1, EmptyCollector DEF Intake
  <2>3. <<>> \in Seq(EventSet) /\ <<>> \in Seq(WindowSet) /\ ToSet(<<>>) = {}
    BY EmptySeq DEF ToSet
  <2>4. 0 \in 0..MaxNow /\ 0 \in Nat
    BY Constants
  <2>5. [s \in Services |-> 0] \in [Services -> Nat]
    OBVIOUS
  <2> QED BY <2>1, <2>2, <2>3, <2>4, <2>5 DEF CollectorInv
<1>4. EmittersInv
  <2>1. emitters = [s \in Services |-> NewEmitter] /\ NewEmitter \in EmitterSet
    BY NewEmitterIs DEF Init, EmitterInit, EmitterOK
  <2>2. emitters \in [Services -> EmitterSet] /\ \A s \in Services : emitters[s] = NewEmitter
    BY <2>1
  <2>3. events \in [Services -> 0..MaxEvents] /\ \A s \in Services : events[s] = 0
    BY <1>1, Constants
  <2> QED BY <2>2, <2>3, NewEmitterIs DEF EmittersInv
<1>5. NetInv
  BY <1>1 DEF NetInv
<1> QED BY <1>2, <1>3, <1>4, <1>5 DEF TypeInv

LEMMA NextTypes ==
  ASSUME TypeInv, [Next]_vars
  PROVE  TypeInv'
<1>1. ASSUME NEW s \in Services, Produce(s) \/ Send(s) \/ Fail(s) \/ Restart(s)
      PROVE  TypeInv'
  BY <1>1, ProduceTypes, SendTypes, FailTypes, RestartTypes
<1>2. ASSUME NEW m \in wire, Receive(m) PROVE TypeInv'
  BY <1>2, ReceiveTypes
<1>3. ASSUME NEW r \in replies, Answer(r) PROVE TypeInv'
  BY <1>3, AnswerTypes
<1>4. ASSUME ClockTick \/ Tick \/ Reset PROVE TypeInv'
  BY <1>4, ClockTypes, TickTypes, ResetTypes
<1>5. CASE UNCHANGED vars
  BY <1>5 DEF TypeInv, RunInv, CollectorInv, EmittersInv, NetInv, Disturbances, vars,
              collectorVars, Intake
<1> QED BY <1>1, <1>2, <1>3, <1>4, <1>5 DEF Next

LEMMA TypesAlways == Spec => []TypeInv
BY InitTypes, NextTypes, PTL DEF Spec

\* Queues, rings, dedup and clocks keep within their types and bounds, whatever the
\* caps: the admission queues never hold more than their cap, the dedup remembers at
\* most its cap of keys, each once, a window closes only above what is still open,
\* and the samples' ring never outgrows its own (enqueue, admit, filter, tick).
THEOREM TypeCorrect == Spec => []TypeOK
<1>1. TypeInv => TypeOK
  <2> SUFFICES ASSUME TypeInv PROVE TypeOK
    OBVIOUS
  <2>1. RunInv
    BY DEF TypeInv
  <2>2. /\ Depth(queues) <= QueueMax /\ InPlace(queues) /\ Len(seen) <= DedupLru
        /\ IsInjective(seen) /\ dropped \in [Priorities -> Nat] /\ late \in Nat
        /\ maxEventTime \in 0..MaxNow /\ lastClosedId \in 0..MaxNow
        /\ \A e \in ToSet(store) : lastClosedId < e.t /\ e.t <= maxEventTime
    BY DEF TypeInv, CollectorInv, IngestOK, Intake, IngestSet
  <2>3. ASSUME NEW s \in Services
        PROVE  /\ emitters[s].shed \in 0..3 /\ emitters[s].seq \in 0..MaxEvents
               /\ Len(emitters[s].rings[1]) <= RingCap /\ emitters[s].rings[2] = <<>>
               /\ InPlace(emitters[s].rings)
    <3>1. EmitterOK(emitters[s]) /\ emitters[s].seq <= events[s] /\ events[s] \in 0..MaxEvents
      BY DEF TypeInv, EmittersInv
    <3>2. emitters[s].seq \in Nat /\ emitters[s].shed \in 0..3
      BY <3>1 DEF EmitterOK, EmitterSet
    <3>3. emitters[s].seq \in 0..MaxEvents
      BY <3>1, <3>2, Constants
    <3> QED BY <3>1, <3>2, <3>3 DEF EmitterOK
  <2> QED BY <2>1, <2>2, <2>3 DEF TypeOK, RunInv, InPlace
<1> QED BY <1>1, TypesAlways, PTL

-----------------------------------------------------------------------------
(* Admission and snapshots *)

\* A queue full of snapshots, and nothing else.
FullOfSnapshots(qs) == Len(qs[0]) = QueueMax /\ qs[1] = <<>> /\ qs[2] = <<>>

\* A snapshot was dropped since d only if that is what the queues are.
DroppedLast(c, d) ==
  /\ d <= c.dropped[0]
  /\ d < c.dropped[0] => FullOfSnapshots(c.queues)

LEMMA IngestDropsLast ==
  ASSUME NEW c, IngestOK(c), NEW e \in EventSet, NEW d \in Nat, DroppedLast(c, d)
  PROVE  DroppedLast(IngestOne(c, e), d)
<1>1. PICK b : b = IngestOne(c, e)
  OBVIOUS
<1>2. CASE Key(e) \in ToSet(c.seen)
  <2>1. b.queues = c.queues /\ b.dropped = c.dropped
    BY <1>1, <1>2, IngestOneIs
  <2> QED BY <1>1, <2>1 DEF DroppedLast
<1>3. CASE Key(e) \notin ToSet(c.seen)
  <2>1. PICK a : a = AdmitOne(c, e)
    OBVIOUS
  <2>2. b.queues = a.queues /\ b.dropped = a.dropped
    BY <1>1, <1>3, <2>1, IngestOneIs
  <2>3. c \in IngestSet /\ Depth(c.queues) <= QueueMax
    BY DEF IngestOK
  <2>4. TakesRoom(c, a, e) \/ IsRefused(c, a, e) \/ Displaces(c, a, e, Victim(c.queues))
    BY <2>1, <2>3, AdmitCases
  <2>5. PICK qs \in QueueSet, ds \in [Priorities -> Nat] : qs = c.queues /\ ds = c.dropped
    BY <2>3 DEF IngestSet
  <2>6. /\ 0 \in Priorities /\ 1 \in Priorities /\ 2 \in Priorities
        /\ \A p \in Priorities : p \in {0, 1, 2}
    BY DEF Priorities
  <2>7. /\ Depth(qs) = Len(qs[0]) + Len(qs[1]) + Len(qs[2])
        /\ Len(qs[0]) \in Nat /\ Len(qs[1]) \in Nat /\ Len(qs[2]) \in Nat
    BY <2>6, QueuesInOrder DEF QueueSet
  <2>8. PICK k \in Nat, l \in Nat, m \in Nat : k = Len(qs[0]) /\ l = Len(qs[1]) /\ m = Len(qs[2])
    BY <2>7
  <2>9. QueueMax \in Nat /\ ds[0] \in Nat
    BY <2>6, Constants
  <2>10. k + l + m <= QueueMax
    BY <2>3, <2>5, <2>7, <2>8
  <2>11. (qs[1] = <<>> => l = 0) /\ (qs[2] = <<>> => m = 0)
    BY <2>8
  <2>12. ASSUME FullOfSnapshots(qs) PROVE ~(k + l + m < QueueMax)
    BY <2>8, <2>9, <2>11, <2>12 DEF FullOfSnapshots
  <2>13. CASE TakesRoom(c, a, e)
    <3>1. k + l + m < QueueMax /\ a.dropped = ds
      BY <2>5, <2>7, <2>8, <2>13 DEF TakesRoom
    <3>2. d = ds[0]
      <4>1. d <= ds[0] /\ ~(d < ds[0])
        BY <2>5, <2>12, <3>1 DEF DroppedLast
      <4> QED BY <2>9, <4>1
    <3> QED BY <1>1, <2>2, <2>9, <3>1, <3>2 DEF DroppedLast
  <2>14. CASE IsRefused(c, a, e)
    <3>1. /\ k + l + m >= QueueMax /\ Victim(qs) <= e.pri /\ a.queues = qs
          /\ a.dropped[0] = ds[0] + IF 0 = e.pri THEN 1 ELSE 0
      BY <2>5, <2>6, <2>7, <2>8, <2>14 DEF IsRefused
    <3>2. CASE e.pri = 0
      <4>1. \A p \in {1, 2} : qs[p] # <<>> => p <= 0
        BY <3>1, <3>2, VictimIs DEF QueueSet, Priorities
      <4>2. qs[1] = <<>> /\ qs[2] = <<>>
        BY <4>1
      <4>3. FullOfSnapshots(qs)
        BY <2>8, <2>9, <2>10, <2>11, <3>1, <4>2 DEF FullOfSnapshots
      <4>4. d <= ds[0] + 1
        BY <2>5, <2>9 DEF DroppedLast
      <4> QED BY <1>1, <2>2, <3>1, <3>2, <4>3, <4>4 DEF DroppedLast
    <3>3. CASE e.pri # 0
      <4>1. a.dropped[0] = ds[0]
        BY <2>9, <3>1, <3>3
      <4> QED BY <1>1, <2>2, <2>5, <3>1, <4>1 DEF DroppedLast
    <3> QED BY <3>2, <3>3
  <2>15. CASE Displaces(c, a, e, Victim(c.queues))
    <3>1. PICK v \in Priorities :
            /\ v > e.pri /\ qs[v] # <<>> /\ a.dropped[0] = ds[0] + IF 0 = v THEN 1 ELSE 0
      BY <2>5, <2>6, <2>15 DEF Displaces
    <3>2. v \in {1, 2}
      <4>1. e.pri \in 0..2 /\ v \in 0..2
        BY DEF EventSet, Priorities
      <4> QED BY <3>1, <4>1
    <3>3. a.dropped[0] = ds[0]
      BY <2>9, <3>1, <3>2
    <3>4. d = ds[0]
      <4>1. d <= ds[0] /\ ~(d < ds[0])
        BY <2>5, <3>1, <3>2 DEF DroppedLast, FullOfSnapshots
      <4> QED BY <2>9, <4>1
    <3> QED BY <1>1, <2>2, <2>9, <3>3, <3>4 DEF DroppedLast
  <2> QED BY <2>4, <2>13, <2>14, <2>15
<1> QED BY <1>2, <1>3

\* A snapshot is dropped only by a queue that holds nothing but snapshots, and as many
\* as the queues may hold: whatever else was there went first (admit).
THEOREM SnapshotsGoLastAlways == Spec => SnapshotsGoLast
<1>1. TypeInv /\ [Next]_vars => [dropped'[0] > dropped[0] => Len(queues'[0]) = QueueMax]_vars
  <2> DEFINE Later == dropped'[0] > dropped[0] => Len(queues'[0]) = QueueMax
  <2> SUFFICES ASSUME TypeInv, Next PROVE Later
    OBVIOUS
  <2>1. dropped[0] \in Nat
    BY DEF TypeInv, CollectorInv, IngestOK, Intake, IngestSet, Priorities
  <2>2. CASE UNCHANGED dropped
    BY <2>1, <2>2
  <2>3. CASE Reset
    BY <2>1, <2>3 DEF Reset, CollectorReset, Priorities
  <2>4. ASSUME NEW m \in wire, Receive(m) PROVE Later
    <3>1. PICK evs \in Seq(EventSet) : evs = m.events
      BY DEF TypeInv, NetInv, MsgSet
    <3>2. IngestOK(Intake) /\ Ingest(evs)
      BY <2>4, <3>1 DEF Receive, TypeInv, CollectorInv
    <3>3. PICK n \in Nat, d \in Nat : n = Len(evs) /\ d = dropped[0]
      BY <2>1, LenProperties
    <3> DEFINE G == [i \in 0..n |-> {c \in IngestSet : DroppedLast(c, d)}]
    <3>4. Intake \in G[0]
      BY <3>2, <3>3 DEF DroppedLast, Intake, IngestOK
    <3>5. \A i \in 1..n : \A u : IngestOK(u) /\ u \in G[i - 1] => IngestOne(u, evs[i]) \in G[i]
      <4> SUFFICES ASSUME NEW i \in 1..n, NEW u, IngestOK(u), u \in G[i - 1]
                   PROVE  IngestOne(u, evs[i]) \in G[i]
        OBVIOUS
      <4>1. i \in 0..n /\ i - 1 \in 0..n
        OBVIOUS
      <4>2. DroppedLast(u, d)
        BY <4>1
      <4>3. evs[i] \in EventSet
        BY <3>3, LenProperties
      <4>4. IngestOne(u, evs[i]) \in IngestSet
        BY <4>3, IngestOneIs DEF IngestOK
      <4>5. DroppedLast(IngestOne(u, evs[i]), d)
        BY <4>2, <4>3, IngestDropsLast
      <4> QED BY <4>1, <4>4, <4>5
    <3> HIDE DEF G
    <3>6. Ingested(evs) \in G[n]
      BY <3>2, <3>3, <3>4, <3>5, IngestLoop
    <3>7. DroppedLast(Ingested(evs), d)
      BY <3>6 DEF G
    <3> QED BY <3>2, <3>3, <3>7 DEF DroppedLast, FullOfSnapshots, Ingest
  <2>5. Next => UNCHANGED dropped \/ Reset \/ \E m \in wire : Receive(m)
    BY TickAssigns DEF Next, Produce, Send, Fail, Restart, Answer, ClockTick, Tick, collectorVars
  <2> QED BY <2>2, <2>3, <2>4, <2>5
<1> QED BY <1>1, TypesAlways, PTL DEF Spec, SnapshotsGoLast

-----------------------------------------------------------------------------
(* Keys: what the dedup tells events apart by *)

Keys(T) == {Key(e) : e \in T}

\* No key is in two places of s.
Distinct(s) == \A i, j \in 1..Len(s) : Key(s[i]) = Key(s[j]) => i = j

LEMMA DistinctIs ==
  ASSUME NEW S, NEW s \in Seq(S), Distinct(s)
  PROVE  IsInjective(s) /\ \A a, b \in ToSet(s) : Key(a) = Key(b) => a = b
<1>1. DOMAIN s = 1..Len(s) /\ ToSet(s) = {s[i] : i \in 1..Len(s)}
  BY SetOf, LenProperties
<1>2. IsInjective(s)
  BY <1>1 DEF Distinct, IsInjective
<1>3. ASSUME NEW a \in ToSet(s), NEW b \in ToSet(s), Key(a) = Key(b)
      PROVE  a = b
  <2>1. PICK i \in 1..Len(s), j \in 1..Len(s) : a = s[i] /\ b = s[j]
    BY <1>1
  <2>2. i = j
    BY <1>3, <2>1 DEF Distinct
  <2> QED BY <2>1, <2>2
<1> QED BY <1>2, <1>3

LEMMA KeysOfUnion ==
  ASSUME NEW A, NEW B
  PROVE  Keys(A \cup B) = Keys(A) \cup Keys(B)
BY DEF Keys

\* u has the m elements of s, then the n elements of t.
Joined(u, s, t, m, n) ==
  /\ Len(u) = m + n
  /\ \A i \in 1..m : i \in 1..m + n /\ u[i] = s[i]
  /\ \A i \in 1..n : m + i \in 1..m + n /\ u[m + i] = t[i]
  /\ \A i \in 1..m + n : i \in 1..m \/ \E j \in 1..n : i = m + j

LEMMA ConcatPlaces ==
  ASSUME NEW S, NEW s \in Seq(S), NEW t \in Seq(S), NEW u, u = s \o t,
         NEW m \in Nat, NEW n \in Nat, m = Len(s), n = Len(t)
  PROVE  Joined(u, s, t, m, n)
<1>1. /\ Len(u) = m + n
      /\ \A i \in 1..m + n : u[i] = IF i <= m THEN s[i] ELSE t[i - m]
  BY ConcatProperties
<1>2. ASSUME NEW i \in 1..m
      PROVE  i \in 1..m + n /\ i <= m
  OBVIOUS
<1>3. ASSUME NEW i \in 1..n
      PROVE  m + i \in 1..m + n /\ ~(m + i <= m) /\ (m + i) - m = i
  OBVIOUS
<1>4. ASSUME NEW i \in 1..n
      PROVE  m + i \in 1..m + n /\ u[m + i] = t[i]
  <2>1. PICK j : j = m + i
    OBVIOUS
  <2>2. j \in 1..m + n /\ ~(j <= m) /\ j - m = i
    BY <1>3, <2>1
  <2>3. u[j] = t[j - m]
    BY <1>1, <2>2
  <2> QED BY <2>1, <2>2, <2>3
<1>5. ASSUME NEW i \in 1..m + n
      PROVE  i \in 1..m \/ \E j \in 1..n : i = m + j
  <2>1. CASE i <= m
    BY <2>1
  <2>2. CASE ~(i <= m)
    <3>1. i - m \in 1..n /\ i = m + (i - m)
      BY <2>2
    <3> QED BY <3>1
  <2> QED BY <2>1, <2>2
<1>6. \A i \in 1..m : u[i] = s[i]
  BY <1>1, <1>2
<1> QED BY <1>1, <1>2, <1>4, <1>5, <1>6 DEF Joined

LEMMA DistinctConcat ==
  ASSUME NEW S, NEW s \in Seq(S), NEW t \in Seq(S)
  PROVE  Distinct(s \o t) <=>
           Distinct(s) /\ Distinct(t) /\ Keys(ToSet(s)) \cap Keys(ToSet(t)) = {}
<1>1. PICK u : u = s \o t
  OBVIOUS
<1>10. PICK m \in Nat, n \in Nat : m = Len(s) /\ n = Len(t)
  BY LenProperties
<1>11. /\ Len(u) = m + n
       /\ \A i \in 1..m : i \in 1..m + n /\ u[i] = s[i]
       /\ \A i \in 1..n : m + i \in 1..m + n /\ u[m + i] = t[i]
       /\ \A i \in 1..m + n : i \in 1..m \/ \E j \in 1..n : i = m + j
  <2>1. Joined(u, s, t, m, n)
    BY <1>1, <1>10, ConcatPlaces
  <2> QED BY <2>1 DEF Joined
<1>2. /\ Len(u) = m + n
      /\ \A i \in 1..m : u[i] = s[i]
      /\ \A i \in 1..n : u[m + i] = t[i]
  BY <1>11
<1>3. ToSet(s) = {s[i] : i \in 1..m} /\ ToSet(t) = {t[i] : i \in 1..n}
  BY <1>1, <1>10, SetOf
<1>4. /\ \A i \in 1..m : i \in 1..m + n
      /\ \A i \in 1..n : m + i \in 1..m + n
      /\ \A i \in 1..m + n : i \in 1..m \/ \E j \in 1..n : i = m + j
  BY <1>11
<1>5. ASSUME Distinct(u)
      PROVE  Distinct(s) /\ Distinct(t) /\ Keys(ToSet(s)) \cap Keys(ToSet(t)) = {}
  <2>1. \A i, j \in 1..m + n : Key(u[i]) = Key(u[j]) => i = j
    BY <1>2, <1>5 DEF Distinct
  <2>2. \A i, j \in 1..m : Key(s[i]) = Key(s[j]) => i = j
    BY <1>2, <1>4, <2>1
  <2>3. ASSUME NEW i \in 1..n, NEW j \in 1..n, Key(t[i]) = Key(t[j])
        PROVE  i = j
    <3>1. m + i = m + j
      BY <1>2, <1>4, <2>1, <2>3
    <3> QED BY <3>1
  <2>4. ASSUME NEW i \in 1..m, NEW j \in 1..n
        PROVE  Key(s[i]) # Key(t[j])
    <3>1. i # m + j
      OBVIOUS
    <3> QED BY <1>2, <1>4, <2>1, <3>1
  <2>5. Keys(ToSet(s)) \cap Keys(ToSet(t)) = {}
    BY <1>3, <2>4 DEF Keys
  <2> QED BY <1>1, <1>10, <2>2, <2>3, <2>5 DEF Distinct
<1>6. ASSUME Distinct(s), Distinct(t), Keys(ToSet(s)) \cap Keys(ToSet(t)) = {}
      PROVE  Distinct(u)
  <2>1. /\ \A i, j \in 1..m : Key(s[i]) = Key(s[j]) => i = j
        /\ \A i, j \in 1..n : Key(t[i]) = Key(t[j]) => i = j
    BY <1>1, <1>10, <1>6 DEF Distinct
  <2>2. \A i \in 1..m : \A j \in 1..n : Key(s[i]) # Key(t[j])
    BY <1>3, <1>6 DEF Keys
  <2>3. ASSUME NEW i \in 1..m + n, NEW j \in 1..m + n, Key(u[i]) = Key(u[j])
        PROVE  i = j
    <3>1. CASE i \in 1..m /\ j \in 1..m
      BY <1>2, <2>1, <2>3, <3>1
    <3>2. CASE i \in 1..m /\ \E k \in 1..n : j = m + k
      BY <1>2, <2>2, <2>3, <3>2
    <3>3. CASE j \in 1..m /\ \E k \in 1..n : i = m + k
      BY <1>2, <2>2, <2>3, <3>3
    <3>4. CASE (\E k \in 1..n : i = m + k) /\ \E k \in 1..n : j = m + k
      <4>1. PICK k \in 1..n, l \in 1..n : i = m + k /\ j = m + l
        BY <3>4
      <4>2. k = l
        BY <1>2, <2>1, <2>3, <4>1
      <4> QED BY <4>1, <4>2
    <3> QED BY <1>4, <3>1, <3>2, <3>3, <3>4
  <2> QED BY <1>2, <2>3 DEF Distinct
<1> QED BY <1>1, <1>10, <1>5, <1>6

LEMMA DistinctAppend ==
  ASSUME NEW S, NEW s \in Seq(S), NEW e \in S, Distinct(s), Key(e) \notin Keys(ToSet(s))
  PROVE  Distinct(Append(s, e))
<1>1. PICK u : u = Append(s, e)
  OBVIOUS
<1>7. PICK n \in Nat : n = Len(s)
  BY LenProperties
<1>2. Len(u) = n + 1 /\ u[n + 1] = e /\ \A i \in 1..n : u[i] = s[i]
  BY <1>1, <1>7, AppendProperties
<1>3. \A i \in 1..n : Key(s[i]) # Key(e)
  BY <1>1, <1>7, SetOf DEF Keys
<1>4. \A i \in 1..n + 1 : i \in 1..n \/ i = n + 1
  OBVIOUS
<1>5. \A i, j \in 1..n : Key(s[i]) = Key(s[j]) => i = j
  BY <1>1, <1>7 DEF Distinct
<1>6. \A i, j \in 1..n + 1 : Key(u[i]) = Key(u[j]) => i = j
  BY <1>2, <1>3, <1>4, <1>5
<1> QED BY <1>1, <1>7, <1>2, <1>6 DEF Distinct

LEMMA DistinctTail ==
  ASSUME NEW S, NEW s \in Seq(S), s # <<>>, Distinct(s)
  PROVE  Distinct(Tail(s))
<1>1. PICK u : u = Tail(s)
  OBVIOUS
<1>4. PICK n \in Nat : n + 1 = Len(s)
  BY EmptySeq
<1>2. Len(u) = n /\ \A i \in 1..n : u[i] = s[i + 1]
  BY <1>1, <1>4, SetOfTail
<1>3. ASSUME NEW i \in 1..n, NEW j \in 1..n, Key(u[i]) = Key(u[j])
      PROVE  i = j
  <2>1. i + 1 \in 1..n + 1 /\ j + 1 \in 1..n + 1
    OBVIOUS
  <2>2. i + 1 = j + 1
    BY <1>1, <1>4, <1>2, <1>3, <2>1 DEF Distinct
  <2> QED BY <2>2
<1> QED BY <1>1, <1>4, <1>2, <1>3 DEF Distinct

LEMMA DistinctKept ==
  ASSUME NEW S, NEW s \in Seq(S), NEW K, Distinct(s)
  PROVE  Distinct(Kept(s, K))
<1>1. PICK k : k = Kept(s, K)
  OBVIOUS
<1>2. k \in Seq(S) /\ Selects(k, s, Len(s), K)
  BY <1>1, KeptSelects
<1>3. PICK n \in Nat, l \in Nat : n = Len(s) /\ l = Len(k)
  BY <1>2, LenProperties
<1>4. Places(k, l, s, n, K)
  BY <1>2, <1>3 DEF Selects
<1>5. PICK m \in [1..l -> 1..n] :
        /\ \A i \in 1..l : k[i] = s[m[i]] /\ s[m[i]] \in K
        /\ \A i, j \in 1..l : i < j => m[i] < m[j]
        /\ \A j \in 1..n : s[j] \in K => \E i \in 1..l : m[i] = j
  BY <1>4 DEF Places
<1>6. ASSUME NEW i \in 1..l, NEW j \in 1..l, Key(k[i]) = Key(k[j])
      PROVE  i = j
  <2>1. m[i] \in 1..n /\ m[j] \in 1..n
    BY <1>5
  <2>2. m[i] = m[j]
    BY <1>3, <1>5, <1>6, <2>1 DEF Distinct
  <2>3. ~(m[i] < m[j]) /\ ~(m[j] < m[i])
    BY <2>1, <2>2
  <2>4. ~(i < j) /\ ~(j < i)
    BY <1>5, <2>3
  <2> QED BY <2>4
<1> QED BY <1>1, <1>3, <1>6 DEF Distinct

\* No key is in two places of the queues.
Apart(qs) ==
  /\ \A p \in Priorities : Distinct(qs[p])
  /\ \A p, r \in Priorities : p # r => Keys(ToSet(qs[p])) \cap Keys(ToSet(qs[r])) = {}

QueueKeys(qs) == Keys(ToSet(InOrder(qs)))

LEMMA ApartIs ==
  ASSUME NEW S, NEW qs \in [Priorities -> Seq(S)]
  PROVE  /\ Apart(qs) <=> Distinct(InOrder(qs))
         /\ QueueKeys(qs) = UNION {Keys(ToSet(qs[p])) : p \in Priorities}
<1>1. PICK a \in Seq(S), b \in Seq(S), c \in Seq(S) : a = qs[0] /\ b = qs[1] /\ c = qs[2]
  BY DEF Priorities
<1>2. PICK ab \in Seq(S) : ab = a \o b
  BY ConcatProperties
<1>3. InOrder(qs) = ab \o c
  BY <1>1, <1>2 DEF InOrder
<1>4. Distinct(ab \o c) <=> Distinct(ab) /\ Distinct(c) /\ Keys(ToSet(ab)) \cap Keys(ToSet(c)) = {}
  BY DistinctConcat
<1>5. Distinct(ab) <=> Distinct(a) /\ Distinct(b) /\ Keys(ToSet(a)) \cap Keys(ToSet(b)) = {}
  BY <1>2, DistinctConcat
<1>6. Keys(ToSet(ab)) = Keys(ToSet(a)) \cup Keys(ToSet(b))
  <2>1. ToSet(ab) = ToSet(a) \cup ToSet(b)
    BY <1>2, SetOfConcat
  <2> QED BY <2>1, KeysOfUnion
<1>7. Apart(qs) <=>
        /\ Distinct(a) /\ Distinct(b) /\ Distinct(c)
        /\ Keys(ToSet(a)) \cap Keys(ToSet(b)) = {} /\ Keys(ToSet(a)) \cap Keys(ToSet(c)) = {}
        /\ Keys(ToSet(b)) \cap Keys(ToSet(c)) = {}
  <2>1. Priorities = {0, 1, 2}
    BY DEF Priorities
  <2>2. \A p \in {0, 1, 2} : p = 0 \/ p = 1 \/ p = 2
    OBVIOUS
  <2> QED BY <1>1, <2>1, <2>2 DEF Apart
<1>8. Keys(ToSet(ab \o c)) = Keys(ToSet(a)) \cup Keys(ToSet(b)) \cup Keys(ToSet(c))
  <2>1. ToSet(ab \o c) = ToSet(ab) \cup ToSet(c)
    BY SetOfConcat
  <2> QED BY <1>6, <2>1, KeysOfUnion
<1>9. UNION {Keys(ToSet(qs[p])) : p \in Priorities} =
        Keys(ToSet(a)) \cup Keys(ToSet(b)) \cup Keys(ToSet(c))
  <2>1. Priorities = {0, 1, 2}
    BY DEF Priorities
  <2>2. \A x : (x \in UNION {Keys(ToSet(qs[p])) : p \in Priorities}) <=>
                \E p \in {0, 1, 2} : x \in Keys(ToSet(qs[p]))
    BY <2>1
  <2> QED BY <1>1, <2>2
<1> QED BY <1>3, <1>4, <1>5, <1>6, <1>7, <1>8, <1>9 DEF QueueKeys

LEMMA AppendApart ==
  ASSUME NEW qs \in QueueSet, NEW us \in QueueSet, NEW r \in Priorities, NEW e \in EventSet,
         \A p \in Priorities : us[p] = IF p = r THEN Append(qs[p], e) ELSE qs[p]
  PROVE  /\ QueueKeys(us) = QueueKeys(qs) \cup {Key(e)}
         /\ Apart(qs) /\ Key(e) \notin QueueKeys(qs) => Apart(us)
<1>1. \A p \in Priorities : qs[p] \in Seq(EventSet) /\ us[p] \in Seq(EventSet)
  BY DEF QueueSet
<1>2. /\ QueueKeys(qs) = UNION {Keys(ToSet(qs[p])) : p \in Priorities}
      /\ QueueKeys(us) = UNION {Keys(ToSet(us[p])) : p \in Priorities}
  BY ApartIs DEF QueueSet
<1>3. Keys(ToSet(us[r])) = Keys(ToSet(qs[r])) \cup {Key(e)}
  <2>1. us[r] = Append(qs[r], e)
    OBVIOUS
  <2>2. ToSet(us[r]) = ToSet(qs[r]) \cup {e}
    BY <1>1, <2>1, SetOfAppend
  <2>3. Keys({e}) = {Key(e)}
    BY DEF Keys
  <2> QED BY <2>2, <2>3, KeysOfUnion
<1>4. \A p \in Priorities : p # r => us[p] = qs[p]
  OBVIOUS
<1>5. QueueKeys(us) = QueueKeys(qs) \cup {Key(e)}
  <2>1. ASSUME NEW x \in QueueKeys(us)
        PROVE  x \in QueueKeys(qs) \cup {Key(e)}
    <3>1. PICK p \in Priorities : x \in Keys(ToSet(us[p]))
      BY <1>2
    <3> QED BY <1>2, <1>3, <1>4, <3>1
  <2>2. ASSUME NEW x \in QueueKeys(qs)
        PROVE  x \in QueueKeys(us)
    <3>1. PICK p \in Priorities : x \in Keys(ToSet(qs[p]))
      BY <1>2
    <3>2. x \in Keys(ToSet(us[p]))
      BY <1>3, <1>4, <3>1
    <3> QED BY <1>2, <3>2
  <2>3. Key(e) \in QueueKeys(us)
    BY <1>2, <1>3
  <2> QED BY <2>1, <2>2, <2>3
<1>6. ASSUME Apart(qs), Key(e) \notin QueueKeys(qs)
      PROVE  Apart(us)
  <2>1. \A p \in Priorities : Key(e) \notin Keys(ToSet(qs[p]))
    BY <1>2, <1>6
  <2>2. ASSUME NEW p \in Priorities
        PROVE  Distinct(us[p])
    <3>1. Distinct(qs[p])
      BY <1>6 DEF Apart
    <3>2. CASE p = r
      <4>1. us[p] = Append(qs[p], e)
        BY <3>2
      <4> QED BY <1>1, <2>1, <3>1, <4>1, DistinctAppend
    <3> QED BY <1>4, <3>1, <3>2
  <2>3. ASSUME NEW p \in Priorities, NEW q \in Priorities, p # q
        PROVE  Keys(ToSet(us[p])) \cap Keys(ToSet(us[q])) = {}
    <3>1. Keys(ToSet(qs[p])) \cap Keys(ToSet(qs[q])) = {}
      BY <1>6, <2>3 DEF Apart
    <3> QED BY <1>3, <1>4, <2>1, <2>3, <3>1
  <2> QED BY <2>2, <2>3 DEF Apart
<1> QED BY <1>5, <1>6

LEMMA TailApart ==
  ASSUME NEW qs \in QueueSet, NEW us \in QueueSet, NEW v \in Priorities, qs[v] # <<>>,
         \A p \in Priorities : us[p] = IF p = v THEN Tail(qs[p]) ELSE qs[p]
  PROVE  /\ \E x : QueueKeys(qs) = QueueKeys(us) \cup {x}
         /\ Apart(qs) => Apart(us)
<1>1. \A p \in Priorities : qs[p] \in Seq(EventSet) /\ us[p] \in Seq(EventSet)
  BY DEF QueueSet
<1>2. /\ QueueKeys(qs) = UNION {Keys(ToSet(qs[p])) : p \in Priorities}
      /\ QueueKeys(us) = UNION {Keys(ToSet(us[p])) : p \in Priorities}
  BY ApartIs DEF QueueSet
<1>3. PICK x : Keys(ToSet(qs[v])) = Keys(ToSet(us[v])) \cup {x}
  <2>1. PICK s \in Seq(EventSet) : s = qs[v]
    BY <1>1
  <2>2. us[v] = Tail(s) /\ s # <<>>
    BY <2>1
  <2>3. ToSet(s) = {s[1]} \cup ToSet(Tail(s))
    BY <2>2, SetOfTail
  <2>4. Keys({s[1]}) = {Key(s[1])}
    BY DEF Keys
  <2>5. Keys(ToSet(s)) = {Key(s[1])} \cup Keys(ToSet(Tail(s)))
    BY <2>3, <2>4, KeysOfUnion
  <2> QED BY <2>1, <2>2, <2>5
<1>4. \A p \in Priorities : p # v => us[p] = qs[p]
  OBVIOUS
<1>5. QueueKeys(qs) = QueueKeys(us) \cup {x}
  <2>1. ASSUME NEW y \in QueueKeys(qs)
        PROVE  y \in QueueKeys(us) \cup {x}
    <3>1. PICK p \in Priorities : y \in Keys(ToSet(qs[p]))
      BY <1>2
    <3>2. y \in Keys(ToSet(us[p])) \cup {x}
      BY <1>3, <1>4, <3>1
    <3> QED BY <1>2, <3>2
  <2>2. ASSUME NEW y \in QueueKeys(us)
        PROVE  y \in QueueKeys(qs)
    <3>1. PICK p \in Priorities : y \in Keys(ToSet(us[p]))
      BY <1>2
    <3>2. y \in Keys(ToSet(qs[p]))
      BY <1>3, <1>4, <3>1
    <3> QED BY <1>2, <3>2
  <2>3. x \in QueueKeys(qs)
    BY <1>2, <1>3
  <2> QED BY <2>1, <2>2, <2>3
<1>6. ASSUME Apart(qs)
      PROVE  Apart(us)
  <2>1. ASSUME NEW p \in Priorities
        PROVE  Distinct(us[p])
    <3>1. Distinct(qs[p])
      BY <1>6 DEF Apart
    <3>2. CASE p = v
      <4>1. us[p] = Tail(qs[p]) /\ qs[p] # <<>>
        BY <3>2
      <4> QED BY <1>1, <3>1, <4>1, DistinctTail
    <3> QED BY <1>4, <3>1, <3>2
  <2>2. \A p \in Priorities : Keys(ToSet(us[p])) \subseteq Keys(ToSet(qs[p]))
    BY <1>3, <1>4
  <2>3. ASSUME NEW p \in Priorities, NEW q \in Priorities, p # q
        PROVE  Keys(ToSet(us[p])) \cap Keys(ToSet(us[q])) = {}
    <3>1. Keys(ToSet(qs[p])) \cap Keys(ToSet(qs[q])) = {}
      BY <1>6, <2>3 DEF Apart
    <3> QED BY <2>2, <3>1
  <2> QED BY <2>1, <2>3 DEF Apart
<1> QED BY <1>5, <1>6

\* At most n keys are missing from B that are in A.
MissesAtMost(A, B, n) ==
  \E X : IsFiniteSet(X) /\ Cardinality(X) <= n /\ A \subseteq B \cup X

LEMMA MissesOne ==
  ASSUME NEW A, NEW B, NEW x, A \subseteq B \cup {x}
  PROVE  MissesAtMost(A, B, 1)
<1>1. IsFiniteSet({x}) /\ Cardinality({x}) = 1
  BY FS_Singleton
<1>2. Cardinality({x}) <= 1
  BY <1>1
<1> QED BY <1>1, <1>2 DEF MissesAtMost

LEMMA MissesNone ==
  ASSUME NEW A, NEW B, A \subseteq B
  PROVE  MissesAtMost(A, B, 0)
<1>1. IsFiniteSet({}) /\ Cardinality({}) <= 0
  BY FS_EmptySet
<1> QED BY <1>1 DEF MissesAtMost

LEMMA MissesAdd ==
  ASSUME NEW A, NEW B, NEW C, NEW m \in Int, NEW n \in Int,
         MissesAtMost(A, B, m), MissesAtMost(B, C, n)
  PROVE  MissesAtMost(A, C, m + n)
<1>1. PICK X : IsFiniteSet(X) /\ Cardinality(X) <= m /\ A \subseteq B \cup X
  BY DEF MissesAtMost
<1>2. PICK Y : IsFiniteSet(Y) /\ Cardinality(Y) <= n /\ B \subseteq C \cup Y
  BY DEF MissesAtMost
<1>3. /\ IsFiniteSet(X \cup Y) /\ IsFiniteSet(X \cap Y)
      /\ Cardinality(X \cup Y) = Cardinality(X) + Cardinality(Y) - Cardinality(X \cap Y)
  BY <1>1, <1>2, FS_Union, FS_Intersection
<1>4. Cardinality(X) \in Nat /\ Cardinality(Y) \in Nat /\ Cardinality(X \cap Y) \in Nat
  BY <1>1, <1>2, <1>3, FS_CardinalityType
<1>5. PICK c, d, k, u : c = Cardinality(X) /\ d = Cardinality(Y) /\ k = Cardinality(X \cap Y)
                        /\ u = Cardinality(X \cup Y)
  OBVIOUS
<1>6. u <= m + n
  <2>1. c \in Nat /\ d \in Nat /\ k \in Nat /\ c <= m /\ d <= n /\ u = c + d - k
    BY <1>1, <1>2, <1>3, <1>4, <1>5
  <2> QED BY <2>1
<1>7. A \subseteq C \cup (X \cup Y)
  BY <1>1, <1>2
<1>8. IsFiniteSet(X \cup Y) /\ Cardinality(X \cup Y) <= m + n
  BY <1>3, <1>5, <1>6
<1> QED BY <1>7, <1>8 DEF MissesAtMost

LEMMA OneMore ==
  ASSUME NEW f \in [Priorities -> Nat], NEW g \in [Priorities -> Nat], NEW v \in Priorities,
         \A p \in Priorities : g[p] = f[p] + IF p = v THEN 1 ELSE 0
  PROVE  SumFunction(g) = SumFunction(f) + 1 /\ SumFunction(f) \in Nat
<1>1. IsFiniteSet(Priorities)
  <2>1. PICK n \in Nat : n = 2
    OBVIOUS
  <2>2. IsFiniteSet(0..n)
    BY FS_Interval
  <2> QED BY <2>1, <2>2 DEF Priorities
<1>2. f \in [Priorities -> Int] /\ g \in [Priorities -> Int]
  OBVIOUS
<1>3. \A x \in Priorities : f[x] \in Nat
  OBVIOUS
<1>4. g[v] = f[v] + 1 /\ \A x \in Priorities : x # v => g[x] = f[x]
  BY <1>3
<1>5. SumFunction(g) = SumFunction(f) + g[v] - f[v]
  BY <1>1, <1>2, <1>4, SumStep
<1>6. SumFunction(f) \in Nat
  BY <1>1, SumOfNats
<1>7. PICK a \in Nat, b \in Nat : a = SumFunction(f) /\ b = f[v]
  BY <1>3, <1>6
<1>8. SumFunction(g) = a + (b + 1) - b
  BY <1>4, <1>5, <1>7
<1> QED BY <1>7, <1>8

\* An event the dedup has let through: it is queued, or something is dropped for it. Queues
\* that hold no key twice hold none twice if the key is new to them.
LEMMA AdmitKeys ==
  ASSUME NEW a \in IngestSet, NEW e \in EventSet, NEW b, b = AdmitOne(a, e)
  PROVE  /\ Apart(a.queues) /\ Key(e) \notin QueueKeys(a.queues) => Apart(b.queues)
         /\ QueueKeys(b.queues) \subseteq QueueKeys(a.queues) \cup {Key(e)}
         /\ MissesAtMost(QueueKeys(a.queues) \cup {Key(e)}, QueueKeys(b.queues),
                         SumFunction(b.dropped) - SumFunction(a.dropped))
<1>1. /\ b \in IngestSet
      /\ \/ TakesRoom(a, b, e) \/ IsRefused(a, b, e) \/ Displaces(a, b, e, Victim(a.queues))
  BY AdmitCases
<1>2. PICK qs \in QueueSet, us \in QueueSet : qs = a.queues /\ us = b.queues
  BY <1>1 DEF IngestSet
<1>3. PICK f \in [Priorities -> Nat], g \in [Priorities -> Nat] : f = a.dropped /\ g = b.dropped
  BY <1>1 DEF IngestSet
<1>4. PICK r \in Priorities : r = e.pri
  BY DEF EventSet
<1>5. SumFunction(f) \in Nat
  <2>1. PICK n \in Nat : n = 2
    OBVIOUS
  <2>2. IsFiniteSet(0..n)
    BY FS_Interval
  <2>3. IsFiniteSet(Priorities)
    BY <2>1, <2>2 DEF Priorities
  <2> QED BY <2>3, SumOfNats
<1>7. CASE TakesRoom(a, b, e)
  <2>1. \A p \in Priorities : us[p] = IF p = r THEN Append(qs[p], e) ELSE qs[p]
    BY <1>2, <1>4, <1>7 DEF TakesRoom
  <2>2. /\ QueueKeys(us) = QueueKeys(qs) \cup {Key(e)}
        /\ Apart(qs) /\ Key(e) \notin QueueKeys(qs) => Apart(us)
    BY <2>1, AppendApart
  <2>3. SumFunction(g) - SumFunction(f) = 0
    BY <1>3, <1>5, <1>7 DEF TakesRoom
  <2>4. MissesAtMost(QueueKeys(qs) \cup {Key(e)}, QueueKeys(us), 0)
    BY <2>2, MissesNone
  <2> QED BY <1>2, <1>3, <2>2, <2>3, <2>4
<1>8. CASE IsRefused(a, b, e)
  <2>1. us = qs /\ \A p \in Priorities : g[p] = f[p] + IF p = r THEN 1 ELSE 0
    BY <1>2, <1>3, <1>4, <1>8 DEF IsRefused
  <2>2. SumFunction(g) - SumFunction(f) = 1
    <3>1. SumFunction(g) = SumFunction(f) + 1
      BY <2>1, OneMore
    <3> QED BY <1>5, <3>1
  <2>3. MissesAtMost(QueueKeys(qs) \cup {Key(e)}, QueueKeys(us), 1)
    BY <2>1, MissesOne
  <2> QED BY <1>2, <1>3, <2>1, <2>2, <2>3
<1>9. CASE Displaces(a, b, e, Victim(a.queues))
  <2>1. PICK v : v = Victim(a.queues)
    OBVIOUS
  <2>2. /\ v \in Priorities /\ v > r /\ qs[v] # <<>>
        /\ \A p \in Priorities : g[p] = f[p] + IF p = v THEN 1 ELSE 0
        /\ \A p \in Priorities :
             us[p] = CASE p = r -> Append(qs[p], e)
                       [] p = v /\ p # r -> Tail(qs[p])
                       [] p # v /\ p # r -> qs[p]
    BY <1>2, <1>3, <1>4, <1>9, <2>1 DEF Displaces
  <2>3. v # r
    <3>1. r \in 0..2
      BY DEF Priorities
    <3> QED BY <2>2, <3>1
  <2> DEFINE ms == [p \in Priorities |-> IF p = v THEN Tail(qs[p]) ELSE qs[p]]
  <2>4. ms \in QueueSet
    <3>1. \A p \in Priorities : qs[p] \in Seq(EventSet)
      BY DEF QueueSet
    <3>2. Tail(qs[v]) \in Seq(EventSet)
      BY <2>2, <3>1, SetOfTail
    <3>3. \A p \in Priorities : (IF p = v THEN Tail(qs[p]) ELSE qs[p]) \in Seq(EventSet)
      BY <3>1, <3>2
    <3> QED BY <3>3 DEF QueueSet
  <2>5. \A p \in Priorities : ms[p] = IF p = v THEN Tail(qs[p]) ELSE qs[p]
    OBVIOUS
  <2> HIDE DEF ms
  <2>6. (Apart(qs) => Apart(ms)) /\ \E x : QueueKeys(qs) = QueueKeys(ms) \cup {x}
    <3>1. PICK ns \in QueueSet : ns = ms
      BY <2>4
    <3>2. qs[v] # <<>> /\ \A p \in Priorities : ns[p] = IF p = v THEN Tail(qs[p]) ELSE qs[p]
      BY <2>2, <2>5, <3>1
    <3>3. /\ \E x : QueueKeys(qs) = QueueKeys(ns) \cup {x}
          /\ Apart(qs) => Apart(ns)
      BY <2>2, <3>2, TailApart
    <3> QED BY <3>1, <3>3
  <2>7. \A p \in Priorities : us[p] = IF p = r THEN Append(ms[p], e) ELSE ms[p]
    <3> SUFFICES ASSUME NEW p \in Priorities
                 PROVE  us[p] = IF p = r THEN Append(ms[p], e) ELSE ms[p]
      OBVIOUS
    <3>1. CASE p = r
      BY <2>2, <2>3, <2>5, <3>1
    <3>2. CASE p = v
      BY <2>2, <2>3, <2>5, <3>2
    <3>3. CASE p # r /\ p # v
      BY <2>2, <2>3, <2>5, <3>3
    <3> QED BY <3>1, <3>2, <3>3
  <2>8. /\ QueueKeys(us) = QueueKeys(ms) \cup {Key(e)}
        /\ Apart(ms) /\ Key(e) \notin QueueKeys(ms) => Apart(us)
    BY <2>4, <2>7, AppendApart
  <2>9. Apart(qs) /\ Key(e) \notin QueueKeys(qs) => Apart(us)
    BY <2>6, <2>8
  <2>10. SumFunction(g) - SumFunction(f) = 1
    <3>1. SumFunction(g) = SumFunction(f) + 1
      BY <2>2, OneMore
    <3> QED BY <1>5, <3>1
  <2>11. PICK x : QueueKeys(qs) = QueueKeys(ms) \cup {x}
    BY <2>6
  <2>12. QueueKeys(qs) \cup {Key(e)} \subseteq QueueKeys(us) \cup {x}
    BY <2>8, <2>11
  <2>13. MissesAtMost(QueueKeys(qs) \cup {Key(e)}, QueueKeys(us), 1)
    BY <2>12, MissesOne
  <2>14. QueueKeys(us) \subseteq QueueKeys(qs) \cup {Key(e)}
    BY <2>8, <2>11
  <2> QED BY <1>2, <1>3, <2>9, <2>10, <2>13, <2>14
<1> QED BY <1>1, <1>7, <1>8, <1>9

LEMMA MissesMore ==
  ASSUME NEW A, NEW B, NEW C, NEW D, NEW Z, NEW n, MissesAtMost(A, B, n),
         C \subseteq A \cup Z, B \cup Z \subseteq D
  PROVE  MissesAtMost(C, D, n)
<1>1. PICK X : IsFiniteSet(X) /\ Cardinality(X) <= n /\ A \subseteq B \cup X
  BY DEF MissesAtMost
<1>2. C \subseteq D \cup X
  BY <1>1
<1> QED BY <1>1, <1>2 DEF MissesAtMost

\* The dedup has room for every key there is: none is forgotten.
RoomyDedup == Cardinality(Services) * MaxEvents <= DedupLru

LEMMA KeysFit ==
  ASSUME RoomyDedup, NEW T \in SUBSET KeySet
  PROVE  IsFiniteSet(T) /\ Cardinality(T) <= DedupLru
<1>1. PICK n \in Nat : n = MaxEvents
  BY Constants
<1>2. IsFiniteSet(Numbers) /\ Cardinality(Numbers) = n
  <2>1. PICK a \in Int, b \in Int : a = 0 /\ b = n - 1
    OBVIOUS
  <2>2. IsFiniteSet(a..b) /\ Cardinality(a..b) = IF a > b THEN 0 ELSE b - a + 1
    BY FS_Interval
  <2>3. (IF a > b THEN 0 ELSE b - a + 1) = n
    BY <2>1
  <2> QED BY <1>1, <2>1, <2>2, <2>3 DEF Numbers
<1>3. IsFiniteSet(KeySet) /\ Cardinality(KeySet) = Cardinality(Services) * Cardinality(Numbers)
  BY <1>2, Constants, FS_Product DEF KeySet
<1>4. Cardinality(KeySet) <= DedupLru
  BY <1>1, <1>2, <1>3 DEF RoomyDedup
<1>5. IsFiniteSet(T) /\ Cardinality(T) <= Cardinality(KeySet)
  BY <1>3, FS_Subset
<1>6. Cardinality(T) \in Nat /\ Cardinality(KeySet) \in Nat /\ DedupLru \in Nat
  BY <1>3, <1>5, FS_CardinalityType, Constants
<1> QED BY <1>4, <1>5, <1>6

\* R, the keys of the events that have left the queues of c, and the keys in the queues
\* are keys the dedup of c knows, each in one place.
ApartFrom(c, R) ==
  /\ Apart(c.queues) /\ QueueKeys(c.queues) \cap R = {}
  /\ R \cup QueueKeys(c.queues) \subseteq ToSet(c.seen)

\* Of what is queued in c, and of K what c does not know, d has in its queues all but what
\* it counts as dropped.
Loses(c, K, d) ==
  MissesAtMost(QueueKeys(c.queues) \cup (K \ ToSet(c.seen)), QueueKeys(d.queues),
               SumFunction(d.dropped) - SumFunction(c.dropped))

LEMMA DroppedIsNat ==
  ASSUME NEW c, IngestOK(c)
  PROVE  SumFunction(c.dropped) \in Nat
<1>1. PICK f \in [Priorities -> Nat] : f = c.dropped
  BY DEF IngestOK, IngestSet
<1>2. PICK n \in Nat : n = 2
  OBVIOUS
<1>3. IsFiniteSet(0..n)
  BY FS_Interval
<1>4. IsFiniteSet(Priorities)
  BY <1>2, <1>3 DEF Priorities
<1>5. SumFunction(f) \in Nat
  BY <1>4, SumOfNats
<1> QED BY <1>1, <1>5

\* One event more: met before, it changes nothing; new, it is admitted or something is
\* dropped for it.
LEMMA LosesStep ==
  ASSUME NEW a, NEW c, IngestOK(a), IngestOK(c), NEW K, Loses(a, K, c),
         ToSet(c.seen) \subseteq ToSet(a.seen) \cup K,
         NEW e \in EventSet, NEW d, d = IngestOne(c, e)
  PROVE  /\ IngestOK(d) /\ ToSet(d.seen) \subseteq ToSet(a.seen) \cup (K \cup {Key(e)})
         /\ Loses(a, K \cup {Key(e)}, d)
<1>1. /\ IngestOK(d) /\ d.seen = Remember(c.seen, Key(e))
      /\ Key(e) \in ToSet(c.seen) => d.queues = c.queues /\ d.dropped = c.dropped
      /\ Key(e) \notin ToSet(c.seen) =>
           d.queues = AdmitOne(c, e).queues /\ d.dropped = AdmitOne(c, e).dropped
  BY IngestOneIs
<1>2. PICK s \in Seq(KeySet), k \in KeySet : s = c.seen /\ k = Key(e)
  BY KeyType DEF IngestOK, IngestSet
<1>3. ToSet(d.seen) \subseteq ToSet(c.seen) \cup {Key(e)}
  <2>1. IsInjective(s) /\ Len(s) <= DedupLru
    BY <1>2 DEF IngestOK
  <2>2. ToSet(Remember(s, k)) \subseteq ToSet(s) \cup {k}
    BY <2>1, RememberIs
  <2> QED BY <1>1, <1>2, <2>2
<1>4. PICK x \in Nat, y \in Nat, z \in Nat : /\ x = SumFunction(a.dropped)
                                             /\ y = SumFunction(c.dropped)
                                             /\ z = SumFunction(d.dropped)
  BY <1>1, DroppedIsNat
<1>5. PICK S, K1, p, q, u : /\ S = ToSet(a.seen) /\ K1 = K \cup {k} /\ p = QueueKeys(a.queues)
                            /\ q = QueueKeys(c.queues) /\ u = QueueKeys(d.queues)
  OBVIOUS
<1>6. MissesAtMost(p \cup (K \ S), q, y - x)
  BY <1>4, <1>5 DEF Loses
<1>7. MissesAtMost(p \cup (K1 \ S), u, z - x)
  <2>1. CASE k \in ToSet(c.seen)
    <3>1. u = q /\ z = y
      BY <1>1, <1>2, <1>4, <1>5, <2>1
    <3>2. K1 \ S = K \ S
      BY <1>5, <2>1
    <3> QED BY <1>6, <3>1, <3>2
  <2>2. CASE k \notin ToSet(c.seen)
    <3>1. PICK b : b = AdmitOne(c, e)
      OBVIOUS
    <3>2. u = QueueKeys(b.queues) /\ z = SumFunction(b.dropped)
      BY <1>1, <1>2, <1>4, <1>5, <2>2, <3>1
    <3>3. MissesAtMost(q \cup {k}, u, z - y)
      <4>1. c \in IngestSet
        BY DEF IngestOK
      <4>2. MissesAtMost(QueueKeys(c.queues) \cup {Key(e)}, QueueKeys(b.queues),
                         SumFunction(b.dropped) - SumFunction(c.dropped))
        BY <3>1, <4>1, AdmitKeys
      <4> QED BY <1>2, <1>4, <1>5, <3>2, <4>2
    <3>4. PICK A, B, C, D, Z : /\ A = p \cup (K \ S) /\ B = q /\ C = p \cup (K1 \ S)
                               /\ D = q \cup {k} /\ Z = {k}
      OBVIOUS
    <3>5. C \subseteq A \cup Z /\ B \cup Z \subseteq D
      BY <1>5, <3>4
    <3>6. MissesAtMost(C, D, y - x)
      <4>1. PICK n : n = y - x
        OBVIOUS
      <4>2. MissesAtMost(A, B, n)
        BY <1>6, <3>4, <4>1
      <4>3. MissesAtMost(C, D, n)
        BY <3>5, <4>2, MissesMore
      <4> QED BY <4>1, <4>3
    <3>7. PICK i \in Int, j \in Int : i = y - x /\ j = z - y
      OBVIOUS
    <3>8. MissesAtMost(C, u, i + j)
      BY <3>3, <3>4, <3>6, <3>7, MissesAdd
    <3>9. i + j = z - x
      BY <3>7
    <3> QED BY <3>4, <3>8, <3>9
  <2> QED BY <2>1, <2>2
<1>8. Loses(a, K \cup {Key(e)}, d)
  BY <1>2, <1>4, <1>5, <1>7 DEF Loses
<1> QED BY <1>1, <1>3, <1>8

\* A batch, whatever the dedup has forgotten: what is lost of it is counted.
LEMMA IngestMisses ==
  ASSUME NEW evs \in Seq(EventSet), IngestOK(Intake)
  PROVE  /\ ToSet(Ingested(evs).seen) \subseteq ToSet(seen) \cup Keys(ToSet(evs))
         /\ Loses(Intake, Keys(ToSet(evs)), Ingested(evs))
<1> DEFINE First(i) == {Key(evs[j]) : j \in 1..i}
           Good(u, i) == /\ ToSet(u.seen) \subseteq ToSet(seen) \cup First(i)
                         /\ Loses(Intake, First(i), u)
           G == [i \in 0..Len(evs) |-> {u \in IngestSet : Good(u, i)}]
<1>1. Len(evs) \in Nat /\ \A i \in 1..Len(evs) : evs[i] \in EventSet
  BY LenProperties
<1>2. Intake.seen = seen /\ Intake \in IngestSet
  BY DEF Intake, IngestOK
<1>3. \A i \in 0..Len(evs) : \A u \in IngestSet : u \in G[i] <=> Good(u, i)
  OBVIOUS
<1>4. Intake \in G[0]
  <2>1. 0 \in 0..Len(evs) /\ First(0) = {}
    BY <1>1
  <2>2. Loses(Intake, {}, Intake)
    <3>1. PICK n \in Nat : n = SumFunction(Intake.dropped)
      BY DroppedIsNat
    <3>2. PICK p, q : q = QueueKeys(Intake.queues) /\ p = q \cup ({} \ ToSet(Intake.seen))
      OBVIOUS
    <3>3. MissesAtMost(p, q, 0)
      BY <3>2, MissesNone
    <3>4. n - n = 0
      OBVIOUS
    <3> QED BY <3>1, <3>2, <3>3, <3>4 DEF Loses
  <2>3. Good(Intake, 0)
    <3> HIDE DEF First
    <3> QED BY <1>2, <2>1, <2>2
  <2> HIDE DEF G, Good
  <2> QED BY <1>2, <1>3, <2>1, <2>3
<1>5. ASSUME NEW i \in 1..Len(evs), NEW u, IngestOK(u), u \in G[i - 1]
      PROVE  IngestOne(u, evs[i]) \in G[i]
  <2>1. i - 1 \in 0..Len(evs) /\ i \in 0..Len(evs) /\ i \in Nat
    BY <1>1
  <2>2. Good(u, i - 1)
    <3>1. u \in IngestSet
      BY <1>5 DEF IngestOK
    <3> HIDE DEF G, Good
    <3> QED BY <1>3, <1>5, <2>1, <3>1
  <2>3. PICK d : d = IngestOne(u, evs[i])
    OBVIOUS
  <2>4. PICK e \in EventSet : e = evs[i]
    BY <1>1
  <2>5. PICK K, S : K = First(i - 1) /\ S = ToSet(seen)
    OBVIOUS
  <2>6. First(i) = K \cup {Key(e)}
    <3>1. \A j : j \in 1..i <=> (j \in 1..i - 1 \/ j = i)
      BY <2>1
    <3> QED BY <2>4, <2>5, <3>1
  <2>7. /\ IngestOK(d) /\ ToSet(d.seen) \subseteq S \cup (K \cup {Key(e)})
        /\ Loses(Intake, K \cup {Key(e)}, d)
    <3>1. Loses(Intake, K, u) /\ ToSet(u.seen) \subseteq ToSet(Intake.seen) \cup K
      <4> HIDE DEF First
      <4> QED BY <1>2, <2>2, <2>5
    <3>2. /\ IngestOK(d) /\ ToSet(d.seen) \subseteq ToSet(Intake.seen) \cup (K \cup {Key(e)})
          /\ Loses(Intake, K \cup {Key(e)}, d)
      BY <1>5, <2>3, <2>4, <3>1, LosesStep
    <3> QED BY <1>2, <2>5, <3>2
  <2>8. d \in IngestSet
    BY <2>7 DEF IngestOK
  <2>9. Good(d, i)
    <3> HIDE DEF First
    <3> QED BY <2>5, <2>6, <2>7
  <2> HIDE DEF G, Good
  <2> QED BY <1>3, <2>1, <2>3, <2>8, <2>9
<1>6. IngestOK(Ingested(evs)) /\ Ingested(evs) \in G[Len(evs)]
  <2> HIDE DEF G
  <2> QED BY <1>4, <1>5, IngestLoop
<1>7. Good(Ingested(evs), Len(evs))
  <2>1. Len(evs) \in 0..Len(evs) /\ Ingested(evs) \in IngestSet
    BY <1>1, <1>6 DEF IngestOK
  <2> HIDE DEF G, Good
  <2> QED BY <1>3, <1>6, <2>1
<1>8. First(Len(evs)) = Keys(ToSet(evs))
  BY SetOf DEF Keys
<1> HIDE DEF First
<1> QED BY <1>7, <1>8

LEMMA IngestOneKeys ==
  ASSUME RoomyDedup, NEW c, IngestOK(c), NEW e \in EventSet, NEW R, ApartFrom(c, R),
         NEW d, d = IngestOne(c, e)
  PROVE  /\ IngestOK(d) /\ ToSet(d.seen) = ToSet(c.seen) \cup {Key(e)}
         /\ ApartFrom(d, R)
<1>1. /\ IngestOK(d) /\ d.seen = Remember(c.seen, Key(e))
      /\ Key(e) \in ToSet(c.seen) => d.queues = c.queues /\ d.dropped = c.dropped
      /\ Key(e) \notin ToSet(c.seen) =>
           d.queues = AdmitOne(c, e).queues /\ d.dropped = AdmitOne(c, e).dropped
  BY IngestOneIs
<1>2. c \in IngestSet /\ c.seen \in Seq(KeySet) /\ IsInjective(c.seen) /\ Len(c.seen) <= DedupLru
  BY DEF IngestOK, IngestSet
<1>3. Key(e) \in KeySet
  BY KeyType
<1>4. ToSet(d.seen) = ToSet(c.seen) \cup {Key(e)}
  <2>1. PICK s \in Seq(KeySet), k \in KeySet : s = c.seen /\ k = Key(e)
    BY <1>2, <1>3
  <2>2. ToSet(s) \cup {k} \in SUBSET KeySet
    BY SetOf
  <2>3. Cardinality(ToSet(s) \cup {k}) <= DedupLru
    BY <2>2, KeysFit
  <2>4. ToSet(Remember(s, k)) = ToSet(s) \cup {k}
    BY <1>2, <2>1, <2>3, RememberIs
  <2> QED BY <1>1, <2>1, <2>4
<1>5. CASE Key(e) \in ToSet(c.seen)
  <2>1. d.queues = c.queues /\ d.dropped = c.dropped /\ ToSet(d.seen) = ToSet(c.seen)
    BY <1>1, <1>4, <1>5
  <2>2. ApartFrom(d, R)
    BY <2>1 DEF ApartFrom
  <2> QED BY <1>1, <1>4, <2>2
<1>6. CASE Key(e) \notin ToSet(c.seen)
  <2>1. PICK b : b = AdmitOne(c, e)
    OBVIOUS
  <2>2. d.queues = b.queues /\ d.dropped = b.dropped
    BY <1>1, <1>6, <2>1
  <2>3. Apart(c.queues) /\ Key(e) \notin QueueKeys(c.queues) /\ Key(e) \notin R
    BY <1>6 DEF ApartFrom
  <2>4. /\ Apart(b.queues) /\ QueueKeys(b.queues) \subseteq QueueKeys(c.queues) \cup {Key(e)}
    BY <1>2, <2>1, <2>3, AdmitKeys
  <2>5. ApartFrom(d, R)
    <3>1. QueueKeys(d.queues) \subseteq QueueKeys(c.queues) \cup {Key(e)}
      BY <2>2, <2>4
    <3>2. QueueKeys(c.queues) \cap R = {} /\ R \cup QueueKeys(c.queues) \subseteq ToSet(c.seen)
      BY DEF ApartFrom
    <3>3. QueueKeys(d.queues) \cap R = {} /\ R \cup QueueKeys(d.queues) \subseteq ToSet(d.seen)
      BY <1>4, <2>3, <3>1, <3>2
    <3> QED BY <2>2, <2>4, <3>3 DEF ApartFrom
  <2> QED BY <1>1, <1>4, <2>5
<1> QED BY <1>5, <1>6

\* A batch: every key of it becomes known, and none is queued twice.
LEMMA IngestKeys ==
  ASSUME RoomyDedup, NEW evs \in Seq(EventSet), IngestOK(Intake), NEW R, ApartFrom(Intake, R)
  PROVE  /\ ToSet(Ingested(evs).seen) = ToSet(seen) \cup Keys(ToSet(evs))
         /\ ApartFrom(Ingested(evs), R)
<1> DEFINE First(i) == {Key(evs[j]) : j \in 1..i}
           Good(u, i) == /\ ToSet(u.seen) = ToSet(seen) \cup First(i)
                         /\ ApartFrom(u, R)
           G == [i \in 0..Len(evs) |-> {u \in IngestSet : Good(u, i)}]
<1>1. Len(evs) \in Nat /\ \A i \in 1..Len(evs) : evs[i] \in EventSet
  BY LenProperties
<1>2. Intake.seen = seen /\ Intake \in IngestSet
  BY DEF Intake, IngestOK
<1>3. \A i \in 0..Len(evs) : \A u \in IngestSet : u \in G[i] <=> Good(u, i)
  OBVIOUS
<1>4. Intake \in G[0]
  <2>1. 0 \in 0..Len(evs) /\ First(0) = {}
    BY <1>1
  <2>3. Good(Intake, 0)
    BY <1>2, <2>1
  <2> HIDE DEF G, Good
  <2> QED BY <1>2, <1>3, <2>1, <2>3
<1>5. ASSUME NEW i \in 1..Len(evs), NEW u, IngestOK(u), u \in G[i - 1]
      PROVE  IngestOne(u, evs[i]) \in G[i]
  <2>1. i - 1 \in 0..Len(evs) /\ i \in 0..Len(evs) /\ i \in Nat
    BY <1>1
  <2>2. Good(u, i - 1)
    <3>1. u \in IngestSet
      BY <1>5 DEF IngestOK
    <3> HIDE DEF G, Good
    <3> QED BY <1>3, <1>5, <2>1, <3>1
  <2>3. PICK d : d = IngestOne(u, evs[i])
    OBVIOUS
  <2>4. PICK e \in EventSet : e = evs[i]
    BY <1>1
  <2>5. /\ IngestOK(d) /\ ToSet(d.seen) = ToSet(u.seen) \cup {Key(e)}
        /\ ApartFrom(d, R)
    BY <1>5, <2>2, <2>3, <2>4, IngestOneKeys
  <2>6. First(i) = First(i - 1) \cup {Key(e)}
    <3>1. \A j : j \in 1..i <=> (j \in 1..i - 1 \/ j = i)
      BY <2>1
    <3> QED BY <2>4, <3>1
  <2>8. d \in IngestSet
    BY <2>5 DEF IngestOK
  <2>9. Good(d, i)
    <3> HIDE DEF First
    <3> QED BY <2>2, <2>5, <2>6
  <2> HIDE DEF G, Good
  <2> QED BY <1>3, <2>1, <2>3, <2>8, <2>9
<1>6. IngestOK(Ingested(evs)) /\ Ingested(evs) \in G[Len(evs)]
  <2> HIDE DEF G
  <2> QED BY <1>4, <1>5, IngestLoop
<1>7. Good(Ingested(evs), Len(evs))
  <2>1. Len(evs) \in 0..Len(evs) /\ Ingested(evs) \in IngestSet
    BY <1>1, <1>6 DEF IngestOK
  <2> HIDE DEF G, Good
  <2> QED BY <1>3, <1>6, <2>1
<1>8. First(Len(evs)) = Keys(ToSet(evs))
  BY SetOf DEF Keys
<1> QED BY <1>7, <1>8

\* One window: its events are appended, each once when no key is met twice.
LEMMA BuildKeys ==
  ASSUME NEW acc \in BuildSet, NEW id \in Nat, NEW evs \in Seq(EventSet), NEW apart \in BOOLEAN,
         apart => /\ Distinct(evs) /\ Distinct(acc.events)
                  /\ \A e \in ToSet(evs) : e.t = id => Key(e) \notin Keys(ToSet(acc.events))
  PROVE  /\ apart => Distinct(Build(acc, id, evs).events)
         /\ ToSet(Build(acc, id, evs).events) =
              ToSet(acc.events) \cup {e \in ToSet(evs) : e.t = id}
<1> DEFINE A == ToSet(acc.events)
           Win(i) == {evs[j] : j \in {k \in 1..i : evs[k].t = id}}
           Good(u, i) == (apart => Distinct(u.events)) /\ ToSet(u.events) = A \cup Win(i)
           G == [i \in 0..Len(evs) |-> {u \in AccSet : Good(u, i)}]
           Start == [in |-> [s \in Services |-> 0], last |-> acc.last, events |-> acc.events]
<1>1. /\ Len(evs) \in Nat /\ \A i \in 1..Len(evs) : evs[i] \in EventSet
      /\ ToSet(evs) = {evs[i] : i \in 1..Len(evs)}
  BY SetOf, LenProperties
<1>2. \A i \in 0..Len(evs) : \A u \in AccSet : u \in G[i] <=> Good(u, i)
  OBVIOUS
<1>3. Start \in G[0]
  <2>1. 0 \in 0..Len(evs) /\ Win(0) = {}
    BY <1>1
  <2>2. Start \in AccSet
    BY DEF AccSet, BuildSet
  <2>3. Good(Start, 0)
    BY <2>1
  <2> HIDE DEF G, Good, Start
  <2> QED BY <1>2, <2>1, <2>2, <2>3
<1>4. ASSUME NEW i \in 1..Len(evs), NEW u \in AccSet, u \in G[i - 1]
      PROVE  IF evs[i].t = id THEN Aggregate(u, evs[i]) \in G[i] ELSE u \in G[i]
  <2>1. i - 1 \in 0..Len(evs) /\ i \in 0..Len(evs) /\ i \in Nat
    BY <1>1
  <2>2. Good(u, i - 1)
    <3> HIDE DEF G, Good
    <3> QED BY <1>2, <1>4, <2>1
  <2>3. PICK e \in EventSet : e = evs[i]
    BY <1>1
  <2>4. \A j : j \in 1..i <=> (j \in 1..i - 1 \/ j = i)
    BY <2>1
  <2>5. CASE e.t = id
    <3>1. PICK b : b = Aggregate(u, e)
      OBVIOUS
    <3>2. b \in AccSet /\ b.events = Append(u.events, e)
      BY <3>1, AggregateIs
    <3>3. Win(i) = Win(i - 1) \cup {e}
      BY <2>3, <2>4, <2>5
    <3>4. apart => Key(e) \notin Keys(A)
      BY <1>1, <2>3, <2>5
    <3>5. apart => \A j \in 1..i - 1 : Key(evs[j]) # Key(e)
      <4> SUFFICES ASSUME apart, NEW j \in 1..i - 1, Key(evs[j]) = Key(evs[i]) PROVE FALSE
        BY <2>3
      <4>1. j \in 1..Len(evs) /\ j # i
        BY <1>1, <2>1
      <4> QED BY <4>1 DEF Distinct
    <3>6. apart => Key(e) \notin Keys(Win(i - 1))
      BY <3>5 DEF Keys
    <3>7. apart => Key(e) \notin Keys(ToSet(u.events))
      <4> HIDE DEF Win, A
      <4> QED BY <2>2, <3>4, <3>6, KeysOfUnion
    <3>8. u.events \in Seq(EventSet) /\ (apart => Distinct(u.events))
      BY <2>2 DEF AccSet
    <3>9. (apart => Distinct(b.events)) /\ ToSet(b.events) = ToSet(u.events) \cup {e}
      BY <3>2, <3>7, <3>8, DistinctAppend, SetOfAppend
    <3>10. Good(b, i)
      <4> HIDE DEF Win, A
      <4> QED BY <2>2, <3>3, <3>9
    <3> HIDE DEF G, Good
    <3> QED BY <1>2, <2>1, <2>3, <2>5, <3>1, <3>2, <3>10
  <2>6. CASE e.t # id
    <3>1. Win(i) = Win(i - 1)
      BY <2>3, <2>4, <2>6
    <3>2. Good(u, i)
      <4> HIDE DEF Win, A
      <4> QED BY <2>2, <3>1
    <3> HIDE DEF G, Good
    <3> QED BY <1>2, <2>1, <2>3, <2>6, <3>2
  <2> QED BY <2>5, <2>6
<1>5. \E u \in AccSet : /\ u \in G[Len(evs)]
                        /\ Build(acc, id, evs) =
                             [last |-> u.last, events |-> u.events,
                              windows |-> Append(acc.windows, [id |-> id, in |-> u.in])]
  <2> HIDE DEF G
  <2> QED BY <1>3, <1>4, BuildLoop
<1>6. PICK u \in AccSet : u \in G[Len(evs)] /\ Build(acc, id, evs).events = u.events
  <2> HIDE DEF G
  <2>1. PICK u \in AccSet : /\ u \in G[Len(evs)]
                            /\ Build(acc, id, evs) =
                                 [last |-> u.last, events |-> u.events,
                                  windows |-> Append(acc.windows, [id |-> id, in |-> u.in])]
    BY <1>5
  <2> QED BY <2>1
<1>7. Good(u, Len(evs))
  <2>1. Len(evs) \in 0..Len(evs)
    BY <1>1
  <2> HIDE DEF G, Good
  <2> QED BY <1>2, <1>6, <2>1
<1>8. Win(Len(evs)) = {e \in ToSet(evs) : e.t = id}
  BY <1>1
<1> QED BY <1>6, <1>7, <1>8

\* The windows a tick closes: their events are appended, each once when no key is met twice.
LEMMA BuiltKeys ==
  ASSUME TypeInv, CollectorTick, NEW apart \in BOOLEAN,
         apart => /\ Distinct(Arrived) /\ Distinct(aggregated)
                  /\ Keys(ToSet(Arrived)) \cap Keys(ToSet(aggregated)) = {}
  PROVE  /\ apart => Distinct(Built.events)
         /\ ToSet(Built.events) = ToSet(aggregated) \cup {e \in ToSet(Arrived) : e.t \in Closing}
<1>1. PICK evs \in Seq(EventSet), w \in Nat : evs = Arrived /\ w = Newest
  BY TickIs, Constants
<1>2. PICK C : C = Closing
  OBVIOUS
<1> DEFINE A == ToSet(aggregated)
           Win(i) == {e \in ToSet(evs) : e.t \in C /\ e.t <= i}
           Good(u, i) == (apart => Distinct(u.events)) /\ ToSet(u.events) = A \cup Win(i)
           G == [i \in 0..w |-> {u \in BuildSet : Good(u, i)}]
<1>3. PublishStart \in BuildSet /\ PublishStart.events = aggregated
  BY PublishStartIs DEF PublishStart
<1>4. \A i \in 0..w : \A u \in BuildSet : u \in G[i] <=> Good(u, i)
  OBVIOUS
<1>5. C \subseteq 1..w
  BY <1>1, <1>2, ClosingIs
<1>6. \A e \in ToSet(evs) : e \in EventSet /\ e.t \in Nat
  <2>1. ToSet(evs) \in SUBSET EventSet
    BY SetOf
  <2>2. \A e \in EventSet : e.t \in 1..MaxNow
    BY DEF EventSet
  <2> QED BY <2>1, <2>2
<1>7. PublishStart \in G[0]
  <2>1. Win(0) = {}
    BY <1>5, <1>6
  <2>2. Good(PublishStart, 0)
    BY <1>3, <2>1
  <2>3. 0 \in 0..w
    OBVIOUS
  <2> HIDE DEF G, Good
  <2> QED BY <1>3, <1>4, <2>2, <2>3
<1>8. ASSUME NEW i \in 1..w, NEW u \in BuildSet, u \in G[i - 1]
      PROVE  IF i \in C THEN Build(u, i, evs) \in G[i] ELSE u \in G[i]
  <2>1. i - 1 \in 0..w /\ i \in 0..w /\ i \in Nat
    OBVIOUS
  <2>2. Good(u, i - 1)
    <3> HIDE DEF G, Good
    <3> QED BY <1>4, <1>8, <2>1
  <2>3. CASE i \in C
    <3>1. PICK b : b = Build(u, i, evs)
      OBVIOUS
    <3>2. apart => \A e \in ToSet(evs) : e.t = i => Key(e) \notin Keys(ToSet(u.events))
      <4> SUFFICES ASSUME apart, NEW e \in ToSet(evs), e.t = i
                   PROVE  Key(e) \notin Keys(ToSet(u.events))
        OBVIOUS
      <4>1. Key(e) \notin Keys(A)
        BY <1>1 DEF Keys
      <4>2. ASSUME NEW x \in Win(i - 1), Key(x) = Key(e)
            PROVE  FALSE
        <5>1. x \in ToSet(evs) /\ x.t <= i - 1
          OBVIOUS
        <5>2. x = e
          BY <1>1, <4>2, <5>1, DistinctIs
        <5> QED BY <2>1, <5>1, <5>2
      <4>3. Key(e) \notin Keys(Win(i - 1))
        BY <4>2 DEF Keys
      <4> HIDE DEF Win, A
      <4> QED BY <2>2, <4>1, <4>3, KeysOfUnion
    <3>3. /\ apart => Distinct(b.events)
          /\ ToSet(b.events) = ToSet(u.events) \cup {e \in ToSet(evs) : e.t = i}
      <4>1. apart => Distinct(evs) /\ Distinct(u.events)
        BY <1>1, <2>2
      <4> QED BY <2>1, <3>1, <3>2, <4>1, BuildKeys
    <3>4. Win(i) = Win(i - 1) \cup {e \in ToSet(evs) : e.t = i}
      <4>1. \A e \in ToSet(evs) : (e.t <= i) <=> (e.t <= i - 1 \/ e.t = i)
        BY <1>6, <2>1
      <4> QED BY <2>3, <4>1
    <3>5. Good(b, i)
      <4> HIDE DEF Win, A
      <4> QED BY <2>2, <3>3, <3>4
    <3>6. b \in BuildSet
      BY <2>1, <3>1, BuildIs
    <3> HIDE DEF G, Good
    <3> QED BY <1>4, <2>1, <2>3, <3>1, <3>5, <3>6
  <2>4. CASE i \notin C
    <3>1. Win(i) = Win(i - 1)
      <4>1. \A e \in ToSet(evs) : e.t \in C => ((e.t <= i) <=> (e.t <= i - 1))
        BY <1>6, <2>1, <2>4
      <4> QED BY <4>1
    <3>2. Good(u, i)
      <4> HIDE DEF Win, A
      <4> QED BY <2>2, <3>1
    <3> HIDE DEF G, Good
    <3> QED BY <1>4, <2>1, <2>4, <3>2
  <2> QED BY <2>3, <2>4
<1>9. Published(C, evs, w) \in BuildSet /\ Published(C, evs, w) \in G[w]
  <2> HIDE DEF G
  <2> QED BY <1>3, <1>7, <1>8, PublishLoop DEF PublishStart
<1>10. Good(Built, w)
  <2>1. w \in 0..w /\ Built = Published(C, evs, w)
    BY <1>1, <1>2 DEF Built
  <2> HIDE DEF G, Good
  <2> QED BY <1>4, <1>9, <2>1
<1>11. Win(w) = {e \in ToSet(evs) : e.t \in C}
  <2>1. \A i \in C : i <= w
    BY <1>5
  <2> QED BY <2>1
<1> QED BY <1>1, <1>2, <1>10, <1>11

\* Queues cut in two: the keys of what is taken, and of what is left.
LEMMA CutApart ==
  ASSUME NEW qs \in QueueSet, NEW n \in Nat
  PROVE  /\ QueueKeys(qs) = Keys(ToSet(TakeFirst(qs, n))) \cup QueueKeys(LeaveRest(qs, n))
         /\ Apart(qs) => /\ Distinct(TakeFirst(qs, n)) /\ Apart(LeaveRest(qs, n))
                         /\ Keys(ToSet(TakeFirst(qs, n))) \cap QueueKeys(LeaveRest(qs, n)) = {}
<1>1. PICK us : us = LeaveRest(qs, n)
  OBVIOUS
<1>2. PICK ts \in QueueSet : /\ TakeFirst(qs, n) = InOrder(ts) /\ us \in QueueSet
                             /\ \A p \in Priorities : ts[p] \o us[p] = qs[p]
  <2>1. CutInTwo(qs, n, EventSet)
    BY TakeAndLeave DEF QueueSet
  <2> QED BY <1>1, <2>1 DEF CutInTwo, QueueSet
<1>3. ASSUME NEW p \in Priorities
      PROVE  /\ Keys(ToSet(qs[p])) = Keys(ToSet(ts[p])) \cup Keys(ToSet(us[p]))
             /\ Distinct(qs[p]) => /\ Distinct(ts[p]) /\ Distinct(us[p])
                                   /\ Keys(ToSet(ts[p])) \cap Keys(ToSet(us[p])) = {}
  <2>1. PICK t \in Seq(EventSet), u \in Seq(EventSet) : t = ts[p] /\ u = us[p]
    BY <1>2 DEF QueueSet
  <2>2. qs[p] = t \o u
    BY <1>2, <2>1
  <2>3. ToSet(t \o u) = ToSet(t) \cup ToSet(u)
    BY SetOfConcat
  <2>4. Distinct(t \o u) => Distinct(t) /\ Distinct(u) /\ Keys(ToSet(t)) \cap Keys(ToSet(u)) = {}
    BY DistinctConcat
  <2> QED BY <2>1, <2>2, <2>3, <2>4, KeysOfUnion
<1>4. /\ QueueKeys(qs) = UNION {Keys(ToSet(qs[p])) : p \in Priorities}
      /\ QueueKeys(ts) = UNION {Keys(ToSet(ts[p])) : p \in Priorities}
      /\ QueueKeys(us) = UNION {Keys(ToSet(us[p])) : p \in Priorities}
  BY <1>2, ApartIs DEF QueueSet
<1>5. QueueKeys(qs) = QueueKeys(ts) \cup QueueKeys(us)
  <2>1. ASSUME NEW x \in QueueKeys(qs)
        PROVE  x \in QueueKeys(ts) \cup QueueKeys(us)
    <3>1. PICK p \in Priorities : x \in Keys(ToSet(qs[p]))
      BY <1>4
    <3>2. x \in Keys(ToSet(ts[p])) \cup Keys(ToSet(us[p]))
      BY <1>3, <3>1
    <3> QED BY <1>4, <3>2
  <2>2. ASSUME NEW x \in QueueKeys(ts) \cup QueueKeys(us)
        PROVE  x \in QueueKeys(qs)
    <3>1. PICK p \in Priorities : x \in Keys(ToSet(ts[p])) \cup Keys(ToSet(us[p]))
      BY <1>4, <2>2
    <3>2. x \in Keys(ToSet(qs[p]))
      BY <1>3, <3>1
    <3> QED BY <1>4, <3>2
  <2> QED BY <2>1, <2>2
<1>6. ASSUME Apart(qs)
      PROVE  Apart(ts) /\ Apart(us) /\ QueueKeys(ts) \cap QueueKeys(us) = {}
  <2>1. \A p \in Priorities : Distinct(qs[p])
    BY <1>6 DEF Apart
  <2>2. \A p, q \in Priorities : p # q => Keys(ToSet(qs[p])) \cap Keys(ToSet(qs[q])) = {}
    BY <1>6 DEF Apart
  <2>3. \A p, q \in Priorities : p # q =>
          /\ Keys(ToSet(ts[p])) \cap Keys(ToSet(ts[q])) = {}
          /\ Keys(ToSet(us[p])) \cap Keys(ToSet(us[q])) = {}
          /\ Keys(ToSet(ts[p])) \cap Keys(ToSet(us[q])) = {}
    <3> SUFFICES ASSUME NEW p \in Priorities, NEW q \in Priorities, p # q
                 PROVE  /\ Keys(ToSet(ts[p])) \cap Keys(ToSet(ts[q])) = {}
                        /\ Keys(ToSet(us[p])) \cap Keys(ToSet(us[q])) = {}
                        /\ Keys(ToSet(ts[p])) \cap Keys(ToSet(us[q])) = {}
      OBVIOUS
    <3>1. /\ Keys(ToSet(qs[p])) = Keys(ToSet(ts[p])) \cup Keys(ToSet(us[p]))
          /\ Keys(ToSet(qs[q])) = Keys(ToSet(ts[q])) \cup Keys(ToSet(us[q]))
          /\ Keys(ToSet(qs[p])) \cap Keys(ToSet(qs[q])) = {}
      BY <1>3, <2>2
    <3> QED BY <3>1
  <2>4. \A p \in Priorities : /\ Distinct(ts[p]) /\ Distinct(us[p])
                              /\ Keys(ToSet(ts[p])) \cap Keys(ToSet(us[p])) = {}
    BY <1>3, <2>1
  <2>5. Apart(ts) /\ Apart(us)
    BY <2>3, <2>4 DEF Apart
  <2>6. ASSUME NEW x \in QueueKeys(ts), x \in QueueKeys(us)
        PROVE  FALSE
    <3>1. PICK p \in Priorities, q \in Priorities :
            x \in Keys(ToSet(ts[p])) /\ x \in Keys(ToSet(us[q]))
      BY <1>4, <2>6
    <3>2. CASE p = q
      BY <2>4, <3>1, <3>2
    <3>3. CASE p # q
      BY <2>3, <3>1, <3>3
    <3> QED BY <3>2, <3>3
  <2> QED BY <2>5, <2>6
<1>7. Apart(ts) <=> Distinct(InOrder(ts))
  BY ApartIs DEF QueueSet
<1>8. QueueKeys(ts) = Keys(ToSet(TakeFirst(qs, n)))
  BY <1>2 DEF QueueKeys
<1> QED BY <1>1, <1>2, <1>5, <1>6, <1>7, <1>8

\* What is not kept, counted by the length that is lost.
LEMMA KeptMisses ==
  ASSUME NEW S, NEW s \in Seq(S), NEW K
  PROVE  MissesAtMost(Keys(ToSet(s)), Keys(ToSet(Kept(s, K))), Len(s) - Len(Kept(s, K)))
<1>1. PICK k : k = Kept(s, K)
  OBVIOUS
<1>2. k \in Seq(S) /\ Selects(k, s, Len(s), K) /\ ToSet(k) = ToSet(s) \cap K
  BY <1>1, KeptSelects, KeptIs
<1>3. PICK n \in Nat, l \in Nat : n = Len(s) /\ l = Len(k)
  BY <1>2, LenProperties
<1>4. PICK J : J = {j \in 1..n : s[j] \notin K}
  OBVIOUS
<1>5. Cardinality(J) = n - l
  BY <1>2, <1>3, <1>4 DEF Selects
<1>6. IsFiniteSet(J)
  <2>1. IsFiniteSet(1..n)
    BY FS_Interval
  <2> QED BY <1>4, <2>1, FS_Subset
<1>7. PICK X : X = {Key(s[j]) : j \in J}
  OBVIOUS
<1> DEFINE f == [j \in J |-> Key(s[j])]
<1>8. f \in Surjection(J, X)
  <2>1. f \in [J -> X] /\ \A y \in X : \E j \in J : f[j] = y
    BY <1>7
  <2> HIDE DEF f
  <2> QED BY <2>1, Zenon DEF Surjection
<1>9. IsFiniteSet(X) /\ Cardinality(X) <= n - l
  <2>1. IsFiniteSet(X) /\ Cardinality(X) <= Cardinality(J)
    BY <1>6, <1>8, FS_Surjection
  <2> QED BY <1>5, <2>1
<1>10. Keys(ToSet(s)) \subseteq Keys(ToSet(k)) \cup X
  <2> SUFFICES ASSUME NEW e \in ToSet(s), Key(e) \notin X
               PROVE  Key(e) \in Keys(ToSet(k))
    BY DEF Keys
  <2>1. PICK j \in 1..n : e = s[j]
    BY <1>3, SetOf
  <2>2. e \in K
    BY <1>4, <1>7, <2>1
  <2> QED BY <1>2, <2>2 DEF Keys
<1> QED BY <1>1, <1>3, <1>9, <1>10 DEF MissesAtMost

\* No key is in two places of the collector, and the dedup knows them all.
HeldApart ==
  /\ Distinct(store) /\ Distinct(aggregated)
  /\ Keys(ToSet(store)) \cap Keys(ToSet(aggregated)) = {}
  /\ ApartFrom(Intake, Keys(ToSet(store)) \cup Keys(ToSet(aggregated)))

HeldKeys == QueueKeys(queues) \cup Keys(ToSet(store)) \cup Keys(ToSet(aggregated))

\* A tick moves keys on from queue to window, and counts as late what it leaves behind.
LEMMA TickMisses ==
  ASSUME TypeInv, CollectorTick
  PROVE  MissesAtMost(HeldKeys, HeldKeys', late' - late)
<1>1. PICK qs \in QueueSet : qs = queues
  BY DEF TypeInv, CollectorInv, IngestOK, Intake, IngestSet
<1>2. PICK us : us = queues' /\ us = LeaveRest(qs, DrainMax)
  BY <1>1, TickAssigns
<1>3. PICK dr \in Seq(EventSet) : dr = Drained /\ dr = TakeFirst(qs, DrainMax)
  BY <1>1, TickIs DEF Drained
<1>4. PICK st \in Seq(EventSet), on \in Seq(EventSet), ar \in Seq(EventSet) :
        st = store /\ on = OnTime /\ ar = Arrived
  BY TickIs DEF TypeInv, CollectorInv
<1>5. PICK ag, st1, ag1 : ag = aggregated /\ st1 = store' /\ ag1 = aggregated'
  OBVIOUS
<1>6. PICK C, W, L : C = Closing /\ W = {e \in ToSet(ar) : e.t \in C}
                     /\ L = {e \in ToSet(ar) : e.t \notin C}
  OBVIOUS
<1>7. PICK q, u, d, s, a, o : /\ q = QueueKeys(qs) /\ u = QueueKeys(us) /\ d = Keys(ToSet(dr))
                              /\ s = Keys(ToSet(st)) /\ a = Keys(ToSet(ag)) /\ o = Keys(ToSet(on))
  OBVIOUS
<1>8. q = d \cup u
  <2>1. QueueKeys(qs) = Keys(ToSet(TakeFirst(qs, DrainMax))) \cup QueueKeys(LeaveRest(qs, DrainMax))
    BY CutApart, Constants
  <2> QED BY <1>2, <1>3, <1>7, <2>1
<1>9. PICK n : n = Len(dr) - Len(on)
  OBVIOUS
<1>10. MissesAtMost(d, o, n)
  <2>1. PICK K : K = {e \in ToSet(dr) : ~IsLate(e)}
    OBVIOUS
  <2>2. on = Kept(dr, K)
    BY <1>3, <1>4, <2>1 DEF OnTime
  <2> QED BY <1>7, <1>9, <2>2, KeptMisses
<1>11. ToSet(ar) = ToSet(st) \cup ToSet(on)
  <2>1. ar = st \o on
    BY <1>4 DEF Arrived
  <2> QED BY <2>1, SetOfConcat
<1>12. ToSet(st1) = L
  <2>1. st1 = Kept(ar, L)
    BY <1>4, <1>5, <1>6, TickAssigns
  <2>2. ToSet(st1) = ToSet(ar) \cap L
    BY <2>1, KeptIs
  <2> QED BY <1>6, <2>2
<1>13. ToSet(ag1) = ToSet(ag) \cup W
  <2>1. PICK apart \in BOOLEAN : apart = FALSE
    OBVIOUS
  <2>2. ToSet(Built.events) = ToSet(aggregated) \cup {e \in ToSet(Arrived) : e.t \in Closing}
    BY <2>1, BuiltKeys
  <2>3. aggregated' = Built.events
    BY TickAssigns
  <2> QED BY <1>4, <1>5, <1>6, <2>2, <2>3
<1>14. PICK s1, a1, h, h1, z : /\ s1 = Keys(ToSet(st1)) /\ a1 = Keys(ToSet(ag1))
                               /\ h = HeldKeys /\ h1 = HeldKeys' /\ z = (u \cup s) \cup a
  OBVIOUS
<1>15. h = (q \cup s) \cup a /\ h1 = (u \cup s1) \cup a1
  BY <1>1, <1>2, <1>4, <1>5, <1>7, <1>14 DEF HeldKeys
<1>16. s \cup o \subseteq s1 \cup a1 /\ a \subseteq a1
  <2>1. ToSet(st) \cup ToSet(on) \subseteq ToSet(st1) \cup ToSet(ag1)
    BY <1>6, <1>11, <1>12, <1>13
  <2> QED BY <1>7, <1>13, <1>14, <2>1 DEF Keys
<1>17. h \subseteq d \cup z /\ o \cup z \subseteq h1
  BY <1>8, <1>14, <1>15, <1>16
<1>18. MissesAtMost(h, h1, n)
  BY <1>10, <1>17, MissesMore
<1>19. late' - late = n
  <2>1. late' = late + Len(dr) - Len(on) /\ late \in Nat /\ Len(dr) \in Nat /\ Len(on) \in Nat
    BY <1>3, <1>4, TickAssigns, LenProperties DEF TypeInv, CollectorInv
  <2> QED BY <1>9, <2>1
<1> QED BY <1>14, <1>18, <1>19

\* It moves each to one place.
LEMMA TickKeys ==
  ASSUME TypeInv, CollectorTick, HeldApart
  PROVE  HeldApart'
<1>1. PICK qs \in QueueSet : qs = queues
  BY DEF TypeInv, CollectorInv, IngestOK, Intake, IngestSet
<1>2. PICK us : us = queues' /\ us = LeaveRest(qs, DrainMax)
  BY <1>1, TickAssigns
<1>3. PICK dr \in Seq(EventSet) : dr = Drained /\ dr = TakeFirst(qs, DrainMax)
  BY <1>1, TickIs DEF Drained
<1>4. PICK st \in Seq(EventSet), ag \in Seq(EventSet) : st = store /\ ag = aggregated
  BY DEF TypeInv, CollectorInv
<1>5. PICK on \in Seq(EventSet), ar \in Seq(EventSet) : on = OnTime /\ ar = Arrived
  BY TickIs
<1>6. PICK C : C = Closing
  OBVIOUS
<1>7. PICK q, u, d, s, a, o, r : /\ q = QueueKeys(qs) /\ u = QueueKeys(us) /\ d = Keys(ToSet(dr))
                                 /\ s = Keys(ToSet(st)) /\ a = Keys(ToSet(ag))
                                 /\ o = Keys(ToSet(on)) /\ r = Keys(ToSet(ar))
  OBVIOUS
<1>8. /\ Apart(qs) /\ Distinct(st) /\ Distinct(ag) /\ s \cap a = {} /\ q \cap (s \cup a) = {}
      /\ (s \cup a) \cup q \subseteq ToSet(seen)
  BY <1>1, <1>4, <1>7 DEF HeldApart, ApartFrom, Intake
<1>9. q = d \cup u /\ Distinct(dr) /\ Apart(us) /\ d \cap u = {}
  <2>1. /\ QueueKeys(qs) = Keys(ToSet(TakeFirst(qs, DrainMax)))
                            \cup QueueKeys(LeaveRest(qs, DrainMax))
        /\ Apart(qs) => /\ Distinct(TakeFirst(qs, DrainMax)) /\ Apart(LeaveRest(qs, DrainMax))
                        /\ Keys(ToSet(TakeFirst(qs, DrainMax)))
                             \cap QueueKeys(LeaveRest(qs, DrainMax)) = {}
    BY CutApart, Constants
  <2> QED BY <1>2, <1>3, <1>7, <1>8, <2>1
<1>10. Distinct(on) /\ o \subseteq d
  <2>1. PICK K : K = {e \in ToSet(dr) : ~IsLate(e)}
    OBVIOUS
  <2>2. on = Kept(dr, K)
    BY <1>3, <1>5, <2>1 DEF OnTime
  <2>3. Distinct(on) /\ ToSet(on) = ToSet(dr) \cap K
    BY <1>9, <2>2, DistinctKept, KeptIs
  <2>4. o \subseteq d
    BY <1>7, <2>3 DEF Keys
  <2> QED BY <2>3, <2>4
<1>11. Distinct(ar) /\ r = s \cup o
  <2>1. ar = st \o on
    BY <1>4, <1>5 DEF Arrived
  <2>2. Distinct(st \o on)
    <3>1. Keys(ToSet(st)) \cap Keys(ToSet(on)) = {}
      BY <1>7, <1>8, <1>9, <1>10
    <3> QED BY <1>8, <1>10, <3>1, DistinctConcat
  <2>3. ToSet(st \o on) = ToSet(st) \cup ToSet(on)
    BY SetOfConcat
  <2> QED BY <1>7, <2>1, <2>2, <2>3, KeysOfUnion
<1>12. r \cap a = {}
  BY <1>8, <1>9, <1>10, <1>11
<1>13. PICK st1, ag1 : st1 = store' /\ ag1 = aggregated'
  OBVIOUS
<1>14. Distinct(st1) /\ ToSet(st1) = {e \in ToSet(ar) : e.t \notin C}
  <2>1. PICK K : K = {e \in ToSet(ar) : e.t \notin C}
    OBVIOUS
  <2>2. st1 = Kept(ar, K)
    BY <1>5, <1>6, <1>13, <2>1, TickAssigns
  <2>3. Distinct(st1) /\ ToSet(st1) = ToSet(ar) \cap K
    BY <1>11, <2>2, DistinctKept, KeptIs
  <2> QED BY <2>1, <2>3
<1>15. Distinct(ag1) /\ ToSet(ag1) = ToSet(ag) \cup {e \in ToSet(ar) : e.t \in C}
  <2>1. /\ Distinct(Arrived) /\ Distinct(aggregated)
        /\ Keys(ToSet(Arrived)) \cap Keys(ToSet(aggregated)) = {}
    BY <1>4, <1>5, <1>7, <1>8, <1>11, <1>12
  <2>2. PICK apart \in BOOLEAN : apart = TRUE
    OBVIOUS
  <2>3. /\ Distinct(Built.events)
        /\ ToSet(Built.events) = ToSet(aggregated) \cup {e \in ToSet(Arrived) : e.t \in Closing}
    BY <2>1, <2>2, BuiltKeys
  <2>4. aggregated' = Built.events
    BY TickAssigns
  <2> QED BY <1>4, <1>5, <1>6, <1>13, <2>3, <2>4
<1>16. PICK s1, a1, g : /\ s1 = Keys(ToSet(st1)) /\ a1 = Keys(ToSet(ag1))
                        /\ g = Keys({e \in ToSet(ar) : e.t \in C})
  OBVIOUS
<1>17. a1 = a \cup g
  BY <1>7, <1>15, <1>16, KeysOfUnion
<1>18. s1 \cup g = r /\ s1 \cap g = {}
  <2>1. s1 \cup g = r
    BY <1>7, <1>14, <1>16 DEF Keys
  <2>2. ASSUME NEW x \in s1, x \in g
        PROVE  FALSE
    <3>1. PICK e \in ToSet(st1) : x = Key(e)
      BY <1>16 DEF Keys
    <3>2. PICK f \in ToSet(ar) : x = Key(f) /\ f.t \in C
      BY <1>16, <2>2 DEF Keys
    <3>3. e \in ToSet(ar) /\ e.t \notin C
      BY <1>14
    <3>4. e = f
      BY <1>11, <3>1, <3>2, <3>3, DistinctIs
    <3> QED BY <3>2, <3>3, <3>4
  <2> QED BY <2>1, <2>2
<1>19. s1 \cap a1 = {} /\ u \cap (s1 \cup a1) = {} /\ (s1 \cup a1) \cup u \subseteq ToSet(seen)
  <2>1. s1 \subseteq r /\ g \subseteq r /\ r \subseteq s \cup d
    BY <1>10, <1>11, <1>18
  <2> QED BY <1>8, <1>9, <1>12, <1>17, <1>18, <2>1
<1>20. seen' = seen
  BY TickAssigns
<1>21. ApartFrom(Intake, Keys(ToSet(store)) \cup Keys(ToSet(aggregated)))'
  BY <1>2, <1>7, <1>9, <1>13, <1>16, <1>19, <1>20 DEF ApartFrom, Intake
<1> QED BY <1>13, <1>14, <1>15, <1>16, <1>19, <1>21 DEF HeldApart

-----------------------------------------------------------------------------
(* The collector holds no event twice *)

LEMMA HeldApartIs ==
  ASSUME TypeInv, HeldApart
  PROVE  IsInjective(InOrder(queues) \o store \o aggregated)
<1>1. PICK qs \in QueueSet : qs = queues
  BY DEF TypeInv, CollectorInv, IngestOK, Intake, IngestSet
<1>2. PICK q \in Seq(EventSet) : q = InOrder(qs)
  BY QueuesInOrder DEF QueueSet
<1>3. PICK s \in Seq(EventSet), a \in Seq(EventSet) : s = store /\ a = aggregated
  BY DEF TypeInv, CollectorInv
<1>4. Distinct(q)
  <2>1. Apart(qs)
    BY <1>1 DEF HeldApart, ApartFrom, Intake
  <2> QED BY <1>2, <2>1, ApartIs DEF QueueSet
<1>5. /\ Distinct(s) /\ Distinct(a) /\ Keys(ToSet(s)) \cap Keys(ToSet(a)) = {}
      /\ Keys(ToSet(q)) \cap (Keys(ToSet(s)) \cup Keys(ToSet(a))) = {}
  BY <1>1, <1>2, <1>3 DEF HeldApart, ApartFrom, Intake, QueueKeys
<1>6. PICK u \in Seq(EventSet) : u = q \o s
  BY ConcatProperties
<1>7. Distinct(u) /\ Keys(ToSet(u)) = Keys(ToSet(q)) \cup Keys(ToSet(s))
  <2>1. Distinct(q \o s)
    BY <1>4, <1>5, DistinctConcat
  <2>2. ToSet(u) = ToSet(q) \cup ToSet(s)
    BY <1>6, SetOfConcat
  <2> QED BY <1>6, <2>1, <2>2, KeysOfUnion
<1>8. PICK v \in Seq(EventSet) : v = u \o a
  BY ConcatProperties
<1>9. Distinct(v)
  <2>1. Keys(ToSet(u)) \cap Keys(ToSet(a)) = {}
    BY <1>5, <1>7
  <2>2. Distinct(u \o a)
    BY <1>5, <1>7, <2>1, DistinctConcat
  <2> QED BY <1>8, <2>2
<1>10. IsInjective(v)
  BY <1>9, DistinctIs
<1> QED BY <1>1, <1>2, <1>3, <1>6, <1>8, <1>10

LEMMA NothingHeld ==
  ASSUME NEW q, NEW a, NEW s, NEW d, NEW k, q = NoEvents, a = <<>>, s = <<>>, k = <<>>
  PROVE  /\ Distinct(s) /\ Distinct(a) /\ Keys(ToSet(s)) \cap Keys(ToSet(a)) = {}
         /\ ApartFrom([seen |-> k, queues |-> q, dropped |-> d],
                      Keys(ToSet(s)) \cup Keys(ToSet(a)))
         /\ QueueKeys(q) = {} /\ Keys(ToSet(s)) = {}
<1>1. Len(<<>>) = 0 /\ ToSet(<<>>) = {} /\ <<>> \in Seq(EventSet)
  BY EmptySeq DEF ToSet
<1>2. Keys({}) = {}
  BY DEF Keys
<1>3. Distinct(<<>>)
  BY <1>1 DEF Distinct
<1>4. NoEvents \in QueueSet /\ \A p \in Priorities : NoEvents[p] = <<>>
  BY <1>1 DEF NoEvents, QueueSet
<1>5. Apart(NoEvents)
  BY <1>1, <1>2, <1>3, <1>4 DEF Apart
<1>6. QueueKeys(NoEvents) = {}
  <2>1. QueueKeys(NoEvents) = UNION {Keys(ToSet(NoEvents[p])) : p \in Priorities}
    BY <1>4, ApartIs DEF QueueSet
  <2>2. \A p \in Priorities : Keys(ToSet(NoEvents[p])) = {}
    BY <1>1, <1>2, <1>4
  <2> QED BY <2>1, <2>2
<1> QED BY <1>1, <1>2, <1>3, <1>5, <1>6 DEF ApartFrom

LEMMA ReceiveKeys ==
  ASSUME RoomyDedup, TypeInv, HeldApart, NEW m \in wire, Receive(m)
  PROVE  /\ HeldApart'
         /\ ToSet(seen') = ToSet(seen) \cup Keys(ToSet(m.events))
<1>1. PICK evs \in Seq(EventSet) : evs = m.events
  BY DEF TypeInv, NetInv, MsgSet
<1>2. IngestOK(Intake) /\ CollectorInv /\ Ingest(evs)
  BY <1>1 DEF Receive, TypeInv, CollectorInv
<1>3. PICK R : R = Keys(ToSet(store)) \cup Keys(ToSet(aggregated))
  OBVIOUS
<1>4. ApartFrom(Intake, R)
  BY <1>3 DEF HeldApart
<1>5. Intake' = Ingested(evs)
  BY <1>2, IngestTypes
<1>6. /\ ToSet(Ingested(evs).seen) = ToSet(seen) \cup Keys(ToSet(evs))
      /\ ApartFrom(Ingested(evs), R)
  BY <1>2, <1>4, IngestKeys
<1>7. store' = store /\ aggregated' = aggregated
  BY <1>2 DEF Ingest
<1>8. ApartFrom(Intake', R)
  BY <1>5, <1>6
<1>9. Intake'.seen = seen'
  BY DEF Intake
<1>10. HeldApart'
  BY <1>3, <1>7, <1>8 DEF HeldApart
<1> QED BY <1>1, <1>5, <1>6, <1>8, <1>9, <1>10

LEMMA HeldApartAlways ==
  ASSUME RoomyDedup
  PROVE  Spec => []HeldApart
<1>1. Init => HeldApart
  <2> SUFFICES ASSUME Init PROVE HeldApart
    OBVIOUS
  <2>1. seen = <<>> /\ queues = NoEvents /\ store = <<>> /\ aggregated = <<>>
    BY DEF Init, CollectorInit
  <2> QED BY <2>1, NothingHeld DEF HeldApart, Intake
<1>2. TypeInv /\ HeldApart /\ [Next]_vars => HeldApart'
  <2> SUFFICES ASSUME TypeInv, HeldApart, [Next]_vars PROVE HeldApart'
    OBVIOUS
  <2>1. CASE UNCHANGED collectorVars
    BY <2>1 DEF HeldApart, Intake, collectorVars
  <2>2. ASSUME NEW m \in wire, Receive(m) PROVE HeldApart'
    BY <2>2, ReceiveKeys
  <2>3. CASE Tick
    BY <2>3, TickKeys DEF Tick
  <2>4. CASE Reset
    <3>1. seen' = <<>> /\ queues' = NoEvents /\ store' = <<>> /\ aggregated' = <<>>
      BY <2>4 DEF Reset, CollectorReset
    <3> QED BY <3>1, NothingHeld DEF HeldApart, Intake
  <2>5. [Next]_vars => \/ UNCHANGED collectorVars \/ Tick \/ Reset
                       \/ \E m \in wire : Receive(m)
    BY DEF Next, Produce, Send, Fail, Restart, Answer, ClockTick, vars
  <2> QED BY <2>1, <2>2, <2>3, <2>4, <2>5
<1> QED BY <1>1, <1>2, TypesAlways, PTL DEF Spec

\* Whatever is replayed, overtaken or sent again under an old number, the collector never
\* holds an event twice, provided the dedup has room for every number the services give out
\* (Dedup.filter over the emitter's retries).
THEOREM ReplayChangesNothingAlways ==
  ASSUME RoomyDedup
  PROVE  Spec => []ReplayChangesNothing
<1>1. TypeInv /\ HeldApart => ReplayChangesNothing
  BY HeldApartIs DEF ReplayChangesNothing
<1> QED BY <1>1, TypesAlways, HeldApartAlways, PTL

-----------------------------------------------------------------------------
(* Nothing is lost unnoticed *)

EmKeys(em) == Keys(ToSet(em.retained)) \cup Keys(ToSet(em.posting)) \cup QueueKeys(em.rings)

\* The keys the services have given out, those their emitters hold, and those of posts that
\* have been answered though nobody has read the answer.
GivenOut     == {k \in KeySet : k[2] < emitters[k[1]].seq}
UnsentKeys   == UNION {EmKeys(emitters[s]) : s \in Services}
AnsweredKeys == UNION {Keys(ToSet(emitters[r.svc].posting)) :
                         r \in {x \in replies : x.post = emitters[x.svc].post}}
GivenUp      == SumFunction(dropped) + late
                + SumFunction([s \in Services |-> emitters[s].localDrops + emitters[s].shedDrops])

\* A post under way is the newest of its service, and what travels under its number is what
\* it posted. What is retained has been merged into it.
PostOK(em, m) == m.post <= em.post /\ (m.post = em.post /\ em.posting # <<>> => m.events = em.posting)
PostInv ==
  /\ \A s \in Services : emitters[s].posting # <<>> => emitters[s].retained = <<>>
  /\ \A m \in wire : PostOK(emitters[m.svc], m)
  /\ \A r \in replies : r.post <= emitters[r.svc].post

\* The keys the collector remembers, those an emitter may forget at any time, and those that
\* none holds any more: it holds them all but for what some counter has counted. A key the
\* dedup forgot may be admitted again: that takes nothing from what is held.
Passed    == ToSet(seen) \cup AnsweredKeys \cup (GivenOut \ UnsentKeys)
Accounted == MissesAtMost(Passed, HeldKeys, GivenUp)

LossInv == Undisturbed => (PostInv /\ Accounted)

\* d takes the place of em in the emitter of s.
Replaces(s, em, d) ==
  /\ em = emitters[s] /\ EmitterOK(em) /\ EmitterOK(d) /\ emitters'[s] = d
  /\ \A x \in Services : x # s => emitters'[x] = emitters[x]
  /\ emitters' \in [Services -> EmitterSet] /\ emitters \in [Services -> EmitterSet]

LEMMA ReplacesIs ==
  ASSUME TypeInv, NEW s \in Services, NEW d, EmitterOK(d), emitters' = [emitters EXCEPT ![s] = d]
  PROVE  Replaces(s, emitters[s], d)
<1>1. emitters \in [Services -> EmitterSet] /\ EmitterOK(emitters[s])
  BY DEF TypeInv, EmittersInv
<1>2. d \in EmitterSet
  BY DEF EmitterOK
<1>3. /\ emitters' \in [Services -> EmitterSet] /\ emitters'[s] = d
      /\ \A x \in Services : x # s => emitters'[x] = emitters[x]
  BY <1>1, <1>2
<1> QED BY <1>1, <1>3 DEF Replaces

LEMMA GivenOutStep ==
  ASSUME NEW s \in Services, NEW em, NEW d, Replaces(s, em, d)
  PROVE  /\ d.seq = em.seq => GivenOut' = GivenOut
         /\ d.seq = em.seq + 1 /\ <<s, em.seq>> \in KeySet =>
              GivenOut' = GivenOut \cup {<<s, em.seq>>} /\ <<s, em.seq>> \notin GivenOut
<1>1. \A k \in KeySet : k[1] \in Services /\ k[2] \in Int /\ k = <<k[1], k[2]>>
  <2>1. \A n \in Numbers : n \in Int
    BY Constants DEF Numbers
  <2> QED BY <2>1 DEF KeySet
<1>2. em.seq \in Nat
  BY DEF Replaces, EmitterOK, EmitterSet
<1>3. /\ \A k \in KeySet : k \in GivenOut <=> k[2] < emitters[k[1]].seq
      /\ \A k \in KeySet : k \in GivenOut' <=> k[2] < emitters'[k[1]].seq
      /\ GivenOut \subseteq KeySet /\ GivenOut' \subseteq KeySet
  BY DEF GivenOut
<1>4. ASSUME d.seq = em.seq
      PROVE  GivenOut' = GivenOut
  <2>1. \A x \in Services : emitters'[x].seq = emitters[x].seq
    BY <1>4 DEF Replaces
  <2> QED BY <1>1, <1>3, <2>1
<1>5. ASSUME d.seq = em.seq + 1, <<s, em.seq>> \in KeySet
      PROVE  GivenOut' = GivenOut \cup {<<s, em.seq>>} /\ <<s, em.seq>> \notin GivenOut
  <2>1. PICK n \in Nat : n = em.seq
    BY <1>2
  <2>2. /\ emitters[s].seq = n /\ emitters'[s].seq = n + 1
        /\ \A x \in Services : x # s => emitters'[x].seq = emitters[x].seq
    BY <1>5, <2>1 DEF Replaces
  <2>3. ASSUME NEW k \in KeySet
        PROVE  k \in GivenOut' <=> (k \in GivenOut \/ k = <<s, n>>)
    <3>1. CASE k[1] = s
      <4>1. (k[2] < n + 1) <=> (k[2] < n \/ k[2] = n)
        BY <1>1, <2>1
      <4>2. k[2] = n <=> k = <<s, n>>
        BY <1>1, <3>1
      <4> QED BY <1>3, <2>2, <3>1, <4>1, <4>2
    <3>2. CASE k[1] # s
      <4>1. k # <<s, n>>
        BY <3>2
      <4>2. emitters'[k[1]].seq = emitters[k[1]].seq
        BY <1>1, <2>2, <3>2
      <4> QED BY <1>3, <4>1, <4>2
    <3> QED BY <3>1, <3>2
  <2>4. <<s, n>> \in KeySet
    BY <1>5, <2>1
  <2>5. <<s, n>> \notin GivenOut
    <3>1. PICK k \in KeySet : k = <<s, n>>
      BY <2>4
    <3>2. ~(k[2] < emitters[k[1]].seq)
      BY <2>2, <3>1
    <3> QED BY <1>3, <3>1, <3>2
  <2>6. GivenOut' \subseteq GivenOut \cup {<<s, n>>}
    BY <1>3, <2>3
  <2>7. GivenOut \cup {<<s, n>>} \subseteq GivenOut'
    BY <1>3, <2>3, <2>4
  <2> QED BY <2>1, <2>5, <2>6, <2>7
<1> QED BY <1>4, <1>5

LEMMA GivenUpStep ==
  ASSUME TypeInv, NEW s \in Services, NEW em, NEW d, Replaces(s, em, d),
         dropped' = dropped, late' = late
  PROVE  /\ GivenUp \in Int
         /\ GivenUp' = GivenUp + ((d.localDrops + d.shedDrops) - (em.localDrops + em.shedDrops))
<1> DEFINE f == [x \in Services |-> emitters[x].localDrops + emitters[x].shedDrops]
           g == [x \in Services |-> emitters'[x].localDrops + emitters'[x].shedDrops]
<1>1. \A x \in Services :
        /\ emitters[x].localDrops \in Nat /\ emitters[x].shedDrops \in Nat
        /\ emitters'[x].localDrops \in Nat /\ emitters'[x].shedDrops \in Nat
  BY DEF Replaces, EmitterSet
<1>2. \A x \in Services : f[x] \in Nat /\ g[x] \in Nat
  BY <1>1
<1>3. f \in [Services -> Nat] /\ g \in [Services -> Nat]
  <2>1. /\ \A x \in Services : emitters[x].localDrops + emitters[x].shedDrops \in Nat
        /\ \A x \in Services : emitters'[x].localDrops + emitters'[x].shedDrops \in Nat
    BY <1>1
  <2> QED BY <2>1
<1>4. /\ \A x \in Services : x # s => g[x] = f[x]
      /\ f[s] = em.localDrops + em.shedDrops /\ g[s] = d.localDrops + d.shedDrops
  BY DEF Replaces
<1>5. PICK a \in Nat, b \in Nat : a = SumFunction(dropped) /\ b = late
  <2>1. IngestOK(Intake) /\ Intake.dropped = dropped /\ late \in Nat
    BY DEF TypeInv, CollectorInv, Intake
  <2> QED BY <2>1, DroppedIsNat
<1>6. GivenUp = a + b + SumFunction(f) /\ GivenUp' = a + b + SumFunction(g)
  BY <1>5 DEF GivenUp
<1> HIDE DEF f, g
<1>7. PICK p, q : p = f /\ q = g /\ p \in [Services -> Nat] /\ q \in [Services -> Nat]
  BY <1>3
<1>8. p \in [Services -> Int] /\ q \in [Services -> Int] /\ \A x \in Services : x # s => q[x] = p[x]
  BY <1>4, <1>7
<1>9. SumFunction(q) = SumFunction(p) + q[s] - p[s]
  BY <1>8, Constants, SumStep
<1>10. SumFunction(p) \in Nat
  BY <1>7, Constants, SumOfNats
<1>11. PICK i \in Nat, j \in Nat, k \in Nat : i = SumFunction(p) /\ j = q[s] /\ k = p[s]
  BY <1>7, <1>10
<1>12. GivenUp = a + b + i /\ GivenUp' = a + b + (i + j - k)
  BY <1>6, <1>7, <1>9, <1>11
<1>13. j = d.localDrops + d.shedDrops /\ k = em.localDrops + em.shedDrops
  BY <1>4, <1>7, <1>11
<1>14. GivenUp' = GivenUp + (j - k)
  BY <1>12
<1> QED BY <1>12, <1>13, <1>14

LEMMA UnsentStep ==
  ASSUME NEW s \in Services, NEW em, NEW d, Replaces(s, em, d), NEW Z, NEW S, NEW n,
         MissesAtMost(EmKeys(em) \cup Z, EmKeys(d) \cup S, n)
  PROVE  MissesAtMost(UnsentKeys \cup Z, UnsentKeys' \cup S, n)
<1>1. /\ UnsentKeys = UNION {EmKeys(emitters[x]) : x \in Services}
      /\ UnsentKeys' = UNION {EmKeys(emitters'[x]) : x \in Services}
  BY DEF UnsentKeys, EmKeys
<1>2. emitters[s] = em /\ emitters'[s] = d /\ \A x \in Services : x # s => emitters'[x] = emitters[x]
  BY DEF Replaces
<1>3. PICK X : /\ IsFiniteSet(X) /\ Cardinality(X) <= n
               /\ EmKeys(em) \cup Z \subseteq (EmKeys(d) \cup S) \cup X
  BY DEF MissesAtMost
<1>4. EmKeys(d) \subseteq UnsentKeys'
  BY <1>1, <1>2
<1>5. ASSUME NEW y \in UnsentKeys
      PROVE  y \in (UnsentKeys' \cup S) \cup X
  <2>1. PICK x \in Services : y \in EmKeys(emitters[x])
    BY <1>1
  <2>2. CASE x = s
    BY <1>2, <1>3, <1>4, <2>1, <2>2
  <2>3. CASE x # s
    BY <1>1, <1>2, <2>1, <2>3
  <2> QED BY <2>2, <2>3
<1>6. UnsentKeys \cup Z \subseteq (UnsentKeys' \cup S) \cup X
  BY <1>3, <1>4, <1>5
<1> QED BY <1>3, <1>6 DEF MissesAtMost

\* What one emitter gives up is counted, or passed before it was given up.
LEMMA AccountedStep ==
  ASSUME TypeInv, Accounted, NEW s \in Services, NEW em, NEW d, Replaces(s, em, d),
         UNCHANGED collectorVars, AnsweredKeys' \subseteq AnsweredKeys,
         NEW Z, GivenOut' = GivenOut \cup Z, NEW S, S \subseteq Passed,
         MissesAtMost(EmKeys(em) \cup Z, EmKeys(d) \cup S,
                      (d.localDrops + d.shedDrops) - (em.localDrops + em.shedDrops))
  PROVE  Accounted'
<1>1. seen' = seen /\ dropped' = dropped /\ late' = late /\ HeldKeys' = HeldKeys
  BY DEF collectorVars, HeldKeys
<1>2. PICK h, u, u1, p, p1, g, g1 : /\ h = HeldKeys /\ u = UnsentKeys /\ u1 = UnsentKeys'
                                    /\ p = Passed /\ p1 = Passed'
                                    /\ g = GivenOut /\ g1 = GivenOut'
  OBVIOUS
<1>3. PICK m \in Int, n \in Int :
        /\ m = GivenUp
        /\ n = (d.localDrops + d.shedDrops) - (em.localDrops + em.shedDrops)
  <2>1. /\ em.localDrops \in Nat /\ em.shedDrops \in Nat
        /\ d.localDrops \in Nat /\ d.shedDrops \in Nat
    BY DEF Replaces, EmitterOK, EmitterSet
  <2>2. (d.localDrops + d.shedDrops) - (em.localDrops + em.shedDrops) \in Int
    BY <2>1
  <2> QED BY <1>1, <2>2, GivenUpStep
<1>4. GivenUp' = m + n
  BY <1>1, <1>3, GivenUpStep
<1>5. PICK X : IsFiniteSet(X) /\ Cardinality(X) <= n /\ u \cup Z \subseteq (u1 \cup S) \cup X
  <2>1. MissesAtMost(u \cup Z, u1 \cup S, n)
    BY <1>2, <1>3, UnsentStep
  <2> QED BY <2>1 DEF MissesAtMost
<1>6. p1 \subseteq p \cup X
  <2>1. g1 = g \cup Z /\ S \subseteq p /\ g \ u \subseteq p
    BY <1>2 DEF Passed
  <2>2. p1 \subseteq p \cup (g1 \ u1)
    BY <1>1, <1>2 DEF Passed
  <2> QED BY <1>5, <2>1, <2>2
<1>7. MissesAtMost(p1, p, n)
  BY <1>5, <1>6 DEF MissesAtMost
<1>8. MissesAtMost(p, h, m)
  BY <1>2, <1>3 DEF Accounted
<1>9. MissesAtMost(p1, h, n + m)
  BY <1>7, <1>8, MissesAdd
<1>10. n + m = m + n
  OBVIOUS
<1> QED BY <1>1, <1>2, <1>4, <1>9, <1>10 DEF Accounted

\* An event is numbered: its key is new to the emitter, or its loss is counted, or that of the
\* event it displaced.
LEMMA EnqueueKeys ==
  ASSUME NEW em, EmitterOK(em), NEW e \in EventSet, NEW d, d = Enqueue(em, e)
  PROVE  /\ EmKeys(d) \subseteq EmKeys(em) \cup {Key(e)}
         /\ MissesAtMost(EmKeys(em) \cup {Key(e)}, EmKeys(d), d.localDrops - em.localDrops)
<1>1. em \in EmitterSet
  BY DEF EmitterOK
<1>2. /\ d \in EmitterSet /\ SameButRings(d, em)
      /\ Enqueued(d, em, e) \/ (d.rings = em.rings /\ d.localDrops = em.localDrops + 1)
  BY <1>1, EnqueueIs
<1>3. PICK qs \in QueueSet, us \in QueueSet, l \in Nat, l1 \in Nat :
        qs = em.rings /\ us = d.rings /\ l = em.localDrops /\ l1 = d.localDrops
  BY <1>1, <1>2 DEF EmitterSet
<1>4. PICK k, A, B, O, Q, U : /\ k = Key(e) /\ A = EmKeys(em) /\ B = EmKeys(d)
                              /\ O = Keys(ToSet(em.retained)) \cup Keys(ToSet(em.posting))
                              /\ Q = QueueKeys(qs) /\ U = QueueKeys(us)
  OBVIOUS
<1>5. A = O \cup Q /\ B = O \cup U
  BY <1>2, <1>3, <1>4 DEF EmKeys, SameButRings
<1>6. CASE Enqueued(d, em, e)
  <2>1. PICK rs \in QueueSet :
          /\ \/ rs = qs /\ l1 = l
             \/ RoomMade(rs, qs) /\ l1 = l + 1
          /\ \A p \in Priorities : us[p] = IF p = e.pri THEN Append(rs[p], e) ELSE rs[p]
    BY <1>3, <1>6 DEF Enqueued
  <2>2. PICK r \in Priorities : r = e.pri
    BY DEF EventSet
  <2>3. U = QueueKeys(rs) \cup {k}
    BY <1>4, <2>1, <2>2, AppendApart
  <2>4. CASE rs = qs /\ l1 = l
    <3>1. B \subseteq A \cup {k} /\ A \cup {k} \subseteq B
      BY <1>4, <1>5, <2>3, <2>4
    <3>2. PICK A1 : A1 = A \cup {k}
      OBVIOUS
    <3>3. MissesAtMost(A1, B, 0)
      BY <3>1, <3>2, MissesNone
    <3>4. l1 - l = 0
      BY <2>4
    <3> QED BY <1>3, <1>4, <3>1, <3>2, <3>3, <3>4
  <2>5. CASE RoomMade(rs, qs) /\ l1 = l + 1
    <3>1. PICK v \in Priorities :
            qs[v] # <<>> /\ \A p \in Priorities : rs[p] = IF p = v THEN Tail(qs[p]) ELSE qs[p]
      BY <2>5 DEF RoomMade, Priorities
    <3>2. PICK x : Q = QueueKeys(rs) \cup {x}
      <4>1. \E x : QueueKeys(qs) = QueueKeys(rs) \cup {x}
        <5>1. qs[v] # <<>> /\ \A p \in Priorities : rs[p] = IF p = v THEN Tail(qs[p]) ELSE qs[p]
          BY <3>1
        <5>2. /\ \E x : QueueKeys(qs) = QueueKeys(rs) \cup {x}
              /\ Apart(qs) => Apart(rs)
          BY ONLY <5>1, TailApart, qs \in QueueSet, rs \in QueueSet, v \in Priorities
        <5> QED BY <5>2
      <4> QED BY <1>4, <4>1
    <3>3. B \subseteq A \cup {k} /\ A \cup {k} \subseteq B \cup {x}
      BY <1>4, <1>5, <2>3, <3>2
    <3>4. PICK A1 : A1 = A \cup {k}
      OBVIOUS
    <3>5. MissesAtMost(A1, B, 1)
      BY <3>3, <3>4, MissesOne
    <3>6. l1 - l = 1
      BY <2>5
    <3> QED BY <1>3, <1>4, <3>3, <3>4, <3>5, <3>6
  <2> QED BY <2>1, <2>4, <2>5
<1>7. CASE d.rings = em.rings /\ d.localDrops = em.localDrops + 1
  <2>1. B \subseteq A \cup {k} /\ A \cup {k} \subseteq B \cup {k}
    BY <1>3, <1>4, <1>5, <1>7
  <2>2. PICK A1 : A1 = A \cup {k}
    OBVIOUS
  <2>3. MissesAtMost(A1, B, 1)
    BY <2>1, <2>2, MissesOne
  <2>4. l1 - l = 1
    BY <1>3, <1>7
  <2> QED BY <1>3, <1>4, <2>1, <2>2, <2>3, <2>4
<1> QED BY <1>2, <1>6, <1>7

\* A flush moves keys from the rings into the batch, and counts what it sheds.
LEMMA FlushKeys ==
  ASSUME NEW em, EmitterOK(em), NEW kept, NEW d, Flushed(em, kept, d)
  PROVE  /\ EmKeys(d) \subseteq EmKeys(em)
         /\ MissesAtMost(EmKeys(em), EmKeys(d), d.shedDrops - em.shedDrops)
<1>1. PICK qs \in QueueSet, re \in Seq(EventSet), po \in Seq(EventSet), m \in Nat :
        qs = em.rings /\ re = em.retained /\ po = em.posting /\ m = em.shedDrops
  BY DEF EmitterOK, EmitterSet
<1>2. PICK us, b : us = LeaveRest(qs, BatchMax) /\ b = TakeFirst(qs, BatchMax)
  OBVIOUS
<1>3. b \in Seq(EventSet)
  BY <1>1, <1>2, Constants, LeaveKeeps
<1>4. PICK k : k = Kept(b, kept)
  OBVIOUS
<1>5. k \in Seq(EventSet) /\ ToSet(k) = ToSet(b) \cap kept
  BY <1>3, <1>4, KeptIs
<1>6. /\ kept \in SUBSET ToSet(b) /\ po = <<>> /\ d.retained = <<>> /\ d.posting = re \o k
      /\ d.rings = us /\ d.shedDrops = m + Len(b) - Cardinality(kept)
  BY <1>1, <1>2, <1>4 DEF Flushed
<1>7. PICK Q, U, R, D, K : /\ Q = QueueKeys(qs) /\ U = QueueKeys(us) /\ R = Keys(ToSet(re))
                           /\ D = Keys(ToSet(b)) /\ K = Keys(ToSet(k))
  OBVIOUS
<1>8. Q = D \cup U
  BY <1>1, <1>2, <1>7, Constants, CutApart
<1>9. EmKeys(em) = R \cup Q /\ EmKeys(d) = (R \cup K) \cup U
  <2>1. Keys(ToSet(<<>>)) = {}
    BY EmptySeq DEF Keys, ToSet
  <2>2. ToSet(re \o k) = ToSet(re) \cup ToSet(k)
    BY <1>1, <1>5, SetOfConcat
  <2>3. Keys(ToSet(re \o k)) = R \cup K
    BY <1>7, <2>2, KeysOfUnion
  <2> QED BY <1>1, <1>6, <1>7, <2>1, <2>3 DEF EmKeys
<1>10. K \subseteq D
  BY <1>5, <1>7 DEF Keys
<1>11. PICK n, c : n = Len(b) /\ c = Cardinality(kept)
  OBVIOUS
<1>12. n \in Nat /\ c \in Nat
  <2>1. IsFiniteSet(ToSet(b))
    BY <1>3, SetOf
  <2>2. IsFiniteSet(kept)
    BY <1>6, <2>1, FS_Subset
  <2> QED BY <1>3, <1>11, <2>2, FS_CardinalityType, LenProperties
<1>13. MissesAtMost(D, K, n - c)
  <2>1. MissesAtMost(D, K, n - Len(k))
    BY <1>3, <1>4, <1>7, <1>11, KeptMisses
  <2>2. Len(k) \in Nat /\ c <= Len(k)
    <3>1. ToSet(k) = kept
      BY <1>5, <1>6
    <3> QED BY <1>5, <1>11, <3>1, SetOf, LenProperties
  <2>3. PICK X : IsFiniteSet(X) /\ Cardinality(X) <= n - Len(k) /\ D \subseteq K \cup X
    BY <2>1 DEF MissesAtMost
  <2>4. Cardinality(X) <= n - c
    <3>1. Cardinality(X) \in Nat
      BY <2>3, FS_CardinalityType
    <3> QED BY <1>12, <2>2, <2>3, <3>1
  <2> QED BY <2>3, <2>4 DEF MissesAtMost
<1>14. PICK z, x, y : z = R \cup U /\ x = EmKeys(em) /\ y = EmKeys(d)
  OBVIOUS
<1>15. x \subseteq D \cup z /\ K \cup z \subseteq y
  BY <1>8, <1>9, <1>14
<1>16. MissesAtMost(x, y, n - c)
  BY <1>13, <1>15, MissesMore
<1>17. d.shedDrops - em.shedDrops = n - c
  BY <1>1, <1>6, <1>11, <1>12
<1>18. y \subseteq x
  BY <1>8, <1>9, <1>10, <1>14
<1> QED BY <1>14, <1>16, <1>17, <1>18

\* Where emitters and collector stay as they are.
LEMMA UndisturbedLoss ==
  ASSUME PostInv, Accounted, UNCHANGED <<collectorVars, emitters>>,
         wire' \subseteq wire, replies' \subseteq replies
  PROVE  PostInv' /\ Accounted' /\ AnsweredKeys' \subseteq AnsweredKeys
<1>1. seen' = seen /\ dropped' = dropped /\ late' = late /\ HeldKeys' = HeldKeys
  BY DEF collectorVars, HeldKeys
<1>2. GivenOut' = GivenOut /\ UnsentKeys' = UnsentKeys /\ GivenUp' = GivenUp
  BY <1>1 DEF GivenOut, UnsentKeys, GivenUp
<1>3. AnsweredKeys' \subseteq AnsweredKeys
  BY DEF AnsweredKeys
<1>4. PostInv'
  BY DEF PostInv
<1>5. Accounted'
  <2>1. PICK p, p1, h, z, n : /\ p = Passed /\ p1 = Passed' /\ h = HeldKeys
                              /\ z = {} /\ n = GivenUp
    OBVIOUS
  <2>2. p1 \subseteq p \cup z /\ h \cup z \subseteq h
    BY <1>1, <1>2, <1>3, <2>1 DEF Passed
  <2>3. MissesAtMost(p, h, n)
    BY <2>1 DEF Accounted
  <2>4. MissesAtMost(p1, h, n)
    BY <2>2, <2>3, MissesMore
  <2> QED BY <1>1, <1>2, <2>1, <2>4 DEF Accounted
<1> QED BY <1>3, <1>4, <1>5

\* A post under way may go on, or end, while its service sends no other.
LEMMA PostKept ==
  ASSUME TypeInv, PostInv, NEW s \in Services, NEW em, NEW d, Replaces(s, em, d),
         d.post = em.post,
         d.posting = <<>> \/ (d.posting = em.posting /\ d.retained = em.retained),
         wire' \subseteq wire, replies' \subseteq replies
  PROVE  PostInv' /\ AnsweredKeys' \subseteq AnsweredKeys
<1>1. /\ emitters[s] = em /\ emitters'[s] = d
      /\ \A x \in Services : x # s => emitters'[x] = emitters[x]
  BY DEF Replaces
<1>2. \A x \in Services : emitters'[x].posting # <<>> => emitters'[x].retained = <<>>
  BY <1>1 DEF PostInv
<1>3. ASSUME NEW m \in wire'
      PROVE  PostOK(emitters'[m.svc], m)
  <2>1. m \in wire /\ m.svc \in Services
    BY DEF TypeInv, NetInv, MsgSet
  <2>2. PostOK(emitters[m.svc], m)
    BY <2>1 DEF PostInv
  <2>3. CASE m.svc = s
    BY <1>1, <2>2, <2>3 DEF PostOK
  <2>4. CASE m.svc # s
    BY <1>1, <2>1, <2>2, <2>4
  <2> QED BY <2>3, <2>4
<1>4. ASSUME NEW r \in replies'
      PROVE  /\ r \in replies /\ emitters'[r.svc].post = emitters[r.svc].post
             /\ Keys(ToSet(emitters'[r.svc].posting)) \subseteq Keys(ToSet(emitters[r.svc].posting))
  <2>1. r \in replies /\ r.svc \in Services
    BY DEF TypeInv, NetInv, ReplySet
  <2>2. Keys(ToSet(<<>>)) = {}
    BY EmptySeq DEF Keys, ToSet
  <2>3. CASE r.svc = s
    BY <1>1, <2>1, <2>2, <2>3
  <2>4. CASE r.svc # s
    BY <1>1, <2>1, <2>4
  <2> QED BY <2>3, <2>4
<1>5. \A r \in replies' : r.post <= emitters'[r.svc].post
  BY <1>4 DEF PostInv
<1>6. AnsweredKeys' \subseteq AnsweredKeys
  BY <1>4 DEF AnsweredKeys
<1> QED BY <1>2, <1>3, <1>5, <1>6 DEF PostInv

LEMMA ProduceLoss ==
  ASSUME TypeInv, PostInv, Accounted, NEW s \in Services, Produce(s)
  PROVE  PostInv' /\ Accounted' /\ AnsweredKeys' \subseteq AnsweredKeys
<1>1. PICK c, e, d : Produced(s, c, e, d)
  BY ProduceIs
<1>2. PICK em : em = emitters[s]
  OBVIOUS
<1>3. EmitterOK(em) /\ EmitterOK(c) /\ EmitterOK(d) /\ e \in EventSet /\ d = Enqueue(c, e)
  BY <1>1, <1>2 DEF Produced, TypeInv, EmittersInv
<1>4. Replaces(s, em, d)
  BY <1>1, <1>2, <1>3, ReplacesIs DEF Produced
<1>5. /\ c.seq = em.seq /\ c.rings = em.rings /\ c.retained = em.retained
      /\ c.posting = em.posting /\ c.post = em.post
      /\ c.localDrops = em.localDrops /\ c.shedDrops = em.shedDrops
  BY <1>1, <1>2 DEF Produced
<1>6. d.seq = c.seq + 1 /\ SameButRings(d, c)
  <2>1. c \in EmitterSet
    BY <1>3 DEF EmitterOK
  <2> QED BY <1>3, <2>1, EnqueueIs
<1>7. PICK Z, S : Z = {Key(e)} /\ S = {}
  OBVIOUS
<1>8. Key(e) = <<s, em.seq>> /\ <<s, em.seq>> \in KeySet
  <2>1. Key(e) = <<s, em.seq>>
    BY <1>1, <1>5 DEF Produced, Key
  <2> QED BY <1>3, <2>1, KeyType
<1>9. GivenOut' = GivenOut \cup Z
  BY <1>4, <1>5, <1>6, <1>7, <1>8, GivenOutStep
<1>10. EmKeys(c) = EmKeys(em)
  BY <1>5 DEF EmKeys
<1>11. MissesAtMost(EmKeys(em) \cup Z, EmKeys(d), d.localDrops - em.localDrops)
  BY <1>3, <1>5, <1>7, <1>10, EnqueueKeys
<1>12. UNCHANGED <<now, collectorVars, wire, replies, lives, posts, resets>>
  BY DEF Produce
<1>13. PostInv' /\ AnsweredKeys' \subseteq AnsweredKeys
  <2>1. d.post = em.post /\ d.posting = em.posting /\ d.retained = em.retained
    BY <1>5, <1>6 DEF SameButRings
  <2>2. wire' = wire /\ replies' = replies
    BY <1>12
  <2> QED BY <1>4, <2>1, <2>2, PostKept
<1>14. Accounted'
  <2>1. PICK n : n = (d.localDrops + d.shedDrops) - (em.localDrops + em.shedDrops)
    OBVIOUS
  <2>2. n = d.localDrops - em.localDrops
    <3>1. d.shedDrops = em.shedDrops
      BY <1>5, <1>6 DEF SameButRings
    <3>2. /\ em.localDrops \in Nat /\ em.shedDrops \in Nat /\ d.localDrops \in Nat
      BY <1>3 DEF EmitterOK, EmitterSet
    <3> QED BY <2>1, <3>1, <3>2
  <2>3. EmKeys(d) \cup S = EmKeys(d) /\ S \subseteq Passed /\ UNCHANGED collectorVars
    BY <1>7, <1>12
  <2>4. MissesAtMost(EmKeys(em) \cup Z, EmKeys(d) \cup S, n)
    BY <1>11, <2>2, <2>3
  <2> QED BY <1>4, <1>9, <1>13, <2>1, <2>3, <2>4, AccountedStep
<1> QED BY <1>13, <1>14

LEMMA SendLoss ==
  ASSUME TypeInv, PostInv, Accounted, NEW s \in Services, Send(s)
  PROVE  PostInv' /\ Accounted' /\ AnsweredKeys' \subseteq AnsweredKeys
<1>1. /\ Flush(s) /\ emitters \in [Services -> EmitterSet] /\ EmitterOK(emitters[s])
  BY DEF Send, TypeInv, EmittersInv
<1>2. PICK d, kept : /\ emitters' = [emitters EXCEPT ![s] = d]
                     /\ Flushed(emitters[s], kept, d) /\ EmitterOK(d)
  BY <1>1, FlushIs
<1>3. PICK em : em = emitters[s]
  OBVIOUS
<1>4. Replaces(s, em, d)
  BY <1>2, <1>3, ReplacesIs
<1>5. /\ em.posting = <<>> /\ d.seq = em.seq /\ d.retained = <<>>
      /\ d.post = em.post + (IF d.posting = <<>> THEN 0 ELSE 1) /\ d.localDrops = em.localDrops
  BY <1>2, <1>3 DEF Flushed
<1>6. PICK p \in Nat, q \in Nat : p = em.post /\ q = d.post
  BY <1>1, <1>2, <1>3 DEF EmitterOK, EmitterSet
<1>7. MissesAtMost(EmKeys(em), EmKeys(d), d.shedDrops - em.shedDrops)
  BY <1>1, <1>2, <1>3, FlushKeys
<1>8. UNCHANGED <<now, collectorVars, replies, lives, events, resets>>
  BY DEF Send
<1>9. PICK m : m = [svc |-> s, life |-> lives[s], post |-> d.post, events |-> d.posting]
  OBVIOUS
<1>10. wire' = wire \cup IF d.posting = <<>> THEN {} ELSE {m}
  <2>1. emitters'[s] = d
    BY <1>4 DEF Replaces
  <2> QED BY <1>9, <2>1 DEF Send
<1>11. GivenOut' = GivenOut
  BY <1>4, <1>5, GivenOutStep
<1>12. PostInv' /\ AnsweredKeys' \subseteq AnsweredKeys
  <2>1. /\ emitters'[s] = d /\ \A x \in Services : x # s => emitters'[x] = emitters[x]
    BY <1>4 DEF Replaces
  <2>2. \A x \in Services : emitters'[x].posting # <<>> => emitters'[x].retained = <<>>
    BY <1>5, <2>1 DEF PostInv
  <2>3. p <= q /\ (d.posting # <<>> => p < q)
    BY <1>5, <1>6
  <2>4. ASSUME NEW w \in wire'
        PROVE  PostOK(emitters'[w.svc], w)
    <3>1. CASE w \in wire
      <4>1. w.svc \in Services /\ PostOK(emitters[w.svc], w) /\ w.post \in Nat
        BY <3>1 DEF TypeInv, NetInv, MsgSet, PostInv
      <4>2. CASE w.svc = s
        <5>1. w.post <= p
          BY <1>3, <1>6, <4>1, <4>2 DEF PostOK
        <5>2. w.post <= q /\ (d.posting # <<>> => w.post # q)
          BY <2>3, <4>1, <5>1
        <5> QED BY <1>6, <2>1, <4>2, <5>2 DEF PostOK
      <4>3. CASE w.svc # s
        BY <2>1, <4>1, <4>3
      <4> QED BY <4>2, <4>3
    <3>2. CASE w = m
      <4>1. w.svc = s /\ w.post = q /\ w.events = d.posting /\ q <= q
        BY <1>6, <1>9, <3>2
      <4> QED BY <1>6, <2>1, <4>1 DEF PostOK
    <3> QED BY <1>10, <3>1, <3>2
  <2>5. ASSUME NEW r \in replies'
        PROVE  /\ r \in replies /\ r.post <= emitters'[r.svc].post
               /\ r.post = emitters'[r.svc].post =>
                    /\ r.post = emitters[r.svc].post
                    /\ Keys(ToSet(emitters'[r.svc].posting))
                         \subseteq Keys(ToSet(emitters[r.svc].posting))
    <3>1. r \in replies
      BY <1>8
    <3>2. r.svc \in Services /\ r.post <= emitters[r.svc].post /\ r.post \in Nat
      BY <3>1 DEF TypeInv, NetInv, ReplySet, PostInv
    <3>3. CASE r.svc = s
      <4>1. emitters[r.svc] = em /\ emitters'[r.svc] = d
        BY <1>3, <2>1, <3>3
      <4>2. r.post <= q /\ (d.posting # <<>> => r.post # q)
        BY <1>6, <2>3, <3>2, <4>1
      <4>3. Keys(ToSet(<<>>)) = {}
        BY EmptySeq DEF Keys, ToSet
      <4>4. d.posting = <<>> => p = q
        BY <1>5, <1>6
      <4> QED BY <1>6, <3>1, <4>1, <4>2, <4>3, <4>4
    <3>4. CASE r.svc # s
      <4>1. emitters'[r.svc] = emitters[r.svc]
        BY <2>1, <3>2, <3>4
      <4> QED BY <3>1, <3>2, <4>1
    <3> QED BY <3>3, <3>4
  <2>6. AnsweredKeys' \subseteq AnsweredKeys
    BY <2>5 DEF AnsweredKeys
  <2>7. \A r \in replies' : r.post <= emitters'[r.svc].post
    BY <2>5
  <2> QED BY <2>2, <2>4, <2>6, <2>7 DEF PostInv
<1>13. Accounted'
  <2>1. PICK n : n = (d.localDrops + d.shedDrops) - (em.localDrops + em.shedDrops)
    OBVIOUS
  <2>2. n = d.shedDrops - em.shedDrops
    <3>1. em.localDrops \in Nat /\ em.shedDrops \in Nat /\ d.shedDrops \in Nat
      BY <1>1, <1>2, <1>3 DEF EmitterOK, EmitterSet
    <3> QED BY <1>5, <2>1, <3>1
  <2>3. PICK z : z = {}
    OBVIOUS
  <2>4. /\ EmKeys(em) \cup z = EmKeys(em) /\ EmKeys(d) \cup z = EmKeys(d) /\ z \subseteq Passed
        /\ GivenOut' = GivenOut \cup z /\ UNCHANGED collectorVars
    BY <1>8, <1>11, <2>3
  <2>5. MissesAtMost(EmKeys(em) \cup z, EmKeys(d) \cup z, n)
    BY <1>7, <2>2, <2>4
  <2> QED BY <1>4, <1>12, <2>1, <2>4, <2>5, AccountedStep
<1> QED BY <1>12, <1>13

\* An emitter that ends a post gives up no key but those of a post that was answered.
LEMMA PostEnds ==
  ASSUME TypeInv, PostInv, Accounted, NEW s \in Services,
         NEW em, NEW d, Replaces(s, em, d), UNCHANGED collectorVars,
         wire' \subseteq wire, replies' \subseteq replies,
         d.seq = em.seq, d.post = em.post, d.posting = <<>>,
         d.localDrops = em.localDrops, d.shedDrops = em.shedDrops,
         EmKeys(em) \subseteq EmKeys(d) \cup AnsweredKeys
  PROVE  PostInv' /\ Accounted' /\ AnsweredKeys' \subseteq AnsweredKeys
<1>1. PostInv' /\ AnsweredKeys' \subseteq AnsweredKeys
  BY PostKept
<1>2. Accounted'
  <2>1. PICK n : n = (d.localDrops + d.shedDrops) - (em.localDrops + em.shedDrops)
    OBVIOUS
  <2>2. n = 0
    <3>1. em.localDrops \in Nat /\ em.shedDrops \in Nat
      BY DEF Replaces, EmitterOK, EmitterSet
    <3> QED BY <2>1, <3>1
  <2>3. PICK z, S : z = {} /\ S = AnsweredKeys
    OBVIOUS
  <2>4. PICK a, b : a = EmKeys(em) \cup z /\ b = EmKeys(d) \cup S
    OBVIOUS
  <2>5. MissesAtMost(a, b, n)
    <3>1. a \subseteq b
      BY <2>3, <2>4
    <3> QED BY <2>2, <3>1, MissesNone
  <2>6. GivenOut' = GivenOut \cup z /\ S \subseteq Passed
    BY <2>3, GivenOutStep DEF Passed
  <2> QED BY <1>1, <2>1, <2>4, <2>5, <2>6, AccountedStep
<1> QED BY <1>1, <1>2

LEMMA AnswerLoss ==
  ASSUME TypeInv, PostInv, Accounted, NEW r \in replies, Answer(r)
  PROVE  PostInv' /\ Accounted' /\ AnsweredKeys' \subseteq AnsweredKeys
<1>1. UNCHANGED <<collectorVars, wire>> /\ replies' \subseteq replies
  BY DEF Answer
<1>2. PICK s \in Services : s = r.svc /\ r.level \in 0..3
  BY DEF TypeInv, NetInv, ReplySet
<1>3. CASE Awaited(r) /\ Acknowledged(r.svc, r.level)
  <2>1. PICK em : em = emitters[s] /\ EmitterOK(em)
    BY DEF TypeInv, EmittersInv
  <2>2. PICK d : d = Answered(em, r.level)
    OBVIOUS
  <2>3. /\ EmitterOK(d) /\ d.seq = em.seq /\ d.rings = em.rings
        /\ d.retained = em.retained /\ d.posting = <<>> /\ d.post = em.post
        /\ d.localDrops = em.localDrops /\ d.shedDrops = em.shedDrops
    BY <1>2, <2>1, <2>2, AcknowledgedIs
  <2>4. emitters' = [emitters EXCEPT ![s] = d]
    <3>1. emitters \in [Services -> EmitterSet]
      BY DEF TypeInv, EmittersInv
    <3> QED BY <1>2, <1>3, <2>1, <2>2, <3>1 DEF Acknowledged, Answered
  <2>5. Replaces(s, em, d)
    BY <2>1, <2>3, <2>4, ReplacesIs
  <2>6. Keys(ToSet(em.posting)) \subseteq AnsweredKeys
    BY <1>2, <1>3, <2>1 DEF Awaited, AnsweredKeys
  <2>7. EmKeys(em) \subseteq EmKeys(d) \cup AnsweredKeys
    BY <2>3, <2>6 DEF EmKeys
  <2> QED BY <1>1, <2>3, <2>5, <2>7, PostEnds
<1>4. CASE UNCHANGED emitters
  BY <1>1, <1>4, UndisturbedLoss
<1> QED BY <1>3, <1>4 DEF Answer

LEMMA FailLoss ==
  ASSUME TypeInv, PostInv, Accounted, NEW s \in Services, Fail(s)
  PROVE  PostInv' /\ Accounted' /\ AnsweredKeys' \subseteq AnsweredKeys
<1>1. PICK em : em = emitters[s] /\ EmitterOK(em)
  BY DEF TypeInv, EmittersInv
<1>2. PICK d : d = Failed(em)
  OBVIOUS
<1>3. /\ EmitterOK(d) /\ d.seq = em.seq /\ d.rings = em.rings
      /\ d.retained = em.posting /\ d.posting = <<>> /\ d.post = em.post
      /\ d.localDrops = em.localDrops /\ d.shedDrops = em.shedDrops
  BY <1>1, <1>2, FailedIs
<1>4. UNCHANGED <<collectorVars, replies>> /\ wire' \subseteq wire
  BY DEF Fail
<1>5. emitters' = [emitters EXCEPT ![s] = d]
  <2>1. emitters \in [Services -> EmitterSet]
    BY DEF TypeInv, EmittersInv
  <2> QED BY <1>1, <1>2, <2>1 DEF Fail, PostFails, Failed
<1>6. Replaces(s, em, d)
  BY <1>1, <1>3, <1>5, ReplacesIs
<1>7. em.retained = <<>>
  BY <1>1 DEF Fail, PostInv
<1>8. EmKeys(em) \subseteq EmKeys(d) \cup AnsweredKeys
  BY <1>3, <1>7 DEF EmKeys
<1> QED BY <1>3, <1>4, <1>6, <1>8, PostEnds

LEMMA GivenUpIsNat ==
  ASSUME TypeInv
  PROVE  GivenUp \in Nat
<1>1. late \in Nat /\ IngestOK(Intake)
  BY DEF TypeInv, CollectorInv
<1>2. SumFunction(dropped) \in Nat
  BY <1>1, DroppedIsNat DEF Intake
<1>3. \A x \in Services : emitters[x].localDrops \in Nat /\ emitters[x].shedDrops \in Nat
  BY DEF TypeInv, EmittersInv, EmitterSet
<1>4. [x \in Services |-> emitters[x].localDrops + emitters[x].shedDrops] \in [Services -> Nat]
  BY <1>3
<1>5. PICK f \in [Services -> Nat] :
        f = [x \in Services |-> emitters[x].localDrops + emitters[x].shedDrops]
  BY <1>4
<1>6. SumFunction(f) \in Nat
  BY Constants, SumOfNats
<1> QED BY <1>1, <1>2, <1>5, <1>6 DEF GivenUp

\* A post that arrives is answered: what the collector has not seen of it, it holds now, or
\* counts as dropped.
LEMMA ReceiveLoss ==
  ASSUME TypeInv, PostInv, Accounted, NEW m \in wire, Receive(m)
  PROVE  /\ PostInv' /\ Accounted'
         /\ AnsweredKeys' \subseteq AnsweredKeys \cup Keys(ToSet(m.events))
<1>1. PICK K, S, S1 : K = Keys(ToSet(m.events)) /\ S = ToSet(seen) /\ S1 = ToSet(seen')
  OBVIOUS
<1>2. wire' \subseteq wire /\ UNCHANGED <<now, emitters, lives, events, posts, resets>>
  BY DEF Receive
<1>3. /\ store' = store /\ aggregated' = aggregated /\ late' = late
      /\ Intake'.seen = seen' /\ Intake'.queues = queues' /\ Intake'.dropped = dropped'
  BY DEF Receive, Ingest, Intake
<1>4. S1 \subseteq S \cup K /\ Loses(Intake, K, Intake')
  <2>1. PICK evs \in Seq(EventSet) : evs = m.events
    BY DEF TypeInv, NetInv, MsgSet
  <2>2. IngestOK(Intake) /\ CollectorInv /\ Ingest(evs)
    BY <2>1 DEF Receive, TypeInv, CollectorInv
  <2>3. Intake' = Ingested(evs)
    BY <2>2, IngestTypes
  <2>4. /\ ToSet(Ingested(evs).seen) \subseteq ToSet(seen) \cup Keys(ToSet(evs))
        /\ Loses(Intake, Keys(ToSet(evs)), Ingested(evs))
    BY <2>2, IngestMisses
  <2> QED BY <1>1, <1>3, <2>1, <2>3, <2>4
<1>5. ASSUME NEW r \in replies', r \notin replies
      PROVE  /\ r.post <= emitters[r.svc].post
             /\ r.post = emitters[r.svc].post => Keys(ToSet(emitters[r.svc].posting)) \subseteq K
  <2>1. r.svc = m.svc /\ r.post = m.post
    BY <1>5 DEF Receive
  <2>2. PostOK(emitters[m.svc], m)
    BY DEF PostInv
  <2>3. Keys(ToSet(<<>>)) = {}
    BY EmptySeq DEF Keys, ToSet
  <2> QED BY <1>1, <2>1, <2>2, <2>3 DEF PostOK
<1>6. AnsweredKeys' \subseteq AnsweredKeys \cup K
  BY <1>2, <1>5 DEF AnsweredKeys
<1>7. PostInv'
  <2>1. \A w \in wire' : PostOK(emitters'[w.svc], w)
    BY <1>2 DEF PostInv
  <2>2. \A r \in replies' : r.post <= emitters'[r.svc].post
    BY <1>2, <1>5 DEF PostInv
  <2> QED BY <1>2, <2>1, <2>2 DEF PostInv
<1>8. Accounted'
  <2>1. PICK i \in Nat, a \in Nat, b \in Nat :
          i = GivenUp /\ a = SumFunction(dropped) /\ b = SumFunction(dropped')
    <3>1. IngestOK(Intake) /\ IngestOK(Intake')
      <4>1. TypeInv'
        BY ReceiveTypes
      <4> QED BY <4>1 DEF TypeInv, CollectorInv
    <3>2. SumFunction(Intake.dropped) \in Nat /\ SumFunction(Intake'.dropped) \in Nat
      BY <3>1, DroppedIsNat
    <3> QED BY <1>3, <3>2, GivenUpIsNat DEF Intake
  <2>2. GivenUp' = i + (b - a)
    <3>1. PICK l \in Nat : l = late
      BY DEF TypeInv, CollectorInv
    <3>2. PICK e : e = SumFunction([x \in Services |-> emitters[x].localDrops
                                                        + emitters[x].shedDrops])
      OBVIOUS
    <3>3. e \in Nat
      <4>1. \A x \in Services : emitters[x].localDrops \in Nat /\ emitters[x].shedDrops \in Nat
        BY DEF TypeInv, EmittersInv, EmitterSet
      <4>2. [x \in Services |-> emitters[x].localDrops + emitters[x].shedDrops]
              \in [Services -> Nat]
        BY <4>1
      <4>3. PICK f \in [Services -> Nat] :
              f = [x \in Services |-> emitters[x].localDrops + emitters[x].shedDrops]
        BY <4>2
      <4>4. SumFunction(f) \in Nat
        BY Constants, SumOfNats
      <4> QED BY <3>2, <4>3, <4>4
    <3>4. i = a + l + e /\ GivenUp' = b + l + e
      BY <1>2, <1>3, <2>1, <3>1, <3>2 DEF GivenUp
    <3> QED BY <3>3, <3>4
  <2>3. PICK q, q1, r, h, h1 : /\ q = QueueKeys(queues) /\ q1 = QueueKeys(queues')
                               /\ r = Keys(ToSet(store)) \cup Keys(ToSet(aggregated))
                               /\ h = HeldKeys /\ h1 = HeldKeys'
    OBVIOUS
  <2>4. h = q \cup r /\ h1 = q1 \cup r
    BY <1>3, <2>3 DEF HeldKeys
  <2>5. PICK p, p1, N : p = Passed /\ p1 = Passed' /\ N = K \ S
    OBVIOUS
  <2>6. p1 \subseteq p \cup N
    <3>1. GivenOut' = GivenOut /\ UnsentKeys' = UnsentKeys
      BY <1>2 DEF GivenOut, UnsentKeys
    <3> QED BY <1>1, <1>4, <1>6, <2>5, <3>1 DEF Passed
  <2>7. PICK j \in Int : j = b - a
    OBVIOUS
  <2>8. MissesAtMost(q \cup N, q1, j)
    BY <1>1, <1>3, <1>4, <2>1, <2>3, <2>5, <2>7 DEF Loses, Intake
  <2>9. PICK A, B : A = h \cup N /\ B = q \cup N
    OBVIOUS
  <2>10. MissesAtMost(p1, A, i)
    <3>1. MissesAtMost(p, h, i)
      BY <2>1, <2>3, <2>5 DEF Accounted
    <3>2. h \cup N \subseteq A
      BY <2>9
    <3> QED BY <2>6, <3>1, <3>2, MissesMore
  <2>11. MissesAtMost(A, h1, j)
    <3>1. A \subseteq B \cup r /\ q1 \cup r \subseteq h1
      BY <2>4, <2>9
    <3> QED BY <2>8, <2>9, <3>1, MissesMore
  <2>12. MissesAtMost(p1, h1, i + j)
    BY <2>10, <2>11, MissesAdd
  <2>13. GivenUp' = i + j
    BY <2>2, <2>7
  <2> QED BY <2>3, <2>5, <2>12, <2>13 DEF Accounted
<1> QED BY <1>1, <1>6, <1>7, <1>8

LEMMA TickLoss ==
  ASSUME TypeInv, PostInv, Accounted, Tick
  PROVE  PostInv' /\ Accounted' /\ AnsweredKeys' \subseteq AnsweredKeys
<1>1. CollectorTick /\ UNCHANGED <<now, emitters, wire, replies, lives, events, posts, resets>>
  BY DEF Tick
<1>2. seen' = seen /\ dropped' = dropped
  BY <1>1, TickAssigns
<1>3. GivenOut' = GivenOut /\ UnsentKeys' = UnsentKeys /\ AnsweredKeys' = AnsweredKeys
  BY <1>1 DEF GivenOut, UnsentKeys, AnsweredKeys
<1>4. PostInv'
  BY <1>1 DEF PostInv
<1>5. Accounted'
  <2>1. PICK e \in Nat, l \in Nat, l1 \in Nat :
          l = late /\ l1 = late' /\ GivenUp = e + l /\ GivenUp' = e + l1
    <3>1. late \in Nat /\ late' \in Nat /\ IngestOK(Intake)
      <4>1. TypeInv'
        BY TickTypes
      <4> QED BY <4>1 DEF TypeInv, CollectorInv
    <3>2. PICK a \in Nat : a = SumFunction(dropped)
      BY <3>1, DroppedIsNat DEF Intake
    <3>3. \A x \in Services : emitters[x].localDrops \in Nat /\ emitters[x].shedDrops \in Nat
      BY DEF TypeInv, EmittersInv, EmitterSet
    <3>4. [x \in Services |-> emitters[x].localDrops + emitters[x].shedDrops]
            \in [Services -> Nat]
      BY <3>3
    <3>5. PICK f \in [Services -> Nat] :
            f = [x \in Services |-> emitters[x].localDrops + emitters[x].shedDrops]
      BY <3>4
    <3>6. PICK b \in Nat : b = SumFunction(f)
      BY Constants, SumOfNats
    <3>7. GivenUp = a + late + b /\ GivenUp' = a + late' + b
      BY <1>1, <1>2, <3>2, <3>5, <3>6 DEF GivenUp
    <3>8. PICK e \in Nat : e = a + b
      OBVIOUS
    <3>9. GivenUp = e + late /\ GivenUp' = e + late'
      BY <3>1, <3>7, <3>8
    <3> QED BY <3>1, <3>9
  <2>2. PICK p, h, h1, i, j : /\ p = Passed /\ h = HeldKeys /\ h1 = HeldKeys'
                              /\ i = e + l /\ j = l1 - l
    OBVIOUS
  <2>3. MissesAtMost(p, h, i)
    BY <2>1, <2>2 DEF Accounted
  <2>4. MissesAtMost(h, h1, j)
    BY <1>1, <2>1, <2>2, TickMisses
  <2>5. i \in Int /\ j \in Int /\ i + j = e + l1
    BY <2>2
  <2>6. MissesAtMost(p, h1, i + j)
    BY <2>3, <2>4, <2>5, MissesAdd
  <2>7. Passed' = p
    BY <1>2, <1>3, <2>2 DEF Passed
  <2> QED BY <2>1, <2>2, <2>5, <2>6, <2>7 DEF Accounted
<1> QED BY <1>3, <1>4, <1>5

LEMMA InitLoss ==
  ASSUME Init
  PROVE  PostInv /\ Accounted /\ AnsweredKeys = {}
<1>1. emitters = [s \in Services |-> NewEmitter] /\ wire = {} /\ replies = {} /\ seen = <<>>
  BY DEF Init, EmitterInit, CollectorInit
<1>2. AnsweredKeys = {}
  BY <1>1 DEF AnsweredKeys
<1>3. GivenOut = {}
  <2>1. \A k \in KeySet : k[1] \in Services /\ k[2] >= 0
    BY DEF KeySet, Numbers
  <2>2. \A k \in KeySet : emitters[k[1]].seq = 0
    BY <1>1, <2>1, NewEmitterIs
  <2>3. \A k \in KeySet : k[2] \in Int
    BY Constants DEF KeySet, Numbers
  <2> QED BY <2>1, <2>2, <2>3 DEF GivenOut
<1>4. Passed = {}
  <2>1. ToSet(seen) = {}
    BY <1>1, EmptySeq DEF ToSet
  <2> QED BY <1>2, <1>3, <2>1 DEF Passed
<1>5. PostInv
  <2>1. \A s \in Services : emitters[s].posting = <<>>
    BY <1>1 DEF NewEmitter
  <2> QED BY <1>1, <2>1 DEF PostInv
<1>6. Accounted
  <2>1. PICK n \in Nat : n = GivenUp
    BY InitTypes, GivenUpIsNat
  <2>2. PICK X, p, h : X = {} /\ p = Passed /\ h = HeldKeys
    OBVIOUS
  <2>3. IsFiniteSet(X) /\ Cardinality(X) <= n
    BY <2>2, FS_EmptySet
  <2>4. p \subseteq h \cup X
    BY <1>4, <2>2
  <2>5. MissesAtMost(p, h, n)
    BY <2>3, <2>4 DEF MissesAtMost
  <2> QED BY <2>1, <2>2, <2>5 DEF Accounted
<1> QED BY <1>2, <1>5, <1>6

\* A reset and a restart are disturbances; nothing else is.
LEMMA DisturbancesStep ==
  ASSUME TypeInv
  PROVE  /\ Disturbances \in Nat
         /\ Reset => Disturbances' > 0
         /\ \A s \in Services : Restart(s) => Disturbances' > 0
<1>1. SumFunction(lives) \in Nat /\ resets \in Nat
  BY Constants, SumOfNats DEF TypeInv, RunInv
<1>2. PICK a \in Nat, b \in Nat : a = resets /\ b = SumFunction(lives)
  BY <1>1
<1>3. Disturbances = a + b
  BY <1>2 DEF Disturbances
<1>4. ASSUME Reset
      PROVE  Disturbances' > 0
  <2>1. Disturbances' = (a + 1) + b
    BY <1>2, <1>4 DEF Reset, Disturbances
  <2> QED BY <2>1
<1>5. ASSUME NEW s \in Services, Restart(s)
      PROVE  Disturbances' > 0
  <2>1. lives' = [lives EXCEPT ![s] = @ + 1] /\ resets' = resets
    BY <1>5 DEF Restart
  <2>2. SumFunction(lives') = b + 1
    BY <1>2, <2>1, LivesStep DEF TypeInv
  <2>3. Disturbances' = a + (b + 1)
    BY <1>2, <2>1, <2>2 DEF Disturbances
  <2> QED BY <2>3
<1> QED BY <1>3, <1>4, <1>5

LEMMA NextLoss ==
  ASSUME TypeInv, LossInv, [Next]_vars
  PROVE  LossInv'
<1> SUFFICES ASSUME Undisturbed' PROVE PostInv' /\ Accounted'
  BY DEF LossInv
<1>1. ~Reset /\ \A s \in Services : ~Restart(s)
  BY DisturbancesStep DEF Undisturbed
<1>2. resets' = resets /\ lives' = lives
  BY <1>1 DEF Next, Produce, Send, Fail, Receive, Answer, ClockTick, Tick, vars
<1>3. PostInv /\ Accounted
  BY <1>2 DEF LossInv, Undisturbed, Disturbances
<1>4. ASSUME NEW s \in Services, Produce(s) \/ Send(s) \/ Fail(s)
      PROVE  PostInv' /\ Accounted'
  BY <1>3, <1>4, ProduceLoss, SendLoss, FailLoss
<1>5. ASSUME NEW m \in wire, Receive(m)
      PROVE  PostInv' /\ Accounted'
  BY <1>3, <1>5, ReceiveLoss
<1>6. ASSUME NEW r \in replies, Answer(r)
      PROVE  PostInv' /\ Accounted'
  BY <1>3, <1>6, AnswerLoss
<1>7. CASE Tick
  BY <1>3, <1>7, TickLoss
<1>8. CASE ClockTick \/ UNCHANGED vars
  <2>1. UNCHANGED <<collectorVars, emitters>> /\ wire' \subseteq wire /\ replies' \subseteq replies
    BY <1>8 DEF ClockTick, vars
  <2> QED BY <1>3, <2>1, UndisturbedLoss
<1> QED BY <1>1, <1>4, <1>5, <1>6, <1>7, <1>8 DEF Next

LEMMA LossAlways == Spec => []LossInv
<1>1. Init => LossInv
  BY InitLoss DEF LossInv
<1>2. TypeInv /\ LossInv /\ [Next]_vars => LossInv'
  BY NextLoss
<1> QED BY <1>1, <1>2, TypesAlways, PTL DEF Spec

\* The pairs below a function are as many as its sum.
LEMMA CountPairs ==
  ASSUME NEW D, IsFiniteSet(D), NEW f \in [D -> Nat], NEW n \in Nat, \A x \in D : f[x] <= n
  PROVE  /\ IsFiniteSet({k \in D \X (0..(n - 1)) : k[2] < f[k[1]]})
         /\ Cardinality({k \in D \X (0..(n - 1)) : k[2] < f[k[1]]}) = SumFunction(f)
<1>1. PICK u : SumsTo(f, D, u) /\ SumFunction(f) = u[D]
  <2>1. f \in [D -> Int]
    OBVIOUS
  <2> QED BY <2>1, SumIs
<1> DEFINE P(s) == {k \in s \X (0..(n - 1)) : k[2] < f[k[1]]}
           S == {s \in SUBSET D : u[s] \in Nat /\ IsFiniteSet(P(s)) /\ Cardinality(P(s)) = u[s]}
<1>2. {} \in S
  <2>1. u[{}] = 0 /\ P({}) = {}
    BY <1>1 DEF SumsTo
  <2> QED BY <2>1, FS_EmptySet
<1>3. ASSUME NEW s \in SUBSET D, s # {}, s \ {Picked(s)} \in S
      PROVE  s \in S
  <2>1. PICK x, r : x = Picked(s) /\ x \in s /\ r = s \ {x}
    BY <1>3 DEF Picked
  <2>2. PICK m \in Nat, v \in Nat : m = f[x] /\ v = u[r] /\ m <= n
    <3>1. x \in D
      BY <2>1
    <3> QED BY <1>3, <2>1, <3>1
  <2>3. u[s] = m + v
    BY <1>1, <1>3, <2>1, <2>2 DEF SumsTo
  <2>4. PICK C, A, B : C = P(s) /\ A = P(r) /\ B = {x} \X (0..(m - 1))
    OBVIOUS
  <2>5. IsFiniteSet(A) /\ Cardinality(A) = v
    BY <1>3, <2>1, <2>2, <2>4
  <2>6. IsFiniteSet(B) /\ Cardinality(B) = m
    <3>1. PICK a \in Int, b \in Int : a = 0 /\ b = m - 1
      OBVIOUS
    <3>8. PICK I : I = a..b
      OBVIOUS
    <3>2. IsFiniteSet(I) /\ Cardinality(I) = IF a > b THEN 0 ELSE b - a + 1
      BY <3>8, FS_Interval
    <3>3. Cardinality(I) = m
      BY <3>1, <3>2
    <3>4. PICK O : O = {x}
      OBVIOUS
    <3>5. IsFiniteSet(O) /\ Cardinality(O) = 1
      BY <3>4, FS_Singleton
    <3>6. IsFiniteSet(O \X I) /\ Cardinality(O \X I) = Cardinality(O) * Cardinality(I)
      BY <3>2, <3>5, FS_Product
    <3>7. B = O \X I
      BY <2>4, <3>1, <3>4, <3>8
    <3> QED BY <3>3, <3>5, <3>6, <3>7
  <2>7. C = A \cup B /\ A \cap B = {}
    <3>1. ASSUME NEW k \in C
          PROVE  k \in A \cup B
      <4>1. k \in s \X (0..(n - 1)) /\ k[2] < f[k[1]]
        BY <2>4
      <4>2. CASE k[1] = x
        <5>1. k[2] \in 0..(m - 1) /\ k = <<x, k[2]>>
          BY <2>2, <4>1, <4>2
        <5> QED BY <2>4, <5>1
      <4>3. CASE k[1] # x
        <5>1. k \in r \X (0..(n - 1))
          BY <2>1, <4>1, <4>3
        <5> QED BY <2>4, <4>1, <5>1
      <4> QED BY <4>2, <4>3
    <3>2. A \subseteq C
      BY <2>1, <2>4
    <3>3. ASSUME NEW k \in B
          PROVE  k \in C /\ k \notin A
      <4>1. k[1] = x /\ k[2] \in 0..(m - 1) /\ k = <<x, k[2]>>
        BY <2>4
      <4>2. k \in s \X (0..(n - 1)) /\ k[2] < f[k[1]]
        BY <2>1, <2>2, <4>1
      <4>3. x \notin r
        BY <2>1
      <4> QED BY <2>4, <4>1, <4>2, <4>3
    <3> QED BY <3>1, <3>2, <3>3
  <2>8. IsFiniteSet(C) /\ Cardinality(C) = m + v
    <3>1. IsFiniteSet(A \cup B)
          /\ Cardinality(A \cup B) = Cardinality(A) + Cardinality(B) - Cardinality(A \cap B)
      BY <2>5, <2>6, FS_Union
    <3>2. Cardinality(A \cap B) = 0
      BY <2>7, FS_EmptySet
    <3> QED BY <2>5, <2>6, <2>7, <3>1, <3>2
  <2> QED BY <2>3, <2>4, <2>8
<1>4. D \in S
  <2> HIDE DEF S
  <2> QED BY <1>2, <1>3, SubsetInduction
<1> QED BY <1>1, <1>4

\* All that is held, in the collector or by an emitter, has a key there.
AllHeld == ToSet(InOrder(queues) \o store \o aggregated)
             \cup UNION {ToSet(Unsent(emitters[s])) : s \in Services}

LEMMA AllHeldIs ==
  ASSUME TypeInv
  PROVE  IsFiniteSet(AllHeld) /\ HeldKeys \cup UnsentKeys \subseteq Keys(AllHeld)
<1>1. PICK q \in Seq(EventSet), st \in Seq(EventSet), ag \in Seq(EventSet) :
        q = InOrder(queues) /\ st = store /\ ag = aggregated
  <2>1. queues \in QueueSet /\ store \in Seq(EventSet) /\ aggregated \in Seq(EventSet)
    BY DEF TypeInv, CollectorInv, IngestOK, IngestSet, Intake
  <2>2. InOrder(queues) \in Seq(EventSet)
    BY <2>1, QueuesInOrder DEF QueueSet
  <2> QED BY <2>1, <2>2
<1>2. PICK A : A = ToSet(InOrder(queues) \o store \o aggregated)
  OBVIOUS
<1>3. A = ToSet(q) \cup ToSet(st) \cup ToSet(ag) /\ IsFiniteSet(A)
  <2>1. PICK t \in Seq(EventSet) : t = q \o st
    BY ConcatProperties
  <2>2. ToSet(t) = ToSet(q) \cup ToSet(st)
    BY <2>1, SetOfConcat
  <2>3. PICK v \in Seq(EventSet) : v = t \o ag
    BY ConcatProperties
  <2>4. ToSet(v) = ToSet(t) \cup ToSet(ag)
    BY <2>3, SetOfConcat
  <2>5. IsFiniteSet(ToSet(v))
    BY SetOf
  <2> QED BY <1>1, <1>2, <2>1, <2>2, <2>3, <2>4, <2>5
<1>4. HeldKeys \subseteq Keys(A)
  BY <1>1, <1>3 DEF HeldKeys, QueueKeys, Keys
<1>5. ASSUME NEW s \in Services
      PROVE  /\ IsFiniteSet(ToSet(Unsent(emitters[s])))
             /\ EmKeys(emitters[s]) = Keys(ToSet(Unsent(emitters[s])))
  <2>1. PICK em \in EmitterSet : em = emitters[s]
    BY DEF TypeInv, EmittersInv
  <2>2. PICK re \in Seq(EventSet), po \in Seq(EventSet), rs \in Seq(EventSet) :
          re = em.retained /\ po = em.posting /\ rs = InOrder(em.rings)
    <3>1. em.retained \in Seq(EventSet) /\ em.posting \in Seq(EventSet) /\ em.rings \in QueueSet
      BY DEF EmitterSet
    <3>2. InOrder(em.rings) \in Seq(EventSet)
      BY <3>1, QueuesInOrder DEF QueueSet
    <3> QED BY <3>1, <3>2
  <2>3. PICK t \in Seq(EventSet) : t = re \o po
    BY ConcatProperties
  <2>4. ToSet(t) = ToSet(re) \cup ToSet(po)
    BY <2>3, SetOfConcat
  <2>5. PICK v \in Seq(EventSet) : v = t \o rs
    BY ConcatProperties
  <2>6. ToSet(v) = ToSet(t) \cup ToSet(rs)
    BY <2>5, SetOfConcat
  <2>10. IsFiniteSet(ToSet(v))
    BY SetOf
  <2>7. v = Unsent(emitters[s])
    BY <2>1, <2>2, <2>3, <2>5 DEF Unsent
  <2>8. EmKeys(em) = Keys(ToSet(re)) \cup Keys(ToSet(po)) \cup Keys(ToSet(rs))
    BY <2>2 DEF EmKeys, QueueKeys
  <2>9. Keys(ToSet(v)) = Keys(ToSet(re)) \cup Keys(ToSet(po)) \cup Keys(ToSet(rs))
    <3>1. PICK x, y, z : x = ToSet(re) /\ y = ToSet(po) /\ z = ToSet(rs)
      OBVIOUS
    <3>2. ToSet(v) = (x \cup y) \cup z
      BY <2>4, <2>6, <3>1
    <3>3. PICK w : w = x \cup y
      OBVIOUS
    <3>4. Keys(w) = Keys(x) \cup Keys(y)
      BY <3>3, KeysOfUnion
    <3>5. Keys(w \cup z) = Keys(w) \cup Keys(z)
      BY KeysOfUnion
    <3> QED BY <3>1, <3>2, <3>3, <3>4, <3>5
  <2> QED BY <2>1, <2>7, <2>8, <2>9, <2>10
<1> DEFINE f == [s \in Services |-> ToSet(Unsent(emitters[s]))]
           T == {ToSet(Unsent(emitters[s])) : s \in Services}
<1>6. IsFiniteSet(T)
  <2>1. f \in [Services -> T] /\ \A y \in T : \E s \in Services : f[s] = y
    OBVIOUS
  <2>2. PICK g, U : g = f /\ U = T
    OBVIOUS
  <2> HIDE DEF f, T
  <2>3. g \in Surjection(Services, U)
    BY <2>1, <2>2, Zenon DEF Surjection
  <2>4. IsFiniteSet(U)
    BY <2>3, Constants, FS_Surjection
  <2> QED BY <2>2, <2>4
<1>7. IsFiniteSet(UNION T)
  <2>1. \A y \in T : IsFiniteSet(y)
    BY <1>5
  <2> HIDE DEF T
  <2> QED BY <1>6, <2>1, FS_UNION
<1>8. AllHeld = A \cup UNION T
  BY <1>2 DEF AllHeld
<1>9. IsFiniteSet(AllHeld)
  <2> HIDE DEF T
  <2> QED BY <1>3, <1>7, <1>8, FS_Union
<1>10. UnsentKeys \subseteq Keys(UNION T)
  <2> SUFFICES ASSUME NEW k \in UnsentKeys PROVE k \in Keys(UNION T)
    OBVIOUS
  <2>1. PICK s \in Services : k \in EmKeys(emitters[s])
    BY DEF UnsentKeys
  <2>2. PICK e \in ToSet(Unsent(emitters[s])) : k = Key(e)
    BY <1>5, <2>1 DEF Keys
  <2>3. e \in UNION T
    OBVIOUS
  <2> QED BY <2>2, <2>3 DEF Keys
<1>11. Keys(AllHeld) = Keys(A) \cup Keys(UNION T)
  BY <1>8, KeysOfUnion
<1> QED BY <1>4, <1>9, <1>10, <1>11

\* Over lost, late, repeated and overtaken posts, full rings and queues, shedding, late
\* events and refused windows, every event a service numbered is held somewhere or counted
\* as given up, while nothing is reset or started again, whatever the dedup has forgotten
\* (enqueue, flush, admit, filter, add).
THEOREM NothingVanishesAlways == Spec => []NothingVanishes
<1>1. TypeInv /\ LossInv => NothingVanishes
  <2> SUFFICES ASSUME TypeInv, Accounted
               PROVE  SumFunction([s \in Services |-> emitters[s].seq])
                        <= Cardinality(AllHeld) + GivenUp
    BY DEF LossInv, NothingVanishes, AllHeld, GivenUp
  <2>1. PICK f : f = [s \in Services |-> emitters[s].seq]
    OBVIOUS
  <2>2. f \in [Services -> Nat] /\ \A s \in Services : f[s] = emitters[s].seq /\ f[s] <= MaxEvents
    <3>1. ASSUME NEW s \in Services
          PROVE  emitters[s].seq \in Nat /\ emitters[s].seq <= MaxEvents
      <4>1. emitters[s].seq \in Nat /\ emitters[s].seq <= events[s] /\ events[s] \in 0..MaxEvents
        BY DEF TypeInv, EmittersInv, EmitterSet
      <4> QED BY <4>1, Constants
    <3> QED BY <2>1, <3>1
  <2>3. PICK G : G = {k \in Services \X (0..(MaxEvents - 1)) : k[2] < f[k[1]]}
    OBVIOUS
  <2>4. IsFiniteSet(G) /\ Cardinality(G) = SumFunction(f)
    BY <2>2, <2>3, Constants, CountPairs
  <2>5. G = GivenOut
    <3>1. \A k \in KeySet : f[k[1]] = emitters[k[1]].seq
      BY <2>2 DEF KeySet
    <3> QED BY <2>3, <3>1 DEF GivenOut, KeySet, Numbers
  <2>6. PICK n \in Nat : n = GivenUp
    BY GivenUpIsNat
  <2>7. PICK X : IsFiniteSet(X) /\ Cardinality(X) <= n /\ Passed \subseteq HeldKeys \cup X
    BY <2>6 DEF Accounted, MissesAtMost
  <2>8. PICK H, K : H = AllHeld /\ K = Keys(AllHeld)
    OBVIOUS
  <2>9. G \subseteq K \cup X
    <3>1. GivenOut \subseteq Passed \cup UnsentKeys
      BY DEF Passed
    <3> QED BY <2>5, <2>7, <2>8, <3>1, AllHeldIs
  <2>10. IsFiniteSet(H) /\ IsFiniteSet(K) /\ Cardinality(K) <= Cardinality(H)
    <3>1. IsFiniteSet(H)
      BY <2>8, AllHeldIs
    <3>2. K = {Key(e) : e \in H}
      BY <2>8 DEF Keys
    <3> DEFINE g == [e \in H |-> Key(e)]
    <3>3. g \in [H -> K] /\ \A y \in K : \E e \in H : g[e] = y
      BY <3>2
    <3> HIDE DEF g
    <3>4. g \in Surjection(H, K)
      BY <3>3, Zenon DEF Surjection
    <3> QED BY <3>1, <3>4, FS_Surjection
  <2>11. PICK a \in Nat, b \in Nat, c \in Nat, d \in Nat :
           a = Cardinality(G) /\ b = Cardinality(K) /\ c = Cardinality(X) /\ d = Cardinality(H)
    BY <2>4, <2>7, <2>10, FS_CardinalityType
  <2>12. a <= b + c
    <3>1. PICK U, I : U = K \cup X /\ I = K \cap X
      OBVIOUS
    <3>2. IsFiniteSet(U) /\ Cardinality(U) = b + c - Cardinality(I)
      BY <2>7, <2>10, <2>11, <3>1, FS_Union
    <3>3. Cardinality(I) \in Nat
      <4>1. IsFiniteSet(I)
        <5>1. I \subseteq X
          BY <3>1
        <5> QED BY <2>7, <5>1, FS_Subset
      <4> QED BY <4>1, FS_CardinalityType
    <3>4. a <= Cardinality(U)
      BY <2>9, <2>11, <3>1, <3>2, FS_Subset
    <3> QED BY <3>2, <3>3, <3>4
  <2>13. a <= d + n
    BY <2>7, <2>10, <2>11, <2>12
  <2> QED BY <2>1, <2>4, <2>6, <2>8, <2>11, <2>13
<1> QED BY <1>1, TypesAlways, LossAlways, PTL

-----------------------------------------------------------------------------
(* Counts are exact *)

\* An answer says that the collector knows the events of the post: an emitter lets go of none
\* that would have to travel again.
AnsweredInv  == AnsweredKeys \subseteq ToSet(seen)
AnswersKnown == Undisturbed => AnsweredInv

LEMMA AnswersKnownAlways ==
  ASSUME RoomyDedup
  PROVE  Spec => []AnswersKnown
<1>1. Init => AnswersKnown
  BY InitLoss DEF AnswersKnown, AnsweredInv
<1>2. ASSUME TypeInv, HeldApart, LossInv, AnswersKnown, [Next]_vars
      PROVE  AnswersKnown'
  <2> SUFFICES ASSUME Undisturbed' PROVE AnsweredInv'
    BY DEF AnswersKnown
  <2>1. ~Reset /\ \A s \in Services : ~Restart(s)
    BY <1>2, DisturbancesStep DEF Undisturbed
  <2>2. resets' = resets /\ lives' = lives
    BY <1>2, <2>1 DEF Next, Produce, Send, Fail, Receive, Answer, ClockTick, Tick, vars
  <2>3. PostInv /\ Accounted /\ AnsweredInv
    BY <1>2, <2>2 DEF LossInv, AnswersKnown, Undisturbed, Disturbances
  <2>4. CASE AnsweredKeys' \subseteq AnsweredKeys /\ seen' = seen
    BY <2>3, <2>4 DEF AnsweredInv
  <2>5. ASSUME NEW s \in Services, Produce(s) \/ Send(s) \/ Fail(s)
        PROVE  AnsweredKeys' \subseteq AnsweredKeys /\ seen' = seen
    <3>1. seen' = seen
      BY <2>5 DEF Produce, Send, Fail, collectorVars
    <3> QED BY <1>2, <2>3, <2>5, <3>1, ProduceLoss, SendLoss, FailLoss
  <2>6. ASSUME NEW m \in wire, Receive(m)
        PROVE  AnsweredInv'
    <3>1. AnsweredKeys' \subseteq AnsweredKeys \cup Keys(ToSet(m.events))
      BY <1>2, <2>3, <2>6, ReceiveLoss
    <3>2. ToSet(seen') = ToSet(seen) \cup Keys(ToSet(m.events))
      BY <1>2, <2>6, ReceiveKeys
    <3> QED BY <2>3, <3>1, <3>2 DEF AnsweredInv
  <2>7. ASSUME NEW r \in replies, Answer(r)
        PROVE  AnsweredKeys' \subseteq AnsweredKeys /\ seen' = seen
    <3>1. seen' = seen
      BY <2>7 DEF Answer, collectorVars
    <3> QED BY <1>2, <2>3, <2>7, <3>1, AnswerLoss
  <2>8. CASE Tick
    <3>1. seen' = seen
      BY <1>2, <2>8, TickAssigns DEF Tick
    <3> QED BY <1>2, <2>3, <2>4, <2>8, <3>1, TickLoss
  <2>9. CASE ClockTick \/ UNCHANGED vars
    <3>1. UNCHANGED <<collectorVars, emitters>> /\ wire' \subseteq wire /\ replies' \subseteq replies
      BY <2>9 DEF ClockTick, vars
    <3>2. seen' = seen
      BY <3>1 DEF collectorVars
    <3> QED BY <2>3, <2>4, <3>1, <3>2, UndisturbedLoss
  <2> QED BY <1>2, <2>1, <2>4, <2>5, <2>6, <2>7, <2>8, <2>9 DEF Next
<1> QED BY <1>1, <1>2, TypesAlways, HeldApartAlways, LossAlways, PTL DEF Spec

\* Snapshots of one service come in the order of their numbers.
Older(a, b)   == a.pri = 0 /\ b.pri = 0 /\ a.svc = b.svc => a.seq < b.seq
Precede(A, B) == \A a \in A, b \in B : Older(a, b)
InTurn(s)     == \A i, j \in 1..Len(s) : i < j => Older(s[i], s[j])

Snaps(T) == {e \in T : e.pri = 0}

LEMMA InTurnConcat ==
  ASSUME NEW S, NEW s \in Seq(S), NEW t \in Seq(S)
  PROVE  InTurn(s \o t) <=> InTurn(s) /\ InTurn(t) /\ Precede(ToSet(s), ToSet(t))
<1>1. PICK u : u = s \o t
  OBVIOUS
<1>2. PICK m \in Nat, n \in Nat : m = Len(s) /\ n = Len(t)
  BY LenProperties
<1>3. /\ Len(u) = m + n
      /\ \A i \in 1..m : i \in 1..m + n /\ u[i] = s[i]
      /\ \A i \in 1..n : m + i \in 1..m + n /\ u[m + i] = t[i]
      /\ \A i \in 1..m + n : i \in 1..m \/ \E j \in 1..n : i = m + j
  <2>1. Joined(u, s, t, m, n)
    BY <1>1, <1>2, ConcatPlaces
  <2> QED BY <2>1 DEF Joined
<1>4. ToSet(s) = {s[i] : i \in 1..m} /\ ToSet(t) = {t[i] : i \in 1..n}
  BY <1>2, SetOf
<1>5. ASSUME InTurn(u)
      PROVE  InTurn(s) /\ InTurn(t) /\ Precede(ToSet(s), ToSet(t))
  <2>1. \A i, j \in 1..m + n : i < j => Older(u[i], u[j])
    BY <1>3, <1>5 DEF InTurn
  <2>2. \A i, j \in 1..m : i < j => Older(s[i], s[j])
    BY <1>3, <2>1
  <2>3. ASSUME NEW i \in 1..n, NEW j \in 1..n, i < j
        PROVE  Older(t[i], t[j])
    <3>1. m + i < m + j
      BY <2>3
    <3> QED BY <1>3, <2>1, <3>1
  <2>4. ASSUME NEW i \in 1..m, NEW j \in 1..n
        PROVE  Older(s[i], t[j])
    <3>1. i < m + j
      OBVIOUS
    <3> QED BY <1>3, <2>1, <3>1
  <2>5. Precede(ToSet(s), ToSet(t))
    BY <1>4, <2>4 DEF Precede
  <2> QED BY <1>2, <2>2, <2>3, <2>5 DEF InTurn
<1>6. ASSUME InTurn(s), InTurn(t), Precede(ToSet(s), ToSet(t))
      PROVE  InTurn(u)
  <2>1. /\ \A i, j \in 1..m : i < j => Older(s[i], s[j])
        /\ \A i, j \in 1..n : i < j => Older(t[i], t[j])
    BY <1>2, <1>6 DEF InTurn
  <2>2. \A i \in 1..m : \A j \in 1..n : Older(s[i], t[j])
    BY <1>4, <1>6 DEF Precede
  <2>3. ASSUME NEW i \in 1..m + n, NEW j \in 1..m + n, i < j
        PROVE  Older(u[i], u[j])
    <3>1. CASE i \in 1..m /\ j \in 1..m
      BY <1>3, <2>1, <2>3, <3>1
    <3>2. CASE i \in 1..m /\ \E k \in 1..n : j = m + k
      BY <1>3, <2>2, <3>2
    <3>3. CASE j \in 1..m /\ \E k \in 1..n : i = m + k
      <4>1. PICK k \in 1..n : i = m + k
        BY <3>3
      <4>2. j <= m
        BY <3>3
      <4> QED BY <2>3, <4>1, <4>2
    <3>4. CASE (\E k \in 1..n : i = m + k) /\ \E k \in 1..n : j = m + k
      <4>1. PICK k \in 1..n, l \in 1..n : i = m + k /\ j = m + l
        BY <3>4
      <4>2. k < l
        BY <2>3, <4>1
      <4> QED BY <1>3, <2>1, <4>1, <4>2
    <3> QED BY <1>3, <3>1, <3>2, <3>3, <3>4
  <2> QED BY <1>3, <2>3 DEF InTurn
<1> QED BY <1>1, <1>5, <1>6

LEMMA InTurnAppend ==
  ASSUME NEW S, NEW s \in Seq(S), NEW e \in S, InTurn(s), Precede(ToSet(s), {e})
  PROVE  InTurn(Append(s, e))
<1>1. PICK u : u = Append(s, e)
  OBVIOUS
<1>2. PICK n \in Nat : n = Len(s)
  BY LenProperties
<1>3. Len(u) = n + 1 /\ u[n + 1] = e /\ \A i \in 1..n : u[i] = s[i]
  BY <1>1, <1>2, AppendProperties
<1>4. \A i \in 1..n : Older(s[i], e)
  BY <1>2, SetOf DEF Precede
<1>5. \A i, j \in 1..n : i < j => Older(s[i], s[j])
  BY <1>2 DEF InTurn
<1>6. ASSUME NEW i \in 1..n + 1, NEW j \in 1..n + 1, i < j
      PROVE  Older(u[i], u[j])
  <2>1. i \in 1..n
    BY <1>6
  <2>2. j \in 1..n \/ j = n + 1
    OBVIOUS
  <2> QED BY <1>3, <1>4, <1>5, <1>6, <2>1, <2>2
<1> QED BY <1>1, <1>3, <1>6 DEF InTurn

LEMMA InTurnKept ==
  ASSUME NEW S, NEW s \in Seq(S), NEW K, InTurn(s)
  PROVE  InTurn(Kept(s, K))
<1>1. PICK k : k = Kept(s, K)
  OBVIOUS
<1>2. k \in Seq(S) /\ Selects(k, s, Len(s), K)
  BY <1>1, KeptSelects
<1>3. PICK n \in Nat, l \in Nat : n = Len(s) /\ l = Len(k)
  BY <1>2, LenProperties
<1>4. Places(k, l, s, n, K)
  BY <1>2, <1>3 DEF Selects
<1>5. PICK m \in [1..l -> 1..n] :
        /\ \A i \in 1..l : k[i] = s[m[i]] /\ s[m[i]] \in K
        /\ \A i, j \in 1..l : i < j => m[i] < m[j]
        /\ \A j \in 1..n : s[j] \in K => \E i \in 1..l : m[i] = j
  BY <1>4 DEF Places
<1>6. ASSUME NEW i \in 1..l, NEW j \in 1..l, i < j
      PROVE  Older(k[i], k[j])
  <2>1. m[i] \in 1..n /\ m[j] \in 1..n /\ m[i] < m[j]
    BY <1>5, <1>6
  <2> QED BY <1>3, <1>5, <2>1 DEF InTurn
<1> QED BY <1>1, <1>3, <1>6 DEF InTurn

\* Events that are no snapshots are in nobody's way.
LEMMA NoSnaps ==
  ASSUME NEW T, \A e \in T : e.pri # 0
  PROVE  /\ \A A : Precede(A, T) /\ Precede(T, A)
         /\ \A S : \A s \in Seq(S) : ToSet(s) = T => InTurn(s)
<1>1. \A A : Precede(A, T) /\ Precede(T, A)
  BY DEF Precede, Older
<1>2. ASSUME NEW S, NEW s \in Seq(S), ToSet(s) = T
      PROVE  InTurn(s)
  <2>1. \A i \in 1..Len(s) : s[i].pri # 0
    BY <1>2, SetOf
  <2> QED BY <2>1 DEF InTurn, Older
<1> QED BY <1>1, <1>2

\* Queues are taken from in turn, and what is left is behind.
LEMMA CutTurn ==
  ASSUME NEW qs \in QueueSet, InPlace(qs), InTurn(qs[0]), NEW n \in Nat,
         NEW b, NEW us, b = TakeFirst(qs, n), us = LeaveRest(qs, n)
  PROVE  /\ InTurn(b) /\ InTurn(us[0]) /\ Precede(ToSet(b), ToSet(us[0]))
         /\ Snaps(ToSet(b)) \subseteq ToSet(qs[0]) /\ ToSet(us[0]) \subseteq ToSet(qs[0])
<1>1. PICK ts \in QueueSet : /\ b = InOrder(ts) /\ us \in QueueSet
                             /\ \A p \in Priorities : ts[p] \o us[p] = qs[p]
  <2>1. CutInTwo(qs, n, EventSet)
    BY TakeAndLeave DEF QueueSet
  <2> QED BY <2>1 DEF CutInTwo, QueueSet
<1>2. PICK t0 \in Seq(EventSet), t1 \in Seq(EventSet), t2 \in Seq(EventSet), u \in Seq(EventSet) :
        t0 = ts[0] /\ t1 = ts[1] /\ t2 = ts[2] /\ u = us[0]
  <2>1. 0 \in Priorities /\ 1 \in Priorities /\ 2 \in Priorities
    BY DEF Priorities
  <2> QED BY <1>1, <2>1 DEF QueueSet
<1>3. /\ qs[0] = t0 \o u
      /\ \A e \in ToSet(t1) : e.pri = 1
      /\ \A e \in ToSet(t2) : e.pri = 2
  <2>1. 0 \in Priorities /\ 1 \in Priorities /\ 2 \in Priorities
    BY DEF Priorities
  <2>2. ASSUME NEW p \in Priorities, NEW e \in ToSet(ts[p])
        PROVE  e.pri = p
    <3>1. PICK t \in Seq(EventSet), v \in Seq(EventSet) : t = ts[p] /\ v = us[p]
      BY <1>1 DEF QueueSet
    <3>2. ToSet(t \o v) = ToSet(t) \cup ToSet(v)
      BY SetOfConcat
    <3>3. e \in ToSet(qs[p])
      BY <1>1, <2>2, <3>1, <3>2
    <3> QED BY <3>3 DEF InPlace
  <2> QED BY <1>1, <1>2, <2>1, <2>2
<1>4. InTurn(t0) /\ InTurn(u) /\ Precede(ToSet(t0), ToSet(u))
  <2>1. InTurn(t0 \o u)
    BY <1>3
  <2> QED BY <2>1, InTurnConcat
<1>5. ToSet(qs[0]) = ToSet(t0) \cup ToSet(u)
  BY <1>3, SetOfConcat
<1>6. PICK w \in Seq(EventSet) : w = t0 \o t1
  BY ConcatProperties
<1>7. ToSet(w) = ToSet(t0) \cup ToSet(t1)
  BY <1>6, SetOfConcat
<1>8. b = w \o t2
  BY <1>1, <1>2, <1>6 DEF InOrder
<1>9. ToSet(b) = ToSet(w) \cup ToSet(t2)
  BY <1>8, SetOfConcat
<1>10. InTurn(t1) /\ InTurn(t2) /\ Precede(ToSet(t0), ToSet(t1)) /\ Precede(ToSet(w), ToSet(t2))
  <2>1. /\ \A e \in ToSet(t1) : e.pri # 0
        /\ \A e \in ToSet(t2) : e.pri # 0
    BY <1>3
  <2>2. PICK A, B : A = ToSet(t1) /\ B = ToSet(t2)
    OBVIOUS
  <2>3. (\A e \in A : e.pri # 0) /\ (\A e \in B : e.pri # 0)
    BY <2>1, <2>2
  <2>4. InTurn(t1) /\ Precede(ToSet(t0), A)
    BY <2>2, <2>3, NoSnaps
  <2>5. InTurn(t2) /\ Precede(ToSet(w), B)
    BY <2>2, <2>3, NoSnaps
  <2> QED BY <2>2, <2>4, <2>5
<1>11. InTurn(w)
  <2>1. InTurn(t0 \o t1)
    BY <1>4, <1>10, InTurnConcat
  <2> QED BY <1>6, <2>1
<1>12. InTurn(b)
  <2>1. InTurn(w \o t2)
    BY <1>10, <1>11, InTurnConcat
  <2> QED BY <1>8, <2>1
<1>13. \A e \in ToSet(b) : e.pri = 0 => e \in ToSet(t0)
  BY <1>3, <1>7, <1>9
<1>14. Precede(ToSet(b), ToSet(u))
  BY <1>4, <1>13 DEF Precede, Older
<1>15. Snaps(ToSet(b)) \subseteq ToSet(qs[0])
  BY <1>5, <1>13 DEF Snaps
<1> QED BY <1>2, <1>4, <1>5, <1>12, <1>14, <1>15

-----------------------------------------------------------------------------
(* What the windows count *)

\* The requests the windows ws count for s.
TotalOf(ws, s) ==
  LET sum[i \in 0..Len(ws)] == IF i = 0 THEN 0 ELSE sum[i - 1] + ws[i].in[s]
  IN sum[Len(ws)]

\* g adds the windows up, one by one.
AddsUp(g, ws, s, n) ==
  /\ g \in [0..n -> Nat] /\ g[0] = 0
  /\ \A i \in 1..n : g[i] = g[i - 1] + ws[i].in[s]

LEMMA TotalRuns ==
  ASSUME NEW ws \in Seq(WindowSet), NEW s \in Services
  PROVE  \E g : AddsUp(g, ws, s, Len(ws)) /\ TotalOf(ws, s) = g[Len(ws)]
<1> DEFINE n == Len(ws)
           F == [p \in Nat \X (1..n) |-> p[1] + ws[p[2]].in[s]]
           Sums(g) == g = [i \in 0..n |-> IF i = 0 THEN 0 ELSE g[i - 1] + ws[i].in[s]]
<1>1. n \in Nat /\ \A i \in 1..n : ws[i].in[s] \in Nat
  <2>1. n \in Nat /\ \A i \in 1..n : ws[i] \in WindowSet
    BY LenProperties
  <2> QED BY <2>1 DEF WindowSet
<1>2. \A i \in 1..n : \A u \in Nat : F[<<u, i>>] = u + ws[i].in[s]
  <2> SUFFICES ASSUME NEW i \in 1..n, NEW u \in Nat PROVE F[<<u, i>>] = u + ws[i].in[s]
    OBVIOUS
  <2>1. <<u, i>> \in Nat \X (1..n) /\ <<u, i>>[1] = u /\ <<u, i>>[2] = i
    OBVIOUS
  <2> QED BY <2>1
<1>3. LoopBody(F, n, Nat)
  <2> SUFFICES ASSUME NEW p \in Nat \X (1..n) PROVE p[1] + ws[p[2]].in[s] \in Nat
    BY DEF LoopBody
  <2>1. p[1] \in Nat /\ p[2] \in 1..n
    OBVIOUS
  <2>2. ws[p[2]].in[s] \in Nat
    BY <1>1, <2>1
  <2> QED BY <2>1, <2>2
<1>4. PICK h : LoopRuns(h, F, n, 0, Nat)
  <2> HIDE DEF F, n
  <2>1. \E x : LoopRuns(x, F, n, 0, Nat)
    BY <1>1, <1>3, LoopExists
  <2> QED BY <2>1
<1>5. Sums(h)
  <2>1. /\ h \in [0..n -> Nat] /\ h[0] = 0
        /\ \A i \in 1..n : h[i] = F[<<h[i - 1], i>>]
    BY <1>4 DEF LoopRuns
  <2> HIDE DEF F
  <2>2. ASSUME NEW i \in 0..n
        PROVE  h[i] = IF i = 0 THEN 0 ELSE h[i - 1] + ws[i].in[s]
    <3>1. CASE i = 0
      BY <2>1, <3>1
    <3>2. CASE i # 0
      <4>1. i \in 1..n /\ i - 1 \in 0..n
        BY <1>1, <3>2
      <4>2. h[i - 1] \in Nat
        BY <2>1, <4>1
      <4> QED BY <1>2, <2>1, <3>2, <4>1, <4>2
    <3> QED BY <3>1, <3>2
  <2>3. h = [i \in 0..n |-> h[i]]
    BY <2>1
  <2> QED BY <2>2, <2>3
<1>6. PICK g : g = CHOOSE x : Sums(x)
  OBVIOUS
<1>7. TotalOf(ws, s) = g[n]
  BY <1>6 DEF TotalOf
<1>8. Sums(g)
  <2> HIDE DEF Sums
  <2> QED BY <1>5, <1>6
<1>9. g[0] = 0 /\ \A i \in 1..n : g[i] = g[i - 1] + ws[i].in[s]
  <2>1. \A i \in 0..n : g[i] = IF i = 0 THEN 0 ELSE g[i - 1] + ws[i].in[s]
    BY <1>8
  <2>2. 0 \in 0..n /\ \A i \in 1..n : i \in 0..n /\ i # 0
    BY <1>1
  <2> QED BY <2>1, <2>2
<1>10. g \in [0..n -> Nat]
  <2> DEFINE S == {k \in Nat : k <= n => g[k] \in Nat}
  <2>1. 0 \in S
    BY <1>9
  <2>2. ASSUME NEW k \in Nat, k \in S
        PROVE  k + 1 \in S
    <3> SUFFICES ASSUME k + 1 <= n PROVE g[k + 1] \in Nat
      OBVIOUS
    <3>1. k + 1 \in 1..n /\ (k + 1) - 1 = k /\ k <= n
      BY <1>1
    <3>2. g[k] \in Nat /\ ws[k + 1].in[s] \in Nat /\ g[k + 1] = g[k] + ws[k + 1].in[s]
      BY <1>1, <1>9, <2>2, <3>1
    <3> QED BY <3>2
  <2>3. Nat \subseteq S
    <3> HIDE DEF S
    <3> QED BY <2>1, <2>2, NatInductionSet
  <2>4. \A i \in 0..n : g[i] \in Nat
    BY <1>1, <2>3
  <2>5. g = [i \in 0..n |-> g[i]]
    BY <1>8
  <2> QED BY <2>4, <2>5
<1>11. AddsUp(g, ws, s, n)
  BY <1>9, <1>10 DEF AddsUp
<1> QED BY <1>7, <1>11

\* One window more counts what is in it, and no window nothing.
LEMMA TotalIs ==
  ASSUME NEW s \in Services
  PROVE  /\ TotalOf(<<>>, s) = 0
         /\ \A ws \in Seq(WindowSet) : TotalOf(ws, s) \in Nat
         /\ \A ws \in Seq(WindowSet) : \A w \in WindowSet :
              TotalOf(Append(ws, w), s) = TotalOf(ws, s) + w.in[s]
<1>1. TotalOf(<<>>, s) = 0
  <2>1. PICK ws : ws = <<>>
    OBVIOUS
  <2>2. ws \in Seq(WindowSet) /\ Len(ws) = 0
    BY <2>1, EmptySeq
  <2>3. PICK g : AddsUp(g, ws, s, Len(ws)) /\ TotalOf(ws, s) = g[Len(ws)]
    BY <2>2, TotalRuns
  <2> QED BY <2>1, <2>2, <2>3 DEF AddsUp
<1>2. ASSUME NEW ws \in Seq(WindowSet)
      PROVE  TotalOf(ws, s) \in Nat
  <2>1. PICK g : AddsUp(g, ws, s, Len(ws)) /\ TotalOf(ws, s) = g[Len(ws)]
    BY TotalRuns
  <2>2. PICK n \in Nat : n = Len(ws)
    BY LenProperties
  <2>3. n \in 0..n /\ g \in [0..n -> Nat]
    BY <2>1, <2>2 DEF AddsUp
  <2> QED BY <2>1, <2>2, <2>3
<1>3. ASSUME NEW ws \in Seq(WindowSet), NEW w \in WindowSet
      PROVE  TotalOf(Append(ws, w), s) = TotalOf(ws, s) + w.in[s]
  <2>1. PICK n \in Nat : n = Len(ws)
    BY LenProperties
  <2>2. PICK vs \in Seq(WindowSet) : vs = Append(ws, w)
    BY AppendProperties
  <2>3. Len(vs) = n + 1 /\ vs[n + 1] = w /\ \A i \in 1..n : vs[i] = ws[i]
    BY <2>1, <2>2, AppendProperties
  <2>4. PICK g : AddsUp(g, ws, s, Len(ws)) /\ TotalOf(ws, s) = g[Len(ws)]
    BY TotalRuns
  <2>5. PICK h : AddsUp(h, vs, s, Len(vs)) /\ TotalOf(vs, s) = h[Len(vs)]
    BY TotalRuns
  <2>6. /\ g[0] = 0 /\ (\A i \in 1..n : g[i] = g[i - 1] + ws[i].in[s])
        /\ h[0] = 0 /\ (\A i \in 1..n + 1 : h[i] = h[i - 1] + vs[i].in[s])
    BY <2>1, <2>3, <2>4, <2>5 DEF AddsUp
  <2> DEFINE G == [i \in 0..n |-> {g[i]}]
  <2>7. h[0] \in G[0]
    BY <2>6
  <2>8. ASSUME NEW i \in 1..n, h[i - 1] \in G[i - 1]
        PROVE  h[i] \in G[i]
    <3>1. i - 1 \in 0..n /\ i \in 0..n /\ i \in 1..n + 1
      OBVIOUS
    <3>2. h[i - 1] = g[i - 1]
      BY <2>8, <3>1
    <3>3. h[i] = g[i]
      BY <2>3, <2>6, <3>1, <3>2
    <3> QED BY <3>1, <3>3
  <2>9. h[n] \in G[n]
    <3> HIDE DEF G
    <3> QED BY <2>7, <2>8, LoopKeeps
  <2>10. h[n] = g[n]
    <3>1. n \in 0..n
      OBVIOUS
    <3> QED BY <2>9, <3>1
  <2>11. h[n + 1] = h[n] + w.in[s]
    <3>1. n + 1 \in 1..n + 1 /\ (n + 1) - 1 = n
      OBVIOUS
    <3> QED BY <2>3, <2>6, <3>1
  <2> QED BY <2>1, <2>2, <2>3, <2>4, <2>5, <2>10, <2>11
<1> QED BY <1>1, <1>2, <1>3

\* n is the count of the newest snapshot of s among the events of T.
NewestCount(n, T, s) ==
  /\ n = 0 \/ \E e \in Snaps(T) : e.svc = s /\ e.count = n
  /\ \A e \in Snaps(T) : e.svc = s => e.count <= n

\* Snapshot b of the service of snapshot a counts at least as far.
Below(a, b) == a.pri = 0 /\ b.pri = 0 /\ a.svc = b.svc => a.count <= b.count

\* The window being built, on top of what was published before.
Counting(u, base) == \A s \in Services :
  base[s] + u.in[s] = u.last[s] /\ NewestCount(u.last[s], ToSet(u.events), s)

\* The windows count what their newest snapshots do.
CountedUp(b) == \A s \in Services : /\ TotalOf(b.windows, s) = b.last[s]
                                    /\ NewestCount(b.last[s], ToSet(b.events), s)

LEMMA AggregateCounts ==
  ASSUME NEW u \in AccSet, NEW e \in EventSet, NEW base \in [Services -> Nat],
         Counting(u, base), \A f \in ToSet(u.events) : Below(f, e)
  PROVE  Counting(Aggregate(u, e), base)
<1>1. PICK b : b = Aggregate(u, e)
  OBVIOUS
<1>2. /\ b \in AccSet /\ b.events = Append(u.events, e)
      /\ \A s \in Services : e.pri # 0 \/ s # e.svc => b.in[s] = u.in[s] /\ b.last[s] = u.last[s]
      /\ e.pri = 0 => /\ b.last[e.svc] = e.count
                      /\ b.in[e.svc] = u.in[e.svc] + CounterDelta(u.last[e.svc], e.count)
  BY <1>1, AggregateIs
<1>3. PICK T, U : T = ToSet(u.events) /\ U = ToSet(b.events)
  OBVIOUS
<1>4. U = T \cup {e}
  <2>1. u.events \in Seq(EventSet)
    BY DEF AccSet
  <2> QED BY <1>2, <1>3, <2>1, SetOfAppend
<1>5. ASSUME NEW s \in Services
      PROVE  base[s] + b.in[s] = b.last[s] /\ NewestCount(b.last[s], U, s)
  <2>1. base[s] + u.in[s] = u.last[s] /\ NewestCount(u.last[s], T, s)
    BY <1>3 DEF Counting
  <2>2. CASE e.pri # 0 \/ s # e.svc
    <3>1. b.in[s] = u.in[s] /\ b.last[s] = u.last[s]
      BY <1>2, <2>2
    <3>2. \A x : x \in Snaps(U) /\ x.svc = s <=> x \in Snaps(T) /\ x.svc = s
      BY <1>4, <2>2 DEF Snaps
    <3>3. NewestCount(u.last[s], U, s)
      BY <2>1, <3>2 DEF NewestCount
    <3> QED BY <2>1, <3>1, <3>3
  <2>3. CASE e.pri = 0 /\ s = e.svc
    <3>1. PICK n \in Nat, c \in Nat, i \in Nat, z \in Nat :
            n = u.last[s] /\ c = e.count /\ i = u.in[s] /\ z = base[s]
      BY DEF AccSet, EventSet
    <3>2. b.last[s] = c /\ b.in[s] = i + CounterDelta(n, c)
      BY <1>2, <2>3, <3>1
    <3>3. \A x \in Snaps(T) : x.svc = s => x.count <= c
      BY <1>3, <2>3, <3>1 DEF Snaps, Below
    <3>4. n <= c
      BY <2>1, <3>1, <3>3 DEF NewestCount
    <3>5. z + b.in[s] = c
      BY <2>1, <3>1, <3>2, <3>4 DEF CounterDelta
    <3>6. NewestCount(c, U, s)
      <4>1. e \in Snaps(U)
        BY <1>4, <2>3 DEF Snaps
      <4>2. \A x \in Snaps(U) : x \in Snaps(T) \/ x = e
        BY <1>4 DEF Snaps
      <4>3. \A x \in Snaps(U) : x.svc = s => x.count <= c
        BY <3>1, <3>3, <4>2
      <4> QED BY <2>3, <3>1, <4>1, <4>3 DEF NewestCount
    <3> QED BY <3>1, <3>2, <3>5, <3>6
  <2> QED BY <2>2, <2>3
<1> QED BY <1>1, <1>3, <1>5 DEF Counting

\* A window is built on what was counted up: it counts up as well.
LEMMA BuildCounts ==
  ASSUME NEW acc \in BuildSet, NEW id \in Nat, NEW evs \in Seq(EventSet), CountedUp(acc),
         \A f \in ToSet(acc.events) : \A e \in ToSet(evs) : e.t = id => Below(f, e),
         \A i, j \in 1..Len(evs) :
           i < j /\ evs[i].t = id /\ evs[j].t = id => Below(evs[i], evs[j])
  PROVE  /\ CountedUp(Build(acc, id, evs))
         /\ ToSet(Build(acc, id, evs).events) =
              ToSet(acc.events) \cup {e \in ToSet(evs) : e.t = id}
<1> DEFINE A == ToSet(acc.events)
           Win(i) == {evs[j] : j \in {k \in 1..i : evs[k].t = id}}
           base == [s \in Services |-> TotalOf(acc.windows, s)]
           Good(u, i) == Counting(u, base) /\ ToSet(u.events) = A \cup Win(i)
           G == [i \in 0..Len(evs) |-> {u \in AccSet : Good(u, i)}]
           Start == [in |-> [s \in Services |-> 0], last |-> acc.last, events |-> acc.events]
<1>1. /\ Len(evs) \in Nat /\ \A i \in 1..Len(evs) : evs[i] \in EventSet
      /\ ToSet(evs) = {evs[i] : i \in 1..Len(evs)}
  BY SetOf, LenProperties
<1>2. \A i \in 0..Len(evs) : \A u \in AccSet : u \in G[i] <=> Good(u, i)
  OBVIOUS
<1>3. acc.windows \in Seq(WindowSet) /\ acc.last \in [Services -> Nat]
  BY DEF BuildSet
<1>4. base \in [Services -> Nat] /\ \A s \in Services : base[s] = TotalOf(acc.windows, s)
  BY <1>3, TotalIs
<1> HIDE DEF base
<1>5. Start \in G[0]
  <2>1. 0 \in 0..Len(evs) /\ Win(0) = {}
    BY <1>1
  <2>2. Start \in AccSet
    BY DEF AccSet, BuildSet
  <2>3. Counting(Start, base)
    <3>1. ASSUME NEW s \in Services
          PROVE  /\ base[s] + Start.in[s] = Start.last[s]
                 /\ NewestCount(Start.last[s], ToSet(Start.events), s)
      <4>1. acc.last[s] = base[s] /\ NewestCount(acc.last[s], A, s) /\ base[s] \in Nat
        BY <1>4 DEF CountedUp
      <4> QED BY <4>1
    <3> QED BY <3>1 DEF Counting
  <2>4. Good(Start, 0)
    BY <2>1, <2>3
  <2> HIDE DEF G, Good, Start
  <2> QED BY <1>2, <2>1, <2>2, <2>4
<1>6. ASSUME NEW i \in 1..Len(evs), NEW u \in AccSet, u \in G[i - 1]
      PROVE  IF evs[i].t = id THEN Aggregate(u, evs[i]) \in G[i] ELSE u \in G[i]
  <2>1. i - 1 \in 0..Len(evs) /\ i \in 0..Len(evs) /\ i \in Nat
    BY <1>1
  <2>2. Good(u, i - 1)
    <3> HIDE DEF G, Good
    <3> QED BY <1>2, <1>6, <2>1
  <2>3. PICK e \in EventSet : e = evs[i]
    BY <1>1
  <2>4. \A j : j \in 1..i <=> (j \in 1..i - 1 \/ j = i)
    BY <2>1
  <2>5. CASE e.t = id
    <3>1. PICK b : b = Aggregate(u, e)
      OBVIOUS
    <3>2. b \in AccSet /\ b.events = Append(u.events, e)
      BY <3>1, AggregateIs
    <3>3. Win(i) = Win(i - 1) \cup {e}
      BY <2>3, <2>4, <2>5
    <3>4. \A f \in A : Below(f, e)
      BY <1>1, <2>3, <2>5
    <3>5. ASSUME NEW f \in Win(i - 1)
          PROVE  Below(f, e)
      <4>1. PICK j \in 1..i - 1 : f = evs[j] /\ evs[j].t = id
        OBVIOUS
      <4>2. j \in 1..Len(evs) /\ j < i
        BY <1>1, <2>1
      <4> QED BY <2>3, <2>5, <4>1, <4>2
    <3>6. \A f \in ToSet(u.events) : Below(f, e)
      <4> HIDE DEF Win, A
      <4> QED BY <2>2, <3>4, <3>5
    <3>7. Counting(b, base)
      BY <1>4, <2>2, <3>1, <3>6, AggregateCounts
    <3>8. ToSet(b.events) = ToSet(u.events) \cup {e}
      <4>1. u.events \in Seq(EventSet)
        BY DEF AccSet
      <4> QED BY <3>2, <4>1, SetOfAppend
    <3>9. Good(b, i)
      <4> HIDE DEF Win, A
      <4> QED BY <2>2, <3>3, <3>7, <3>8
    <3> HIDE DEF G, Good
    <3> QED BY <1>2, <2>1, <2>3, <2>5, <3>1, <3>2, <3>9
  <2>6. CASE e.t # id
    <3>1. Win(i) = Win(i - 1)
      BY <2>3, <2>4, <2>6
    <3>2. Good(u, i)
      <4> HIDE DEF Win, A
      <4> QED BY <2>2, <3>1
    <3> HIDE DEF G, Good
    <3> QED BY <1>2, <2>1, <2>3, <2>6, <3>2
  <2> QED BY <2>5, <2>6
<1>7. PICK u \in AccSet : /\ u \in G[Len(evs)]
                          /\ Build(acc, id, evs) =
                               [last |-> u.last, events |-> u.events,
                                windows |-> Append(acc.windows, [id |-> id, in |-> u.in])]
  <2> HIDE DEF G
  <2> QED BY <1>5, <1>6, BuildLoop
<1>8. Good(u, Len(evs))
  <2>1. Len(evs) \in 0..Len(evs)
    BY <1>1
  <2> HIDE DEF G, Good
  <2> QED BY <1>2, <1>7, <2>1
<1>9. Win(Len(evs)) = {e \in ToSet(evs) : e.t = id}
  BY <1>1
<1>10. PICK b : b = Build(acc, id, evs)
  OBVIOUS
<1>11. PICK w \in WindowSet : w = [id |-> id, in |-> u.in]
  BY DEF WindowSet, AccSet
<1>12. b.last = u.last /\ b.events = u.events /\ b.windows = Append(acc.windows, w)
  BY <1>7, <1>10, <1>11
<1>13. ASSUME NEW s \in Services
       PROVE  TotalOf(b.windows, s) = b.last[s] /\ NewestCount(b.last[s], ToSet(b.events), s)
  <2>1. TotalOf(b.windows, s) = TotalOf(acc.windows, s) + w.in[s]
    BY <1>3, <1>12, TotalIs
  <2>2. w.in[s] = u.in[s]
    BY <1>11
  <2>3. base[s] + u.in[s] = u.last[s] /\ NewestCount(u.last[s], ToSet(u.events), s)
    BY <1>8 DEF Counting
  <2> QED BY <1>4, <1>12, <2>1, <2>2, <2>3
<1>14. CountedUp(b)
  BY <1>13 DEF CountedUp
<1> QED BY <1>8, <1>9, <1>10, <1>12, <1>14

\* The windows a tick closes count up, one after another.
LEMMA BuiltCounts ==
  ASSUME TypeInv, CollectorTick, CountedUp(PublishStart),
         \A f \in ToSet(aggregated) : \A e \in ToSet(Arrived) : Below(f, e),
         \A f \in ToSet(Arrived) : \A e \in ToSet(Arrived) : f.t < e.t => Below(f, e),
         \A i, j \in 1..Len(Arrived) : i < j => Below(Arrived[i], Arrived[j])
  PROVE  /\ CountedUp(Built)
         /\ ToSet(Built.events) = ToSet(aggregated) \cup {e \in ToSet(Arrived) : e.t \in Closing}
<1>1. PICK evs \in Seq(EventSet), w \in Nat : evs = Arrived /\ w = Newest
  BY TickIs, Constants
<1>2. PICK C : C = Closing
  OBVIOUS
<1> DEFINE A == ToSet(aggregated)
           Win(i) == {e \in ToSet(evs) : e.t \in C /\ e.t <= i}
           Good(u, i) == CountedUp(u) /\ ToSet(u.events) = A \cup Win(i)
           G == [i \in 0..w |-> {u \in BuildSet : Good(u, i)}]
<1>3. PublishStart \in BuildSet /\ PublishStart.events = aggregated
  BY PublishStartIs DEF PublishStart
<1>4. \A i \in 0..w : \A u \in BuildSet : u \in G[i] <=> Good(u, i)
  OBVIOUS
<1>5. C \subseteq 1..w
  BY <1>1, <1>2, ClosingIs
<1>6. \A e \in ToSet(evs) : e \in EventSet /\ e.t \in Nat
  <2>1. ToSet(evs) \in SUBSET EventSet
    BY SetOf
  <2>2. \A e \in EventSet : e.t \in 1..MaxNow
    BY DEF EventSet
  <2> QED BY <2>1, <2>2
<1>7. PublishStart \in G[0]
  <2>1. Win(0) = {}
    BY <1>5, <1>6
  <2>2. Good(PublishStart, 0)
    BY <1>3, <2>1
  <2>3. 0 \in 0..w
    OBVIOUS
  <2> HIDE DEF G, Good
  <2> QED BY <1>3, <1>4, <2>2, <2>3
<1>8. ASSUME NEW i \in 1..w, NEW u \in BuildSet, u \in G[i - 1]
      PROVE  IF i \in C THEN Build(u, i, evs) \in G[i] ELSE u \in G[i]
  <2>1. i - 1 \in 0..w /\ i \in 0..w /\ i \in Nat
    OBVIOUS
  <2>2. Good(u, i - 1)
    <3> HIDE DEF G, Good
    <3> QED BY <1>4, <1>8, <2>1
  <2>3. CASE i \in C
    <3>1. PICK b : b = Build(u, i, evs)
      OBVIOUS
    <3>2. ASSUME NEW f \in ToSet(u.events), NEW e \in ToSet(evs), e.t = i
          PROVE  Below(f, e)
      <4>1. CASE f \in A
        BY <1>1, <4>1
      <4>2. CASE f \in Win(i - 1)
        <5>1. f \in ToSet(evs) /\ f.t < e.t
          BY <1>6, <2>1, <3>2, <4>2
        <5> QED BY <1>1, <5>1
      <4> HIDE DEF Win, A
      <4> QED BY <2>2, <4>1, <4>2
    <3>3. /\ CountedUp(b)
          /\ ToSet(b.events) = ToSet(u.events) \cup {e \in ToSet(evs) : e.t = i}
      <4>1. CountedUp(u)
        BY <2>2
      <4>2. \A f \in ToSet(u.events) : \A e \in ToSet(evs) : e.t = i => Below(f, e)
        BY <3>2
      <4>3. \A k, j \in 1..Len(evs) :
              k < j /\ evs[k].t = i /\ evs[j].t = i => Below(evs[k], evs[j])
        BY <1>1
      <4> QED BY <2>1, <3>1, <4>1, <4>2, <4>3, BuildCounts
    <3>4. Win(i) = Win(i - 1) \cup {e \in ToSet(evs) : e.t = i}
      <4>1. \A e \in ToSet(evs) : (e.t <= i) <=> (e.t <= i - 1 \/ e.t = i)
        BY <1>6, <2>1
      <4> QED BY <2>3, <4>1
    <3>5. Good(b, i)
      <4> HIDE DEF Win, A
      <4> QED BY <2>2, <3>3, <3>4
    <3>6. b \in BuildSet
      BY <2>1, <3>1, BuildIs
    <3> HIDE DEF G, Good
    <3> QED BY <1>4, <2>1, <2>3, <3>1, <3>5, <3>6
  <2>4. CASE i \notin C
    <3>1. Win(i) = Win(i - 1)
      <4>1. \A e \in ToSet(evs) : e.t \in C => ((e.t <= i) <=> (e.t <= i - 1))
        BY <1>6, <2>1, <2>4
      <4> QED BY <4>1
    <3>2. Good(u, i)
      <4> HIDE DEF Win, A
      <4> QED BY <2>2, <3>1
    <3> HIDE DEF G, Good
    <3> QED BY <1>4, <2>1, <2>4, <3>2
  <2> QED BY <2>3, <2>4
<1>9. Published(C, evs, w) \in BuildSet /\ Published(C, evs, w) \in G[w]
  <2> HIDE DEF G
  <2> QED BY <1>3, <1>7, <1>8, PublishLoop DEF PublishStart
<1>10. Good(Built, w)
  <2>1. w \in 0..w /\ Built = Published(C, evs, w)
    BY <1>1, <1>2 DEF Built
  <2> HIDE DEF G, Good
  <2> QED BY <1>4, <1>9, <2>1
<1>11. Win(w) = {e \in ToSet(evs) : e.t \in C}
  <2>1. \A i \in C : i <= w
    BY <1>5
  <2> QED BY <2>1
<1> QED BY <1>1, <1>2, <1>10, <1>11

-----------------------------------------------------------------------------
(* What travels in turn *)

\* The snapshots an emitter has sent but not done with, and all it holds.
Posted(em) == ToSet(em.retained) \cup ToSet(em.posting)
Own(em)    == Posted(em) \cup ToSet(em.rings[0])

\* What the collector has admitted but not put in a window, and all that is known of.
Open  == ToSet(store) \cup ToSet(queues[0])
Known == Snaps(Open \cup ToSet(aggregated) \cup UNION {Own(emitters[s]) : s \in Services})

\* Counters and clocks never run backwards.
Agrees(a, b) == a.svc = b.svc /\ a.seq <= b.seq => a.count <= b.count /\ a.t <= b.t

Dated(e) == /\ e.seq < emitters[e.svc].seq /\ e.count <= emitters[e.svc].count
            /\ e.t <= now

KnownInv == (\A e \in Known : Dated(e)) /\ \A a, b \in Known : Agrees(a, b)

\* An emitter's snapshots are its own and in turn.
EmitterTurns(em, s) ==
  /\ InTurn(em.retained) /\ InTurn(em.posting) /\ InTurn(em.rings[0])
  /\ Precede(Posted(em), ToSet(em.rings[0]))
  /\ \A e \in Snaps(Own(em)) : e.svc = s
TurnsInv == \A s \in Services : EmitterTurns(emitters[s], s)

\* A snapshot of a post that the collector does not know, keys being those it does, is still
\* with its emitter, and an older one that is too is in the same post.
WireOK(em, m, keys) ==
  /\ InTurn(m.events)
  /\ \A e \in Snaps(ToSet(m.events)) :
       /\ e.svc = m.svc /\ e.seq < em.seq
       /\ Key(e) \notin keys => e \in Posted(em)
       /\ \A f \in Snaps(Own(em)) :
            Key(f) \notin keys /\ f.seq <= e.seq => f \in ToSet(m.events)
WireInv == \A m \in wire : WireOK(emitters[m.svc], m, ToSet(seen))

\* What is admitted is in turn, and before all the collector does not know yet.
OpenInv ==
  /\ InTurn(store) /\ InTurn(queues[0]) /\ Precede(ToSet(store), ToSet(queues[0]))
  /\ \A s \in Services : \A e \in Snaps(Own(emitters[s])) :
       Key(e) \notin ToSet(seen) => Precede(Open, {e})

WindowsInv ==
  /\ \A e \in Snaps(ToSet(aggregated)) : e.t <= lastClosedId
  /\ CountedUp(PublishStart)

CountInv == Undisturbed => (KnownInv /\ TurnsInv /\ WireInv /\ OpenInv /\ WindowsInv)

LEMMA OwnTypes ==
  ASSUME NEW em, EmitterOK(em)
  PROVE  /\ Own(em) \subseteq EventSet /\ em.seq \in Nat /\ em.count \in Nat
         /\ em.retained \in Seq(EventSet) /\ em.posting \in Seq(EventSet)
         /\ em.rings \in QueueSet /\ em.rings[0] \in Seq(EventSet)
         /\ \A e \in ToSet(em.rings[0]) : e.pri = 0
<1>1. /\ em.retained \in Seq(EventSet) /\ em.posting \in Seq(EventSet) /\ em.rings \in QueueSet
      /\ em.seq \in Nat /\ em.count \in Nat
  BY DEF EmitterOK, EmitterSet
<1>2. 0 \in Priorities
  BY DEF Priorities
<1>3. em.rings[0] \in Seq(EventSet)
  BY <1>1, <1>2 DEF QueueSet
<1>4. /\ ToSet(em.retained) \in SUBSET EventSet
      /\ ToSet(em.posting) \in SUBSET EventSet
      /\ ToSet(em.rings[0]) \in SUBSET EventSet
  BY <1>1, <1>3, SetOf
<1>5. Own(em) \subseteq EventSet
  BY <1>4 DEF Own, Posted
<1>6. \A e \in ToSet(em.rings[0]) : e.pri = 0
  BY <1>2 DEF EmitterOK, InPlace
<1> QED BY <1>1, <1>3, <1>5, <1>6

LEMMA KnownTypes ==
  ASSUME TypeInv
  PROVE  /\ Open \subseteq EventSet /\ ToSet(aggregated) \subseteq EventSet
         /\ queues \in QueueSet /\ queues[0] \in Seq(EventSet) /\ store \in Seq(EventSet)
         /\ (\A e \in ToSet(queues[0]) : e.pri = 0)
         /\ \A e \in Known : e \in EventSet /\ e.pri = 0 /\ e.svc \in Services
<1>1. /\ queues \in QueueSet /\ InPlace(queues) /\ store \in Seq(EventSet)
      /\ aggregated \in Seq(EventSet)
  BY DEF TypeInv, CollectorInv, IngestOK, Intake, IngestSet
<1>2. 0 \in Priorities
  BY DEF Priorities
<1>3. queues[0] \in Seq(EventSet) /\ \A e \in ToSet(queues[0]) : e.pri = 0
  BY <1>1, <1>2 DEF QueueSet, InPlace
<1>4. /\ ToSet(queues[0]) \in SUBSET EventSet
      /\ ToSet(store) \in SUBSET EventSet
      /\ ToSet(aggregated) \in SUBSET EventSet
  BY <1>1, <1>3, SetOf
<1>5. ASSUME NEW e \in Known
      PROVE  e \in EventSet /\ e.pri = 0 /\ e.svc \in Services
  <2>1. e.pri = 0
    BY DEF Known, Snaps
  <2>2. \/ e \in Open \/ e \in ToSet(aggregated)
        \/ \E s \in Services : e \in Own(emitters[s])
    BY DEF Known, Snaps
  <2>3. \A s \in Services : Own(emitters[s]) \subseteq EventSet
    <3> SUFFICES ASSUME NEW s \in Services PROVE Own(emitters[s]) \subseteq EventSet
      OBVIOUS
    <3>1. EmitterOK(emitters[s])
      BY DEF TypeInv, EmittersInv
    <3> QED BY <3>1, OwnTypes
  <2>4. e \in EventSet
    BY <1>4, <2>2, <2>3 DEF Open
  <2> QED BY <2>1, <2>4 DEF EventSet
<1> QED BY <1>1, <1>3, <1>4, <1>5 DEF Open

\* Where a snapshot is known from.
LEMMA KnownFrom ==
  /\ Snaps(Open) \subseteq Known /\ Snaps(ToSet(aggregated)) \subseteq Known
  /\ \A s \in Services : Snaps(Own(emitters[s])) \subseteq Known
BY DEF Known, Snaps

\* What is known grows no more than what the emitter that changes holds.
LEMMA KnownStep ==
  ASSUME NEW s \in Services, NEW em, NEW d, Replaces(s, em, d), UNCHANGED collectorVars,
         NEW Z, Own(d) \subseteq Own(em) \cup Z
  PROVE  Known' \subseteq Known \cup Snaps(Z)
<1>1. Open' = Open /\ ToSet(aggregated)' = ToSet(aggregated)
  BY DEF Open, collectorVars
<1>2. ASSUME NEW e \in Known'
      PROVE  e \in Known \cup Snaps(Z)
  <2>1. e.pri = 0
    BY DEF Known, Snaps
  <2>2. CASE e \in Open \/ e \in ToSet(aggregated)
    BY <2>1, <2>2, KnownFrom DEF Snaps
  <2>3. CASE \E x \in Services : e \in Own(emitters'[x])
    <3>1. PICK x \in Services : e \in Own(emitters'[x])
      BY <2>3
    <3>2. e \in Own(emitters[x]) \/ e \in Z
      BY <3>1 DEF Replaces
    <3> QED BY <2>1, <3>2, KnownFrom DEF Snaps
  <2>4. \/ e \in Open \/ e \in ToSet(aggregated)
        \/ \E x \in Services : e \in Own(emitters'[x])
    <3>1. \/ e \in Open' \/ e \in ToSet(aggregated)'
          \/ \E x \in Services : e \in Own(emitters'[x])
      BY DEF Known, Snaps
    <3> QED BY <1>1, <3>1
  <2> QED BY <2>2, <2>3, <2>4
<1> QED BY <1>2

\* Nothing new is known, and no number or count goes back.
LEMMA KnownKept ==
  ASSUME TypeInv, KnownInv, Known' \subseteq Known, now' \in Nat, now <= now',
         \A s \in Services : /\ emitters'[s].seq = emitters[s].seq
                             /\ emitters'[s].count = emitters[s].count
  PROVE  KnownInv'
<1>1. now \in Nat
  BY Constants DEF TypeInv, RunInv
<1>2. ASSUME NEW e \in Known'
      PROVE  Dated(e)'
  <2>1. e \in EventSet /\ e.svc \in Services /\ Dated(e)
    BY KnownTypes DEF KnownInv
  <2>2. e.t \in Nat
    BY <2>1 DEF EventSet
  <2>3. e.t <= now'
    BY <1>1, <2>1, <2>2 DEF Dated
  <2> QED BY <2>1, <2>3 DEF Dated
<1>3. \A a, b \in Known' : Agrees(a, b)
  BY DEF KnownInv
<1> QED BY <1>2, <1>3 DEF KnownInv

\* Nothing of the collector changes.
LEMMA CollectorStays ==
  ASSUME UNCHANGED collectorVars
  PROVE  /\ Open' = Open /\ ToSet(seen)' = ToSet(seen) /\ PublishStart' = PublishStart
         /\ WindowsInv => WindowsInv'
<1>1. Open' = Open /\ ToSet(seen)' = ToSet(seen) /\ PublishStart' = PublishStart
  BY DEF collectorVars, Open, PublishStart
<1>2. WindowsInv => WindowsInv'
  BY <1>1 DEF WindowsInv, collectorVars
<1> QED BY <1>1, <1>2

\* An emitter gives up what the collector knows, and only that: its posts are as good.
LEMMA WireShrinks ==
  ASSUME NEW em, NEW d, NEW m, NEW keys, WireOK(em, m, keys), d.seq = em.seq,
         Snaps(Own(d)) \subseteq Own(em),
         \A e \in Posted(em) : Key(e) \notin keys => e \in Posted(d)
  PROVE  WireOK(d, m, keys)
<1>1. Snaps(Own(d)) \subseteq Snaps(Own(em))
  BY DEF Snaps
<1> QED BY <1>1 DEF WireOK

\* An emitter changes and holds no new snapshot.
LEMMA ShrinkCounts ==
  ASSUME TypeInv, KnownInv, TurnsInv, WireInv, OpenInv, WindowsInv,
         NEW s \in Services, NEW em, NEW d, Replaces(s, em, d),
         UNCHANGED <<now, collectorVars>>, d.seq = em.seq, d.count = em.count,
         Snaps(Own(d)) \subseteq Own(em), EmitterTurns(d, s),
         \A e \in Posted(em) : Key(e) \notin ToSet(seen) => e \in Posted(d),
         \A m \in wire' : m \in wire \/ (m.svc = s /\ WireOK(d, m, ToSet(seen)))
  PROVE  KnownInv' /\ TurnsInv' /\ WireInv' /\ OpenInv' /\ WindowsInv'
<1>1. /\ emitters[s] = em /\ emitters'[s] = d
      /\ \A x \in Services : x # s => emitters'[x] = emitters[x]
  BY DEF Replaces
<1>2. KnownInv'
  <2>1. PICK Z : Z = Own(d) \ Own(em)
    OBVIOUS
  <2>2. Own(d) \subseteq Own(em) \cup Z /\ Snaps(Z) = {}
    BY <2>1 DEF Snaps
  <2>3. Known' \subseteq Known \cup Snaps(Z)
    BY <2>2, KnownStep
  <2>4. Known' \subseteq Known
    BY <2>2, <2>3
  <2>5. now' \in Nat /\ now <= now'
    <3>1. now \in 1..MaxNow /\ now' = now
      BY DEF TypeInv, RunInv
    <3> QED BY <3>1
  <2>6. \A x \in Services : /\ emitters'[x].seq = emitters[x].seq
                            /\ emitters'[x].count = emitters[x].count
    BY <1>1
  <2> QED BY <2>4, <2>5, <2>6, KnownKept
<1>3. TurnsInv'
  <2>1. \A x \in Services : EmitterTurns(emitters'[x], x)
    BY <1>1 DEF TurnsInv
  <2> QED BY <2>1 DEF TurnsInv
<1>4. WireInv'
  <2>1. PICK S : S = ToSet(seen)
    OBVIOUS
  <2>2. ASSUME NEW m \in wire'
        PROVE  WireOK(emitters'[m.svc], m, S)
    <3>1. CASE m \in wire
      <4>1. WireOK(emitters[m.svc], m, S) /\ m.svc \in Services
        BY <2>1, <3>1 DEF WireInv, TypeInv, NetInv, MsgSet
      <4>2. CASE m.svc = s
        <5>1. WireOK(em, m, S)
          BY <1>1, <4>1, <4>2
        <5>2. WireOK(d, m, S)
          BY <2>1, <5>1, WireShrinks
        <5> QED BY <1>1, <4>2, <5>2
      <4>3. CASE m.svc # s
        BY <1>1, <4>1, <4>3
      <4> QED BY <4>2, <4>3
    <3>2. CASE m.svc = s /\ WireOK(d, m, S)
      BY <1>1, <3>2
    <3> QED BY <2>1, <3>1, <3>2
  <2>3. ToSet(seen)' = S
    BY <2>1, CollectorStays
  <2> QED BY <2>2, <2>3 DEF WireInv
<1>5. OpenInv'
  <2>1. store' = store /\ queues' = queues /\ Open' = Open /\ ToSet(seen)' = ToSet(seen)
    BY CollectorStays DEF collectorVars
  <2>2. \A x \in Services : Snaps(Own(emitters'[x])) \subseteq Snaps(Own(emitters[x]))
    BY <1>1 DEF Snaps
  <2>3. \A x \in Services : \A e \in Snaps(Own(emitters'[x])) :
          Key(e) \notin ToSet(seen) => Precede(Open, {e})
    BY <2>2 DEF OpenInv
  <2> QED BY <2>1, <2>3 DEF OpenInv
<1>6. WindowsInv'
  BY CollectorStays
<1> QED BY <1>2, <1>3, <1>4, <1>5, <1>6

\* An event is enqueued: of the snapshots' ring nothing is displaced.
LEMMA EnqueueTurn ==
  ASSUME NEW em, EmitterOK(em), NEW e \in EventSet, NEW d, d = Enqueue(em, e)
  PROVE  d.rings[0] = em.rings[0] \/ (e.pri = 0 /\ d.rings[0] = Append(em.rings[0], e))
<1>1. em \in EmitterSet
  BY DEF EmitterOK
<1>2. Enqueued(d, em, e) \/ d.rings = em.rings
  BY <1>1, EnqueueIs
<1>3. 0 \in Priorities
  BY DEF Priorities
<1>4. CASE Enqueued(d, em, e)
  <2>1. PICK rs \in QueueSet :
          /\ rs = em.rings \/ RoomMade(rs, em.rings)
          /\ \A p \in Priorities : d.rings[p] = IF p = e.pri THEN Append(rs[p], e) ELSE rs[p]
    BY <1>4 DEF Enqueued
  <2>2. rs[0] = em.rings[0]
    BY <1>3, <2>1 DEF RoomMade
  <2>3. d.rings[0] = IF 0 = e.pri THEN Append(rs[0], e) ELSE rs[0]
    BY <1>3, <2>1
  <2> QED BY <2>2, <2>3
<1> QED BY <1>2, <1>4

LEMMA ProduceCounts ==
  ASSUME TypeInv, KnownInv, TurnsInv, WireInv, OpenInv, WindowsInv,
         NEW s \in Services, Produce(s)
  PROVE  KnownInv' /\ TurnsInv' /\ WireInv' /\ OpenInv' /\ WindowsInv'
<1>1. PICK c, e, d : Produced(s, c, e, d)
  BY ProduceIs
<1>2. PICK em : em = emitters[s]
  OBVIOUS
<1>3. EmitterOK(em) /\ EmitterOK(c) /\ EmitterOK(d) /\ e \in EventSet /\ d = Enqueue(c, e)
  BY <1>1, <1>2 DEF Produced, TypeInv, EmittersInv
<1>4. Replaces(s, em, d)
  BY <1>1, <1>2, <1>3, ReplacesIs DEF Produced
<1>5. /\ emitters[s] = em /\ emitters'[s] = d
      /\ \A x \in Services : x # s => emitters'[x] = emitters[x]
  BY <1>4 DEF Replaces
<1>6. d.seq = c.seq + 1 /\ d.count = c.count /\ d.retained = c.retained /\ d.posting = c.posting
  <2>1. c \in EmitterSet
    BY <1>3 DEF EmitterOK
  <2>2. d.seq = c.seq + 1 /\ SameButRings(d, c)
    BY <1>3, <2>1, EnqueueIs
  <2> QED BY <2>2 DEF SameButRings
<1>7. /\ c.seq = em.seq /\ c.rings = em.rings /\ c.retained = em.retained
      /\ c.posting = em.posting /\ e.svc = s /\ e.seq = em.seq /\ e.t = now
      /\ \/ e.pri = 1 /\ c.count = em.count + 1
         \/ e.pri = 0 /\ c.count = em.count /\ e.count = em.count
  BY <1>1, <1>2 DEF Produced
<1>8. PICK n \in Nat, k \in Nat, k1 \in Nat, t \in Nat :
        n = em.seq /\ k = em.count /\ k1 = d.count /\ t = now
  <2>1. em.seq \in Nat /\ em.count \in Nat /\ d.count \in Nat
    BY <1>3, OwnTypes
  <2>2. now \in Nat
    BY Constants DEF TypeInv, RunInv
  <2> QED BY <2>1, <2>2
<1>9. d.seq = n + 1 /\ k <= k1 /\ now' = t /\ UNCHANGED <<collectorVars, wire>>
  BY <1>6, <1>7, <1>8 DEF Produce
<1>10. d.rings[0] = em.rings[0] \/ (e.pri = 0 /\ d.rings[0] = Append(em.rings[0], e))
  BY <1>3, <1>7, EnqueueTurn
<1>11. Posted(d) = Posted(em)
  BY <1>6, <1>7 DEF Posted
<1>12. PICK Z : Z = {e}
  OBVIOUS
<1>13. Own(d) \subseteq Own(em) \cup Z
  <2>1. em.rings[0] \in Seq(EventSet)
    BY <1>3, OwnTypes
  <2>2. ToSet(Append(em.rings[0], e)) = ToSet(em.rings[0]) \cup {e}
    BY <1>3, <2>1, SetOfAppend
  <2> QED BY <1>10, <1>11, <1>12, <2>2 DEF Own
<1>14. Known' \subseteq Known \cup Snaps(Z)
  BY <1>4, <1>9, <1>13, KnownStep
<1>15. \A x \in Known : /\ x \in EventSet /\ x.pri = 0 /\ x.svc \in Services /\ Dated(x)
                        /\ x.seq \in Nat /\ x.count \in Nat /\ x.t \in Nat
  <2>1. \A x \in EventSet : x.seq \in Nat /\ x.count \in Nat /\ x.t \in Nat
    BY Constants DEF EventSet, Numbers
  <2> QED BY <2>1, KnownTypes DEF KnownInv
<1>16. \A x \in Known : x.svc = s => x.seq < n /\ x.count <= k /\ x.t <= t
  BY <1>5, <1>8, <1>15 DEF Dated
<1>17. \A x \in Snaps(Z) : x = e /\ e.pri = 0 /\ e.count = k /\ k1 = k
  BY <1>6, <1>7, <1>8, <1>12 DEF Snaps
<1>18. KnownInv'
  <2>1. ASSUME NEW x \in Known'
        PROVE  Dated(x)'
    <3>1. CASE x \in Known
      <4>1. x.svc \in Services /\ Dated(x) /\ x.seq \in Nat /\ x.count \in Nat
        BY <1>15, <3>1
      <4>2. CASE x.svc = s
        <5>1. x.seq < n + 1 /\ x.count <= k1 /\ x.t <= t
          BY <1>8, <1>9, <1>16, <3>1, <4>1, <4>2
        <5> QED BY <1>5, <1>8, <1>9, <4>2, <5>1 DEF Dated
      <4>3. CASE x.svc # s
        BY <1>5, <1>8, <1>9, <4>1, <4>3 DEF Dated
      <4> QED BY <4>2, <4>3
    <3>2. CASE x \in Snaps(Z)
      <4>1. x = e /\ x.svc = s /\ x.seq < n + 1 /\ x.count <= k1 /\ x.t <= t
        BY <1>7, <1>8, <1>17, <3>2
      <4> QED BY <1>5, <1>8, <1>9, <4>1 DEF Dated
    <3> QED BY <1>14, <3>1, <3>2
  <2>2. ASSUME NEW a \in Known', NEW b \in Known'
        PROVE  Agrees(a, b)
    <3>1. CASE a \in Known /\ b \in Known
      BY <3>1 DEF KnownInv
    <3>2. CASE a \in Known /\ b \in Snaps(Z)
      BY <1>7, <1>8, <1>16, <1>17, <3>2 DEF Agrees
    <3>3. CASE a \in Snaps(Z) /\ b \in Known
      <4>1. a = e /\ a.svc = s /\ a.seq = n
        BY <1>7, <1>8, <1>17, <3>3
      <4>2. b.svc = s => b.seq < n /\ b.seq \in Nat
        BY <1>15, <1>16, <3>3
      <4> QED BY <4>1, <4>2 DEF Agrees
    <3>4. CASE a \in Snaps(Z) /\ b \in Snaps(Z)
      <4>1. a = b /\ a.count = k /\ a.t = t
        BY <1>7, <1>8, <1>17, <3>4
      <4> QED BY <4>1 DEF Agrees
    <3> QED BY <1>14, <3>1, <3>2, <3>3, <3>4
  <2> QED BY <2>1, <2>2 DEF KnownInv
<1>19. Snaps(Own(em)) \subseteq Known
  BY <1>5, KnownFrom
<1>20. TurnsInv'
  <2>1. EmitterTurns(em, s)
    BY <1>5 DEF TurnsInv
  <2>2. ASSUME e.pri = 0
        PROVE  \A A : A \subseteq Own(em) => Precede(A, {e})
    <3>1. ASSUME NEW x \in Own(em), x.pri = 0, x.svc = s
          PROVE  x.seq < n
      <4>1. x \in Known
        BY <1>19, <3>1 DEF Snaps
      <4> QED BY <1>16, <3>1, <4>1
    <3>2. \A x \in Own(em) : Older(x, e)
      BY <1>7, <1>8, <3>1 DEF Older
    <3> QED BY <3>2 DEF Precede
  <2>3. em.rings[0] \in Seq(EventSet)
    BY <1>3, OwnTypes
  <2>4. ToSet(em.rings[0]) \subseteq Own(em) /\ Posted(em) \subseteq Own(em)
    BY DEF Own
  <2>5. InTurn(d.rings[0]) /\ Precede(Posted(d), ToSet(d.rings[0]))
    <3>1. CASE d.rings[0] = em.rings[0]
      BY <1>11, <2>1, <3>1 DEF EmitterTurns
    <3>2. CASE e.pri = 0 /\ d.rings[0] = Append(em.rings[0], e)
      <4>1. Precede(ToSet(em.rings[0]), {e}) /\ Precede(Posted(em), {e})
        BY <2>2, <2>4, <3>2
      <4>2. InTurn(Append(em.rings[0], e))
        BY <1>3, <2>1, <2>3, <4>1, InTurnAppend DEF EmitterTurns
      <4>3. ToSet(Append(em.rings[0], e)) = ToSet(em.rings[0]) \cup {e}
        BY <1>3, <2>3, SetOfAppend
      <4>4. Precede(Posted(em), ToSet(em.rings[0]) \cup {e})
        BY <2>1, <4>1 DEF EmitterTurns, Precede
      <4> QED BY <1>11, <3>2, <4>2, <4>3, <4>4
    <3> QED BY <1>10, <3>1, <3>2
  <2>6. \A x \in Snaps(Own(d)) : x.svc = s
    <3>1. \A x \in Snaps(Own(d)) : x \in Snaps(Own(em)) \/ x = e
      BY <1>12, <1>13 DEF Snaps
    <3> QED BY <1>7, <2>1, <3>1 DEF EmitterTurns
  <2>7. EmitterTurns(d, s)
    BY <1>6, <1>7, <2>1, <2>5, <2>6 DEF EmitterTurns
  <2>8. \A x \in Services : EmitterTurns(emitters'[x], x)
    BY <1>5, <2>7 DEF TurnsInv
  <2> QED BY <2>8 DEF TurnsInv
<1>21. WireInv'
  <2>1. PICK S : S = ToSet(seen)
    OBVIOUS
  <2>2. ASSUME NEW m \in wire
        PROVE  WireOK(emitters'[m.svc], m, S)
    <3>1. WireOK(emitters[m.svc], m, S) /\ m.svc \in Services /\ m.events \in Seq(EventSet)
      BY <2>1 DEF WireInv, TypeInv, NetInv, MsgSet
    <3>2. CASE m.svc = s
      <4>1. WireOK(em, m, S)
        BY <1>5, <3>1, <3>2
      <4>2. ASSUME NEW x \in Snaps(ToSet(m.events))
            PROVE  /\ x.svc = m.svc /\ x.seq < d.seq
                   /\ Key(x) \notin S => x \in Posted(d)
                   /\ \A f \in Snaps(Own(d)) :
                        Key(f) \notin S /\ f.seq <= x.seq => f \in ToSet(m.events)
        <5>1. /\ x.svc = m.svc /\ x.seq < n
              /\ Key(x) \notin S => x \in Posted(em)
              /\ \A f \in Snaps(Own(em)) :
                   Key(f) \notin S /\ f.seq <= x.seq => f \in ToSet(m.events)
          BY <1>8, <4>1 DEF WireOK
        <5>2. x.seq \in Nat
          <6>1. ToSet(m.events) \in SUBSET EventSet
            BY <3>1, SetOf
          <6>2. x \in EventSet
            BY <6>1 DEF Snaps
          <6> QED BY <6>2, KeyType
        <5>3. ~(n <= x.seq) /\ x.seq < n + 1
          BY <5>1, <5>2
        <5>4. \A f \in Snaps(Own(d)) : f \in Snaps(Own(em)) \/ f.seq = n
          BY <1>7, <1>8, <1>12, <1>13 DEF Snaps
        <5> QED BY <1>9, <1>11, <5>1, <5>3, <5>4
      <4>3. WireOK(d, m, S)
        BY <4>1, <4>2 DEF WireOK
      <4> QED BY <1>5, <3>2, <4>3
    <3>3. CASE m.svc # s
      BY <1>5, <3>1, <3>3
    <3> QED BY <3>2, <3>3
  <2>3. ToSet(seen)' = S /\ wire' = wire
    BY <1>9, <2>1, CollectorStays
  <2> QED BY <2>2, <2>3 DEF WireInv
<1>22. OpenInv'
  <2>1. store' = store /\ queues' = queues /\ Open' = Open /\ ToSet(seen)' = ToSet(seen)
    BY <1>9, CollectorStays DEF collectorVars
  <2>2. Precede(Open, {e})
    <3>1. ASSUME NEW x \in Open, x.pri = 0, x.svc = s
          PROVE  x.seq < n
      <4>1. x \in Known
        BY <3>1, KnownFrom DEF Snaps
      <4> QED BY <1>16, <3>1, <4>1
    <3> QED BY <1>7, <1>8, <3>1 DEF Precede, Older
  <2>3. ASSUME NEW x \in Services, NEW f \in Snaps(Own(emitters'[x])),
               Key(f) \notin ToSet(seen)
        PROVE  Precede(Open, {f})
    <3>1. CASE x = s
      <4>1. f \in Snaps(Own(em)) \/ f = e
        BY <1>5, <1>12, <1>13, <2>3, <3>1 DEF Snaps
      <4> QED BY <1>5, <2>2, <2>3, <4>1 DEF OpenInv
    <3>2. CASE x # s
      BY <1>5, <2>3, <3>2 DEF OpenInv
    <3> QED BY <3>1, <3>2
  <2> QED BY <2>1, <2>3 DEF OpenInv
<1>23. WindowsInv'
  BY <1>9, CollectorStays
<1> QED BY <1>18, <1>20, <1>21, <1>22, <1>23

LEMMA SendCounts ==
  ASSUME TypeInv, KnownInv, TurnsInv, WireInv, OpenInv, WindowsInv,
         NEW s \in Services, Send(s)
  PROVE  KnownInv' /\ TurnsInv' /\ WireInv' /\ OpenInv' /\ WindowsInv'
<1>1. /\ Flush(s) /\ emitters \in [Services -> EmitterSet] /\ EmitterOK(emitters[s])
  BY DEF Send, TypeInv, EmittersInv
<1>2. PICK d, kept : /\ emitters' = [emitters EXCEPT ![s] = d]
                     /\ Flushed(emitters[s], kept, d) /\ EmitterOK(d)
  BY <1>1, FlushIs
<1>3. PICK em : em = emitters[s]
  OBVIOUS
<1>4. Replaces(s, em, d) /\ EmitterOK(em)
  BY <1>1, <1>2, <1>3, ReplacesIs
<1>5. PICK qs \in QueueSet, re \in Seq(EventSet) :
        qs = em.rings /\ re = em.retained /\ InPlace(qs) /\ qs[0] \in Seq(EventSet)
  BY <1>4, OwnTypes DEF EmitterOK
<1>6. PICK us, b : us = LeaveRest(qs, BatchMax) /\ b = TakeFirst(qs, BatchMax)
  OBVIOUS
<1>7. b \in Seq(EventSet)
  BY <1>5, <1>6, Constants, LeaveKeeps
<1>8. PICK k : k = Kept(b, kept)
  OBVIOUS
<1>9. k \in Seq(EventSet) /\ ToSet(k) = ToSet(b) \cap kept
  BY <1>7, <1>8, KeptIs
<1>10. /\ em.posting = <<>> /\ d.retained = <<>> /\ d.posting = re \o k /\ d.rings = us
       /\ d.seq = em.seq /\ d.count = em.count
  BY <1>2, <1>3, <1>5, <1>6, <1>8 DEF Flushed
<1>11. EmitterTurns(em, s) /\ emitters[s] = em
  BY <1>3 DEF TurnsInv
<1>12. /\ InTurn(b) /\ InTurn(us[0]) /\ Precede(ToSet(b), ToSet(us[0]))
       /\ Snaps(ToSet(b)) \subseteq ToSet(qs[0]) /\ ToSet(us[0]) \subseteq ToSet(qs[0])
  BY <1>5, <1>6, <1>11, Constants, CutTurn DEF EmitterTurns
<1>13. ToSet(<<>>) = {} /\ InTurn(<<>>)
  BY EmptySeq DEF ToSet, InTurn
<1>14. PICK sent \in Seq(EventSet) : sent = re \o k
  BY <1>9, ConcatProperties
<1>15. ToSet(sent) = ToSet(re) \cup ToSet(k)
  BY <1>9, <1>14, SetOfConcat
<1>16. Posted(em) = ToSet(re) /\ Posted(d) = ToSet(sent)
  BY <1>5, <1>10, <1>13, <1>14 DEF Posted
<1>17. Snaps(ToSet(k)) \subseteq ToSet(qs[0])
  BY <1>9, <1>12 DEF Snaps
<1>18. Precede(ToSet(re), ToSet(qs[0])) /\ InTurn(re)
  BY <1>5, <1>11, <1>16 DEF EmitterTurns
<1>19. InTurn(sent)
  <2>1. InTurn(k)
    BY <1>7, <1>8, <1>12, InTurnKept
  <2>2. Precede(ToSet(re), ToSet(k))
    BY <1>17, <1>18 DEF Precede, Older, Snaps
  <2>3. InTurn(re \o k)
    BY <1>9, <1>18, <2>1, <2>2, InTurnConcat
  <2> QED BY <1>14, <2>3
<1>20. Precede(ToSet(sent), ToSet(us[0]))
  <2>1. \A x \in ToSet(re) : \A y \in ToSet(us[0]) : Older(x, y)
    BY <1>12, <1>18 DEF Precede
  <2>2. \A x \in ToSet(k) : \A y \in ToSet(us[0]) : Older(x, y)
    BY <1>9, <1>12 DEF Precede
  <2> QED BY <1>15, <2>1, <2>2 DEF Precede
\* What it holds is what it held, but for samples taken and posted.
<1>21. \A x \in Own(d) : x \in Own(em) \/ (x.pri # 0 /\ x \in ToSet(k))
  <2>1. ASSUME NEW x \in Own(d)
        PROVE  x \in Own(em) \/ (x.pri # 0 /\ x \in ToSet(k))
    <3>1. x \in ToSet(re) \/ x \in ToSet(k) \/ x \in ToSet(us[0])
      BY <1>10, <1>15, <1>16 DEF Own
    <3> QED BY <1>5, <1>12, <1>16, <1>17, <3>1 DEF Own, Snaps
  <2> QED BY <2>1
<1>22. Snaps(Own(d)) \subseteq Own(em)
  BY <1>21 DEF Snaps
<1>23. \A x \in Snaps(ToSet(sent)) : x \in Snaps(Own(em)) /\ x.svc = s
  <2>1. \A x \in Snaps(ToSet(sent)) : x \in Snaps(Own(em))
    BY <1>16, <1>22 DEF Snaps, Own
  <2> QED BY <1>11, <2>1 DEF EmitterTurns
<1>24. EmitterTurns(d, s)
  <2>1. \A x \in Snaps(Own(d)) : x.svc = s
    <3>1. Snaps(Own(d)) \subseteq Snaps(Own(em))
      BY <1>22 DEF Snaps
    <3> QED BY <1>11, <3>1 DEF EmitterTurns
  <2> QED BY <1>10, <1>12, <1>13, <1>14, <1>16, <1>19, <1>20, <2>1 DEF EmitterTurns
<1>25. \A e \in Posted(em) : e \in Posted(d)
  BY <1>15, <1>16
<1>26. PICK m : m = [svc |-> s, life |-> lives[s], post |-> d.post, events |-> d.posting]
  OBVIOUS
<1>27. WireOK(d, m, ToSet(seen))
  <2>1. m.svc = s /\ m.events = sent
    BY <1>10, <1>14, <1>26
  <2>2. ASSUME NEW x \in Snaps(ToSet(sent))
        PROVE  /\ x.svc = s /\ x.seq < d.seq /\ x \in Posted(d)
               /\ \A f \in Snaps(Own(d)) : f.seq <= x.seq => f \in ToSet(sent)
    <3>1. x.svc = s /\ x \in Posted(d) /\ x \in Known
      BY <1>11, <1>16, <1>23, KnownFrom DEF Snaps
    <3>2. x.seq < d.seq
      BY <1>10, <1>11, <3>1 DEF KnownInv, Dated
    <3>3. ASSUME NEW f \in Snaps(Own(d)), f.seq <= x.seq, f \notin ToSet(sent)
          PROVE  FALSE
      <4>1. f \in ToSet(us[0])
        BY <1>10, <1>16, <3>3 DEF Own, Snaps
      <4>2. f.svc = s
        BY <1>24 DEF EmitterTurns
      <4>3. x.seq < f.seq
        BY <1>20, <3>1, <4>1, <4>2 DEF Precede, Older, Snaps
      <4>4. f \in Known
        BY <1>11, <1>22, KnownFrom DEF Snaps
      <4>5. f \in EventSet /\ x \in EventSet
        BY <3>1, <4>4, KnownTypes
      <4>6. f.seq \in Nat /\ x.seq \in Nat
        BY <4>5, KeyType
      <4> QED BY <3>3, <4>3, <4>6
    <3> QED BY <3>1, <3>2, <3>3
  <2> QED BY <1>19, <2>1, <2>2 DEF WireOK
<1>28. \A w \in wire' : w \in wire \/ (w.svc = s /\ WireOK(d, w, ToSet(seen)))
  <2>1. emitters'[s] = d
    BY <1>4 DEF Replaces
  <2>2. \A w \in wire' : w \in wire \/ w = m
    BY <1>26, <2>1 DEF Send
  <2>3. m.svc = s
    BY <1>26
  <2> QED BY <1>27, <2>2, <2>3
<1>29. UNCHANGED <<now, collectorVars>>
  BY DEF Send
<1> QED BY <1>4, <1>10, <1>22, <1>24, <1>25, <1>28, <1>29, ShrinkCounts

LEMMA AnswerCounts ==
  ASSUME TypeInv, AnsweredInv, KnownInv, TurnsInv, WireInv, OpenInv, WindowsInv,
         NEW r \in replies, Answer(r)
  PROVE  KnownInv' /\ TurnsInv' /\ WireInv' /\ OpenInv' /\ WindowsInv'
<1>1. UNCHANGED <<now, collectorVars, wire>>
  BY DEF Answer
<1>2. PICK s \in Services : s = r.svc /\ r.level \in 0..3
  BY DEF TypeInv, NetInv, ReplySet
<1>3. PICK em : em = emitters[s] /\ EmitterOK(em)
  BY DEF TypeInv, EmittersInv
<1>4. EmitterTurns(em, s)
  BY <1>3 DEF TurnsInv
<1>5. CASE Awaited(r) /\ Acknowledged(r.svc, r.level)
  <2>1. PICK d : d = Answered(em, r.level)
    OBVIOUS
  <2>2. /\ EmitterOK(d) /\ d.seq = em.seq /\ d.rings = em.rings
        /\ d.retained = em.retained /\ d.posting = <<>> /\ d.count = em.count
    BY <1>2, <1>3, <2>1, AcknowledgedIs
  <2>3. emitters' = [emitters EXCEPT ![s] = d]
    <3>1. emitters \in [Services -> EmitterSet]
      BY DEF TypeInv, EmittersInv
    <3> QED BY <1>2, <1>3, <1>5, <2>1, <3>1 DEF Acknowledged, Answered
  <2>4. Replaces(s, em, d)
    BY <1>3, <2>2, <2>3, ReplacesIs
  <2>5. Keys(ToSet(em.posting)) \subseteq ToSet(seen)
    BY <1>2, <1>3, <1>5 DEF Awaited, AnsweredInv, AnsweredKeys
  <2>6. ToSet(<<>>) = {} /\ InTurn(<<>>)
    BY EmptySeq DEF ToSet, InTurn
  <2>7. Posted(d) \subseteq Posted(em) /\ Own(d) \subseteq Own(em)
    BY <2>2, <2>6 DEF Posted, Own
  <2>8. EmitterTurns(d, s)
    BY <1>4, <2>2, <2>6, <2>7 DEF EmitterTurns, Precede, Snaps
  <2>9. \A e \in Posted(em) : Key(e) \notin ToSet(seen) => e \in Posted(d)
    BY <2>2, <2>5 DEF Posted, Keys
  <2>10. Snaps(Own(d)) \subseteq Own(em)
    BY <2>7 DEF Snaps
  <2>11. \A m \in wire' : m \in wire
    BY <1>1
  <2> QED BY <1>1, <2>2, <2>4, <2>8, <2>9, <2>10, <2>11, ShrinkCounts
<1>6. CASE UNCHANGED emitters
  <2>1. emitters' = [emitters EXCEPT ![s] = em]
    BY <1>3, <1>6 DEF TypeInv, EmittersInv
  <2>2. Replaces(s, em, em)
    BY <1>3, <2>1, ReplacesIs
  <2>3. Snaps(Own(em)) \subseteq Own(em) /\ \A m \in wire' : m \in wire
    BY <1>1 DEF Snaps
  <2> QED BY <1>1, <1>4, <2>2, <2>3, ShrinkCounts
<1> QED BY <1>5, <1>6 DEF Answer

LEMMA FailCounts ==
  ASSUME TypeInv, PostInv, KnownInv, TurnsInv, WireInv, OpenInv, WindowsInv,
         NEW s \in Services, Fail(s)
  PROVE  KnownInv' /\ TurnsInv' /\ WireInv' /\ OpenInv' /\ WindowsInv'
<1>1. PICK em : em = emitters[s] /\ EmitterOK(em)
  BY DEF TypeInv, EmittersInv
<1>2. PICK d : d = Failed(em)
  OBVIOUS
<1>3. /\ EmitterOK(d) /\ d.seq = em.seq /\ d.rings = em.rings
      /\ d.retained = em.posting /\ d.posting = <<>> /\ d.count = em.count
  BY <1>1, <1>2, FailedIs
<1>4. UNCHANGED <<now, collectorVars>> /\ wire' \subseteq wire
  BY DEF Fail
<1>5. emitters' = [emitters EXCEPT ![s] = d]
  <2>1. emitters \in [Services -> EmitterSet]
    BY DEF TypeInv, EmittersInv
  <2> QED BY <1>1, <1>2, <2>1 DEF Fail, PostFails, Failed
<1>6. Replaces(s, em, d)
  BY <1>1, <1>3, <1>5, ReplacesIs
<1>7. em.retained = <<>>
  BY <1>1 DEF Fail, PostInv
<1>8. Posted(d) = Posted(em) /\ Own(d) = Own(em)
  BY <1>3, <1>7 DEF Posted, Own
<1>9. EmitterTurns(em, s)
  BY <1>1 DEF TurnsInv
<1>10. EmitterTurns(d, s)
  BY <1>3, <1>7, <1>8, <1>9 DEF EmitterTurns
<1>11. Snaps(Own(d)) \subseteq Own(em) /\ (\A m \in wire' : m \in wire)
  BY <1>4, <1>8 DEF Snaps
<1> QED BY <1>3, <1>4, <1>6, <1>8, <1>10, <1>11, ShrinkCounts

\* Admission appends to the snapshots' queue or leaves it: what is displaced is less important.
LEMMA AdmitTurn ==
  ASSUME NEW a \in IngestSet, NEW e \in EventSet, NEW b, b = AdmitOne(a, e)
  PROVE  /\ a.queues[0] \in Seq(EventSet)
         /\ b.queues[0] = a.queues[0] \/ (e.pri = 0 /\ b.queues[0] = Append(a.queues[0], e))
<1>1. TakesRoom(a, b, e) \/ IsRefused(a, b, e) \/ Displaces(a, b, e, Victim(a.queues))
  BY AdmitCases
<1>2. 0 \in Priorities
  BY DEF Priorities
<1>3. a.queues[0] \in Seq(EventSet)
  BY <1>2 DEF IngestSet, QueueSet
<1>4. CASE TakesRoom(a, b, e)
  BY <1>2, <1>3, <1>4 DEF TakesRoom
<1>5. CASE IsRefused(a, b, e)
  BY <1>3, <1>5 DEF IsRefused
<1>6. CASE Displaces(a, b, e, Victim(a.queues))
  <2>1. PICK v \in Priorities :
          /\ v > e.pri
          /\ \A p \in Priorities :
               b.queues[p] = CASE p = e.pri -> Append(a.queues[p], e)
                               [] p = v /\ p # e.pri -> Tail(a.queues[p])
                               [] p # v /\ p # e.pri -> a.queues[p]
    BY <1>6 DEF Displaces
  <2>2. e.pri \in 0..2 /\ v \in 0..2
    BY DEF EventSet, Priorities
  <2>3. v # 0
    BY <2>1, <2>2
  <2>4. b.queues[0] = CASE 0 = e.pri -> Append(a.queues[0], e)
                        [] 0 = v /\ 0 # e.pri -> Tail(a.queues[0])
                        [] 0 # v /\ 0 # e.pri -> a.queues[0]
    BY <1>2, <2>1
  <2> QED BY <1>3, <2>3, <2>4
<1> QED BY <1>1, <1>4, <1>5, <1>6

\* A batch in turn, none of its new snapshots before a queued one, leaves the queue in turn.
LEMMA IngestTurns ==
  ASSUME RoomyDedup, NEW evs \in Seq(EventSet), IngestOK(Intake), NEW R, ApartFrom(Intake, R),
         InTurn(queues[0]), InTurn(evs),
         \A e \in ToSet(evs) : Key(e) \notin ToSet(seen) => Precede(ToSet(queues[0]), {e})
  PROVE  /\ InTurn(Ingested(evs).queues[0])
         /\ \A x \in ToSet(Ingested(evs).queues[0]) :
              x \in ToSet(queues[0]) \/ (x \in Snaps(ToSet(evs)) /\ Key(x) \notin ToSet(seen))
<1> DEFINE New(i) == {evs[j] : j \in {k \in 1..i : evs[k].pri = 0 /\ Key(evs[k]) \notin ToSet(seen)}}
           Good(u, i) == /\ ToSet(seen) \subseteq ToSet(u.seen) /\ ApartFrom(u, R)
                         /\ InTurn(u.queues[0])
                         /\ ToSet(u.queues[0]) \subseteq ToSet(queues[0]) \cup New(i)
           G == [i \in 0..Len(evs) |-> {u \in IngestSet : Good(u, i)}]
<1>1. Len(evs) \in Nat /\ \A i \in 1..Len(evs) : evs[i] \in EventSet
  BY LenProperties
<1>2. Intake.seen = seen /\ Intake.queues = queues /\ Intake \in IngestSet
  BY DEF Intake, IngestOK
<1>3. \A i \in 0..Len(evs) : \A u \in IngestSet : u \in G[i] <=> Good(u, i)
  OBVIOUS
<1>4. Intake \in G[0]
  <2>1. 0 \in 0..Len(evs)
    BY <1>1
  <2>2. Good(Intake, 0)
    BY <1>2
  <2> HIDE DEF G, Good
  <2> QED BY <1>2, <1>3, <2>1, <2>2
<1>5. ASSUME NEW i \in 1..Len(evs), NEW u, IngestOK(u), u \in G[i - 1]
      PROVE  IngestOne(u, evs[i]) \in G[i]
  <2>1. i - 1 \in 0..Len(evs) /\ i \in 0..Len(evs) /\ i \in Nat
    BY <1>1
  <2>2. Good(u, i - 1) /\ u \in IngestSet
    <3>1. u \in IngestSet
      BY <1>5 DEF IngestOK
    <3> HIDE DEF G, Good
    <3> QED BY <1>3, <1>5, <2>1, <3>1
  <2>3. PICK d : d = IngestOne(u, evs[i])
    OBVIOUS
  <2>4. PICK e \in EventSet : e = evs[i]
    BY <1>1
  <2>5. /\ IngestOK(d) /\ ToSet(d.seen) = ToSet(u.seen) \cup {Key(e)} /\ ApartFrom(d, R)
    BY <1>5, <2>2, <2>3, <2>4, IngestOneKeys
  <2>6. \A j : j \in 1..i <=> (j \in 1..i - 1 \/ j = i)
    BY <2>1
  <2>7. New(i - 1) \subseteq New(i)
    BY <2>6
  <2>8. /\ Key(e) \in ToSet(u.seen) => d.queues = u.queues
        /\ Key(e) \notin ToSet(u.seen) => d.queues = AdmitOne(u, e).queues
    <3>1. IngestOK(u) /\ d = IngestOne(u, e)
      BY <1>5, <2>3, <2>4
    <3> QED BY ONLY <3>1, e \in EventSet, IngestOneIs
  <2>9. /\ u.queues[0] \in Seq(EventSet)
        /\ \/ d.queues[0] = u.queues[0]
           \/ /\ e.pri = 0 /\ Key(e) \notin ToSet(u.seen)
              /\ d.queues[0] = Append(u.queues[0], e)
    <3>1. PICK b : b = AdmitOne(u, e)
      OBVIOUS
    <3>2. /\ u.queues[0] \in Seq(EventSet)
          /\ b.queues[0] = u.queues[0] \/ (e.pri = 0 /\ b.queues[0] = Append(u.queues[0], e))
      BY <2>2, <3>1, AdmitTurn
    <3> QED BY <2>8, <3>1, <3>2
  <2>10. InTurn(d.queues[0]) /\ ToSet(d.queues[0]) \subseteq ToSet(queues[0]) \cup New(i)
    <3>1. CASE d.queues[0] = u.queues[0]
      <4> HIDE DEF New
      <4> QED BY <2>2, <2>7, <3>1
    <3>2. CASE /\ e.pri = 0 /\ Key(e) \notin ToSet(u.seen)
               /\ d.queues[0] = Append(u.queues[0], e)
      <4>1. Key(e) \notin ToSet(seen)
        BY <2>2, <3>2
      <4>2. e \in ToSet(evs)
        BY <2>4, SetOf
      <4>3. \A x \in ToSet(queues[0]) : Older(x, e)
        BY <4>1, <4>2 DEF Precede
      <4>4. ASSUME NEW x \in New(i - 1)
            PROVE  Older(x, e)
        <5>1. PICK j \in 1..i - 1 : x = evs[j]
          OBVIOUS
        <5>2. j \in 1..Len(evs) /\ j < i
          BY <1>1, <2>1
        <5> QED BY <2>4, <5>1, <5>2 DEF InTurn
      <4>5. e \in New(i)
        BY <2>1, <2>4, <3>2, <4>1
      <4> HIDE DEF New
      <4>6. Precede(ToSet(u.queues[0]), {e})
        BY <2>2, <4>3, <4>4 DEF Precede
      <4>7. InTurn(Append(u.queues[0], e))
        BY <2>2, <2>9, <4>6, InTurnAppend
      <4>8. ToSet(Append(u.queues[0], e)) = ToSet(u.queues[0]) \cup {e}
        BY <2>9, SetOfAppend
      <4> QED BY <2>2, <2>7, <3>2, <4>5, <4>7, <4>8
    <3> QED BY <2>9, <3>1, <3>2
  <2>11. d \in IngestSet
    BY <2>5 DEF IngestOK
  <2>12. Good(d, i)
    <3> HIDE DEF New
    <3> QED BY <2>2, <2>5, <2>10
  <2> HIDE DEF G, Good
  <2> QED BY <1>3, <2>1, <2>3, <2>11, <2>12
<1>6. IngestOK(Ingested(evs)) /\ Ingested(evs) \in G[Len(evs)]
  <2> HIDE DEF G
  <2> QED BY <1>4, <1>5, IngestLoop
<1>7. Good(Ingested(evs), Len(evs))
  <2>1. Len(evs) \in 0..Len(evs) /\ Ingested(evs) \in IngestSet
    BY <1>1, <1>6 DEF IngestOK
  <2> HIDE DEF G, Good
  <2> QED BY <1>3, <1>6, <2>1
<1>8. \A x \in New(Len(evs)) : x \in Snaps(ToSet(evs)) /\ Key(x) \notin ToSet(seen)
  BY SetOf DEF Snaps
<1> HIDE DEF New
<1> QED BY <1>7, <1>8

\* A post arrives: its new snapshots come after all that is admitted.
LEMMA ReceiveCounts ==
  ASSUME RoomyDedup, TypeInv, HeldApart, KnownInv, TurnsInv, WireInv, OpenInv, WindowsInv,
         NEW m \in wire, Receive(m)
  PROVE  KnownInv' /\ TurnsInv' /\ WireInv' /\ OpenInv' /\ WindowsInv'
<1>1. PICK evs \in Seq(EventSet), s \in Services : evs = m.events /\ s = m.svc
  BY DEF TypeInv, NetInv, MsgSet
<1>2. IngestOK(Intake) /\ CollectorInv /\ Ingest(evs)
  BY <1>1 DEF Receive, TypeInv, CollectorInv
<1>3. PICK R : R = Keys(ToSet(store)) \cup Keys(ToSet(aggregated))
  OBVIOUS
<1>4. ApartFrom(Intake, R)
  BY <1>3 DEF HeldApart
<1>5. Intake' = Ingested(evs)
  BY <1>2, IngestTypes
<1>6. queues' = Ingested(evs).queues
  <2>1. Intake'.queues = queues'
    BY DEF Intake
  <2> QED BY <1>5, <2>1
<1>7. PICK S, S1 : S = ToSet(seen) /\ S1 = ToSet(seen)'
  OBVIOUS
<1>8. S1 = S \cup Keys(ToSet(evs))
  BY <1>1, <1>7, ReceiveKeys
<1>9. /\ wire' \subseteq wire /\ UNCHANGED <<now, emitters>> /\ store' = store
      /\ aggregated' = aggregated /\ lastClosedId' = lastClosedId
      /\ lastCounters' = lastCounters /\ published' = published
  BY <1>2 DEF Receive, Ingest
<1>10. PICK em : em = emitters[s] /\ EmitterOK(em) /\ EmitterTurns(em, s)
  BY DEF TypeInv, EmittersInv, TurnsInv
<1>11. WireOK(em, m, S)
  BY <1>1, <1>7, <1>10 DEF WireInv
<1>12. PICK New : New = {x \in Snaps(ToSet(evs)) : Key(x) \notin S}
  OBVIOUS
<1>13. New \subseteq Snaps(Own(em)) /\ New \subseteq Known
  <2>1. New \subseteq Snaps(Own(em))
    BY <1>1, <1>11, <1>12 DEF WireOK, Own, Snaps
  <2> QED BY <1>10, <2>1, KnownFrom
<1>14. \A x \in New : Precede(Open, {x})
  BY <1>7, <1>10, <1>12, <1>13 DEF OpenInv
<1>15. InTurn(queues'[0]) /\ ToSet(queues'[0]) \subseteq ToSet(queues[0]) \cup New
  <2>1. InTurn(queues[0]) /\ InTurn(evs)
    BY <1>1, <1>11 DEF OpenInv, WireOK
  <2>2. \A e \in ToSet(evs) : Key(e) \notin ToSet(seen) => Precede(ToSet(queues[0]), {e})
    <3> SUFFICES ASSUME NEW e \in ToSet(evs), Key(e) \notin ToSet(seen)
                 PROVE  Precede(ToSet(queues[0]), {e})
      OBVIOUS
    <3>1. CASE e.pri = 0
      <4>1. e \in New
        BY <1>7, <1>12, <3>1 DEF Snaps
      <4> QED BY <1>14, <4>1 DEF Precede, Open
    <3>2. CASE e.pri # 0
      BY <3>2 DEF Precede, Older
    <3> QED BY <3>1, <3>2
  <2>3. PICK c : c = Ingested(evs)
    OBVIOUS
  <2>4. /\ InTurn(c.queues[0])
        /\ \A x \in ToSet(c.queues[0]) :
             x \in ToSet(queues[0]) \/ (x \in Snaps(ToSet(evs)) /\ Key(x) \notin ToSet(seen))
    BY <1>2, <1>4, <2>1, <2>2, <2>3, IngestTurns
  <2> QED BY <1>6, <1>7, <1>12, <2>3, <2>4
<1>16. Open' \subseteq Open \cup New
  BY <1>9, <1>15 DEF Open
<1>17. KnownInv'
  <2>1. ASSUME NEW x \in Known'
        PROVE  x \in Known
    <3>1. x.pri = 0
      BY DEF Known, Snaps
    <3>2. \/ x \in Open \/ x \in New \/ x \in ToSet(aggregated)
          \/ \E y \in Services : x \in Own(emitters[y])
      BY <1>9, <1>16 DEF Known, Snaps
    <3> QED BY <1>13, <3>1, <3>2, KnownFrom DEF Snaps
  <2>2. now' \in Nat /\ now <= now'
    <3>1. now \in 1..MaxNow
      BY DEF TypeInv, RunInv
    <3> QED BY <1>9, <3>1
  <2>3. \A y \in Services : /\ emitters'[y].seq = emitters[y].seq
                            /\ emitters'[y].count = emitters[y].count
    BY <1>9
  <2> QED BY <2>1, <2>2, <2>3, KnownKept
<1>18. TurnsInv'
  BY <1>9 DEF TurnsInv
<1>19. WireInv'
  <2>1. ASSUME NEW w \in wire
        PROVE  WireOK(emitters[w.svc], w, S1)
    <3>1. WireOK(emitters[w.svc], w, S)
      BY <1>7 DEF WireInv
    <3>2. S \subseteq S1
      BY <1>8
    <3> QED BY <3>1, <3>2 DEF WireOK
  <2> QED BY <1>7, <1>9, <2>1 DEF WireInv
<1>20. OpenInv'
  <2>1. Precede(ToSet(store), ToSet(queues'[0]))
    <3>1. \A x \in ToSet(store) : \A y \in ToSet(queues[0]) : Older(x, y)
      BY DEF OpenInv, Precede
    <3>2. \A x \in ToSet(store) : \A y \in New : Older(x, y)
      BY <1>14 DEF Precede, Open
    <3> QED BY <1>15, <3>1, <3>2 DEF Precede
  <2>2. ASSUME NEW y \in Services, NEW e \in Snaps(Own(emitters[y])), Key(e) \notin S1
        PROVE  Precede(Open', {e})
    <3>1. \A x \in Open : Older(x, e)
      BY <1>7, <1>8, <2>2 DEF OpenInv, Precede
    <3>2. ASSUME NEW x \in New, x.svc = e.svc
          PROVE  x.seq < e.seq
      <4>1. e.svc = y /\ x.svc = s
        BY <1>10, <1>13 DEF TurnsInv, EmitterTurns
      <4>2. e \in Snaps(Own(em))
        BY <1>10, <3>2, <4>1
      <4>3. Key(e) \notin S /\ e \notin ToSet(evs)
        BY <1>8, <2>2 DEF Keys
      <4>4. ~(e.seq <= x.seq)
        BY <1>1, <1>11, <1>12, <4>2, <4>3 DEF WireOK
      <4>5. e \in Known /\ x \in Known
        BY <1>13, KnownFrom
      <4>6. e.seq \in Nat /\ x.seq \in Nat
        BY <4>5, KnownTypes, KeyType
      <4> QED BY <4>4, <4>6
    <3>3. \A x \in New : Older(x, e)
      BY <3>2 DEF Older
    <3> QED BY <1>16, <3>1, <3>3 DEF Precede
  <2>3. InTurn(store)
    BY DEF OpenInv
  <2> QED BY <1>7, <1>9, <1>15, <2>1, <2>2, <2>3 DEF OpenInv
<1>21. WindowsInv'
  <2>1. PublishStart' = PublishStart
    BY <1>9 DEF PublishStart
  <2> QED BY <1>9, <2>1 DEF WindowsInv
<1> QED BY <1>17, <1>18, <1>19, <1>20, <1>21

\* What a tick drains comes after what is stored, and before what it leaves.
LEMMA TickTurns ==
  ASSUME TypeInv, OpenInv, CollectorTick
  PROVE  /\ InTurn(Arrived) /\ Snaps(ToSet(Arrived)) \subseteq Open
         /\ InTurn(queues'[0]) /\ Precede(ToSet(Arrived), ToSet(queues'[0]))
         /\ ToSet(queues'[0]) \subseteq ToSet(queues[0])
<1>1. PICK qs \in QueueSet : qs = queues /\ InPlace(qs)
  BY DEF TypeInv, CollectorInv, IngestOK, Intake, IngestSet
<1>2. PICK us : us = queues' /\ us = LeaveRest(qs, DrainMax)
  BY <1>1, TickAssigns
<1>3. PICK dr \in Seq(EventSet) : dr = Drained /\ dr = TakeFirst(qs, DrainMax)
  BY <1>1, TickIs DEF Drained
<1>4. PICK st \in Seq(EventSet) : st = store
  BY DEF TypeInv, CollectorInv
<1>5. PICK on \in Seq(EventSet), ar \in Seq(EventSet) : on = OnTime /\ ar = Arrived
  BY TickIs
<1>6. InTurn(st) /\ InTurn(qs[0]) /\ Precede(ToSet(st), ToSet(qs[0]))
  BY <1>1, <1>4 DEF OpenInv
<1>7. /\ InTurn(dr) /\ InTurn(us[0]) /\ Precede(ToSet(dr), ToSet(us[0]))
      /\ Snaps(ToSet(dr)) \subseteq ToSet(qs[0]) /\ ToSet(us[0]) \subseteq ToSet(qs[0])
  BY <1>1, <1>2, <1>3, <1>6, Constants, CutTurn
<1>8. InTurn(on) /\ ToSet(on) \subseteq ToSet(dr)
  <2>1. PICK K : K = {e \in ToSet(dr) : ~IsLate(e)}
    OBVIOUS
  <2>2. on = Kept(dr, K)
    BY <1>3, <1>5, <2>1 DEF OnTime
  <2>3. InTurn(on)
    BY <1>7, <2>2, InTurnKept
  <2>4. ToSet(on) = ToSet(dr) \cap K
    BY <2>2, KeptIs
  <2> QED BY <2>3, <2>4
<1>9. \A e \in ToSet(on) : e.pri = 0 => e \in ToSet(qs[0])
  BY <1>7, <1>8 DEF Snaps
<1>10. Precede(ToSet(st), ToSet(on))
  BY <1>6, <1>9 DEF Precede, Older
<1>11. InTurn(ar) /\ ToSet(ar) = ToSet(st) \cup ToSet(on)
  <2>1. ar = st \o on
    BY <1>4, <1>5 DEF Arrived
  <2>2. InTurn(st \o on)
    BY <1>6, <1>8, <1>10, InTurnConcat
  <2>3. ToSet(st \o on) = ToSet(st) \cup ToSet(on)
    BY SetOfConcat
  <2> QED BY <2>1, <2>2, <2>3
<1>12. Snaps(ToSet(ar)) \subseteq ToSet(st) \cup ToSet(qs[0])
  BY <1>9, <1>11 DEF Snaps
<1>13. Precede(ToSet(ar), ToSet(us[0]))
  BY <1>6, <1>7, <1>8, <1>11 DEF Precede
<1> QED BY <1>1, <1>2, <1>4, <1>5, <1>7, <1>11, <1>12, <1>13 DEF Open

\* What comes later, in turn or in time, counts at least as far.
LEMMA ArrivedCounts ==
  ASSUME TypeInv, KnownInv, OpenInv, WindowsInv, CollectorTick
  PROVE  /\ \A f \in ToSet(aggregated) : \A e \in ToSet(Arrived) : Below(f, e)
         /\ \A f \in ToSet(Arrived) : \A e \in ToSet(Arrived) : f.t < e.t => Below(f, e)
         /\ \A i, j \in 1..Len(Arrived) : i < j => Below(Arrived[i], Arrived[j])
<1>1. PICK ar \in Seq(EventSet) : ar = Arrived
  BY TickIs
<1>2. InTurn(ar) /\ Snaps(ToSet(ar)) \subseteq Open
  BY <1>1, TickTurns
<1>3. Snaps(ToSet(ar)) \subseteq Known /\ Snaps(ToSet(aggregated)) \subseteq Known
  BY <1>2, KnownFrom DEF Snaps
<1>4. \A e \in Known : e.seq \in Nat /\ e.t \in Nat
  <2>1. \A e \in EventSet : e.t \in Nat
    BY DEF EventSet
  <2> QED BY <2>1, KnownTypes, KeyType
<1>5. ASSUME NEW f \in Known, NEW e \in Known, f.t < e.t
      PROVE  Below(f, e)
  <2> SUFFICES ASSUME f.svc = e.svc PROVE f.count <= e.count
    BY DEF Below
  <2>1. Agrees(f, e) /\ Agrees(e, f)
    BY DEF KnownInv
  <2>2. ~(e.seq <= f.seq)
    BY <1>4, <1>5, <2>1 DEF Agrees
  <2>3. f.seq <= e.seq
    BY <1>4, <2>2
  <2> QED BY <2>1, <2>3 DEF Agrees
<1>6. ASSUME NEW f \in ToSet(aggregated), NEW e \in ToSet(ar)
      PROVE  Below(f, e)
  <2> SUFFICES ASSUME f.pri = 0, e.pri = 0 PROVE Below(f, e)
    BY DEF Below
  <2>1. f \in Snaps(ToSet(aggregated)) /\ e \in Snaps(ToSet(ar))
    BY DEF Snaps
  <2>2. f.t <= lastClosedId /\ lastClosedId < e.t
    BY <1>1, <2>1, TickIs DEF WindowsInv
  <2>3. f.t \in Nat /\ e.t \in Nat /\ lastClosedId \in Nat
    BY <1>3, <1>4, <2>1 DEF TypeInv, CollectorInv
  <2>4. f.t < e.t
    BY <2>2, <2>3
  <2> QED BY <1>3, <1>5, <2>1, <2>4
<1>7. ASSUME NEW f \in ToSet(ar), NEW e \in ToSet(ar), f.t < e.t
      PROVE  Below(f, e)
  <2> SUFFICES ASSUME f.pri = 0, e.pri = 0 PROVE Below(f, e)
    BY DEF Below
  <2>1. f \in Known /\ e \in Known
    BY <1>3 DEF Snaps
  <2> QED BY <1>5, <1>7, <2>1
<1>8. ASSUME NEW i \in 1..Len(ar), NEW j \in 1..Len(ar), i < j
      PROVE  Below(ar[i], ar[j])
  <2>1. PICK f, e : f = ar[i] /\ e = ar[j]
    OBVIOUS
  <2>2. Older(f, e) /\ f \in ToSet(ar) /\ e \in ToSet(ar)
    BY <1>2, <1>8, <2>1, SetOf DEF InTurn
  <2> SUFFICES ASSUME f.pri = 0, e.pri = 0, f.svc = e.svc PROVE f.count <= e.count
    BY <2>1 DEF Below
  <2>3. f \in Known /\ e \in Known /\ f.seq < e.seq
    BY <1>3, <2>2 DEF Snaps, Older
  <2>4. f.seq <= e.seq /\ Agrees(f, e)
    BY <1>4, <2>3 DEF KnownInv
  <2> QED BY <2>4 DEF Agrees
<1> QED BY <1>1, <1>6, <1>7, <1>8

LEMMA TickCounts ==
  ASSUME TypeInv, KnownInv, TurnsInv, WireInv, OpenInv, WindowsInv, Tick
  PROVE  KnownInv' /\ TurnsInv' /\ WireInv' /\ OpenInv' /\ WindowsInv'
<1>1. CollectorTick /\ UNCHANGED <<now, emitters, wire>> /\ seen' = seen
  BY TickAssigns DEF Tick
<1>2. PICK ar \in Seq(EventSet), C \in {Closing} : ar = Arrived /\ C = Closing
  BY TickIs
<1>3. /\ InTurn(ar) /\ Snaps(ToSet(ar)) \subseteq Open
      /\ InTurn(queues'[0]) /\ Precede(ToSet(ar), ToSet(queues'[0]))
      /\ ToSet(queues'[0]) \subseteq ToSet(queues[0])
  BY <1>1, <1>2, TickTurns
<1>4. InTurn(store') /\ ToSet(store') \subseteq ToSet(ar)
  <2>1. PICK K, st1 : K = {e \in ToSet(ar) : e.t \notin C} /\ st1 = store'
    OBVIOUS
  <2>2. st1 = Kept(ar, K)
    BY <1>1, <1>2, <2>1, TickAssigns
  <2>3. InTurn(st1)
    BY <1>3, <2>2, InTurnKept
  <2>4. ToSet(st1) = ToSet(ar) \cap K
    BY <2>2, KeptIs
  <2> QED BY <2>1, <2>3, <2>4
<1>5. \A x \in Open' : x.pri = 0 => x \in Open
  BY <1>3, <1>4 DEF Open, Snaps
<1>6. /\ CountedUp(Built)
      /\ ToSet(Built.events) = ToSet(aggregated) \cup {e \in ToSet(ar) : e.t \in C}
  BY <1>1, <1>2, ArrivedCounts, BuiltCounts DEF WindowsInv
<1>7. /\ lastCounters' = Built.last /\ published' = Built.windows /\ aggregated' = Built.events
  BY <1>1, TickAssigns
<1>8. ToSet(aggregated') = ToSet(aggregated) \cup {e \in ToSet(ar) : e.t \in C}
  BY <1>6, <1>7
<1>9. KnownInv'
  <2>1. ASSUME NEW x \in Known'
        PROVE  x \in Known
    <3>1. x.pri = 0
      BY DEF Known, Snaps
    <3>2. \/ x \in Open' \/ x \in ToSet(aggregated')
          \/ \E y \in Services : x \in Own(emitters[y])
      BY <1>1 DEF Known, Snaps
    <3>3. \/ x \in Open \/ x \in ToSet(aggregated)
          \/ \E y \in Services : x \in Own(emitters[y])
      BY <1>3, <1>5, <1>8, <3>1, <3>2 DEF Snaps
    <3> QED BY <3>1, <3>3 DEF Known, Snaps
  <2>2. now' \in Nat /\ now <= now'
    <3>1. now \in 1..MaxNow
      BY DEF TypeInv, RunInv
    <3> QED BY <1>1, <3>1
  <2>3. \A y \in Services : /\ emitters'[y].seq = emitters[y].seq
                            /\ emitters'[y].count = emitters[y].count
    BY <1>1
  <2> QED BY <2>1, <2>2, <2>3, KnownKept
<1>10. TurnsInv' /\ WireInv'
  BY <1>1 DEF TurnsInv, WireInv
<1>11. OpenInv'
  <2>1. Precede(ToSet(store'), ToSet(queues'[0]))
    BY <1>3, <1>4 DEF Precede
  <2>2. ASSUME NEW y \in Services, NEW e \in Snaps(Own(emitters[y])), Key(e) \notin ToSet(seen)
        PROVE  Precede(Open', {e})
    <3>1. \A x \in Open : Older(x, e)
      BY <2>2 DEF OpenInv, Precede
    <3> QED BY <1>5, <3>1 DEF Precede, Older
  <2> QED BY <1>1, <1>3, <1>4, <2>1, <2>2 DEF OpenInv
<1>12. WindowsInv'
  <2>1. ASSUME NEW e \in Snaps(ToSet(aggregated'))
        PROVE  e.t <= lastClosedId'
    <3>1. lastClosedId \in Nat /\ lastClosedId' \in Nat /\ lastClosedId <= lastClosedId'
      BY <1>1, ClosingIs DEF TypeInv, CollectorInv
    <3>2. CASE e \in ToSet(aggregated)
      <4>1. e \in Snaps(ToSet(aggregated))
        BY <3>2 DEF Snaps
      <4>2. e \in Known
        BY <4>1, KnownFrom
      <4>3. e.t \in Nat
        BY <4>2, KnownTypes DEF EventSet
      <4>4. e.t <= lastClosedId
        BY <4>1 DEF WindowsInv
      <4> QED BY <3>1, <4>3, <4>4
    <3>3. CASE e.t \in C
      BY <1>1, <1>2, <3>3, ClosingIs
    <3>4. e \in ToSet(aggregated) \/ e.t \in C
      BY <1>8 DEF Snaps
    <3> QED BY <3>2, <3>3, <3>4
  <2>2. CountedUp(PublishStart')
    BY <1>6, <1>7 DEF CountedUp, PublishStart
  <2> QED BY <2>1, <2>2 DEF WindowsInv
<1> QED BY <1>9, <1>10, <1>11, <1>12

\* Neither the emitters nor the collector change, and nothing is posted.
LEMMA UndisturbedCounts ==
  ASSUME TypeInv, KnownInv, TurnsInv, WireInv, OpenInv, WindowsInv,
         UNCHANGED <<collectorVars, emitters>>, wire' \subseteq wire, now' \in {now, now + 1}
  PROVE  KnownInv' /\ TurnsInv' /\ WireInv' /\ OpenInv' /\ WindowsInv'
<1>1. store' = store /\ queues' = queues /\ aggregated' = aggregated /\ seen' = seen
  BY DEF collectorVars
<1>2. Open' = Open /\ Known' = Known
  BY <1>1 DEF Open, Known
<1>3. KnownInv'
  <2>1. now' \in Nat /\ now <= now'
    <3>1. now \in 1..MaxNow
      BY DEF TypeInv, RunInv
    <3> QED BY <3>1
  <2> QED BY <1>2, <2>1, KnownKept
<1>4. TurnsInv' /\ WireInv' /\ OpenInv' /\ WindowsInv'
  BY <1>1, <1>2, CollectorStays DEF TurnsInv, WireInv, OpenInv
<1> QED BY <1>3, <1>4

LEMMA InitCounts ==
  ASSUME Init
  PROVE  KnownInv /\ TurnsInv /\ WireInv /\ OpenInv /\ WindowsInv
<1>1. /\ emitters = [s \in Services |-> NewEmitter] /\ wire = {} /\ seen = <<>>
      /\ queues = NoEvents /\ store = <<>> /\ aggregated = <<>> /\ published = <<>>
      /\ lastCounters = [s \in Services |-> 0]
  BY DEF Init, EmitterInit, CollectorInit
<1>2. ToSet(<<>>) = {} /\ InTurn(<<>>)
  BY EmptySeq DEF ToSet, InTurn
<1>3. NoEvents[0] = <<>>
  BY DEF NoEvents, Priorities
<1>4. Own(NewEmitter) = {}
  BY <1>2, <1>3 DEF Own, Posted, NewEmitter
<1>5. Open = {} /\ Known = {}
  BY <1>1, <1>2, <1>3, <1>4 DEF Open, Known, Snaps
<1>6. KnownInv
  BY <1>5 DEF KnownInv
<1>7. TurnsInv
  <2>1. /\ NewEmitter.retained = <<>> /\ NewEmitter.posting = <<>>
        /\ NewEmitter.rings = NoEvents
    BY DEF NewEmitter
  <2>2. \A s \in Services : EmitterTurns(NewEmitter, s)
    BY <1>2, <1>3, <1>4, <2>1 DEF EmitterTurns, Precede, Snaps
  <2> QED BY <1>1, <2>2 DEF TurnsInv
<1>8. WireInv
  BY <1>1 DEF WireInv
<1>9. OpenInv
  BY <1>1, <1>2, <1>3, <1>4 DEF OpenInv, Precede, Snaps
<1>10. WindowsInv
  <2>1. ASSUME NEW s \in Services
        PROVE  TotalOf(<<>>, s) = 0 /\ NewestCount(0, {}, s)
    BY TotalIs DEF NewestCount, Snaps
  <2>2. CountedUp(PublishStart)
    BY <1>1, <1>2, <2>1 DEF CountedUp, PublishStart
  <2> QED BY <1>1, <1>2, <2>2 DEF WindowsInv, Snaps
<1> QED BY <1>6, <1>7, <1>8, <1>9, <1>10

LEMMA NextCounts ==
  ASSUME RoomyDedup, TypeInv, HeldApart, LossInv, AnswersKnown, CountInv, [Next]_vars
  PROVE  CountInv'
<1> SUFFICES ASSUME Undisturbed'
             PROVE  KnownInv' /\ TurnsInv' /\ WireInv' /\ OpenInv' /\ WindowsInv'
  BY DEF CountInv
<1>1. ~Reset /\ \A s \in Services : ~Restart(s)
  BY DisturbancesStep DEF Undisturbed
<1>2. resets' = resets /\ lives' = lives
  BY <1>1 DEF Next, Produce, Send, Fail, Receive, Answer, ClockTick, Tick, vars
<1>3. /\ PostInv /\ AnsweredInv
      /\ KnownInv /\ TurnsInv /\ WireInv /\ OpenInv /\ WindowsInv
  BY <1>2 DEF LossInv, AnswersKnown, CountInv, Undisturbed, Disturbances
<1>4. ASSUME NEW s \in Services, Produce(s) \/ Send(s) \/ Fail(s)
      PROVE  KnownInv' /\ TurnsInv' /\ WireInv' /\ OpenInv' /\ WindowsInv'
  BY <1>3, <1>4, ProduceCounts, SendCounts, FailCounts
<1>5. ASSUME NEW m \in wire, Receive(m)
      PROVE  KnownInv' /\ TurnsInv' /\ WireInv' /\ OpenInv' /\ WindowsInv'
  BY <1>3, <1>5, ReceiveCounts
<1>6. ASSUME NEW r \in replies, Answer(r)
      PROVE  KnownInv' /\ TurnsInv' /\ WireInv' /\ OpenInv' /\ WindowsInv'
  BY <1>3, <1>6, AnswerCounts
<1>7. CASE Tick
  BY <1>3, <1>7, TickCounts
<1>8. CASE ClockTick \/ UNCHANGED vars
  <2>1. UNCHANGED <<collectorVars, emitters>> /\ wire' \subseteq wire /\ now' \in {now, now + 1}
    BY <1>8 DEF ClockTick, vars
  <2> QED BY <1>3, <2>1, UndisturbedCounts
<1> QED BY <1>1, <1>4, <1>5, <1>6, <1>7, <1>8 DEF Next

LEMMA CountsAlways ==
  ASSUME RoomyDedup
  PROVE  Spec => []CountInv
<1>1. Init => CountInv
  BY InitCounts DEF CountInv
<1>2. TypeInv /\ HeldApart /\ LossInv /\ AnswersKnown /\ CountInv /\ [Next]_vars => CountInv'
  BY NextCounts
<1> QED BY <1>1, <1>2, TypesAlways, HeldApartAlways, LossAlways, AnswersKnownAlways, PTL DEF Spec

\* The newest count is the largest of them.
LEMMA NewestIsMax ==
  ASSUME NEW S, NEW q \in Seq(S), NEW s, NEW n \in Nat, NewestCount(n, ToSet(q), s),
         \A e \in ToSet(q) : e.count \in Nat
  PROVE  n = Max({0} \cup {e.count : e \in {x \in ToSet(q) : x.svc = s /\ x.pri = 0}})
<1>1. PICK X : X = {x \in ToSet(q) : x.svc = s /\ x.pri = 0}
  OBVIOUS
<1>2. PICK Y : Y = {e.count : e \in X}
  OBVIOUS
<1>3. IsFiniteSet(X)
  <2>1. IsFiniteSet(ToSet(q))
    BY SetOf
  <2> QED BY <1>1, <2>1, FS_Subset
<1> DEFINE f == [e \in X |-> e.count]
<1>4. f \in Surjection(X, Y)
  <2>1. f \in [X -> Y] /\ \A y \in Y : \E e \in X : f[e] = y
    BY <1>2
  <2> HIDE DEF f
  <2> QED BY <2>1, Zenon DEF Surjection
<1>5. IsFiniteSet(Y)
  BY <1>3, <1>4, FS_Surjection
<1>6. PICK U : U = {0} \cup Y
  OBVIOUS
<1>7. IsFiniteSet(U)
  <2>1. PICK z : z = 0
    OBVIOUS
  <2>2. IsFiniteSet(Y \cup {z})
    BY <1>5, FS_AddElement
  <2>3. U = Y \cup {z}
    BY <1>6, <2>1
  <2> QED BY <2>2, <2>3
<1>8. U \in SUBSET Int /\ U # {} /\ \A y \in Y : y \in Nat
  BY <1>1, <1>2, <1>6
<1>9. Max(U) \in U /\ \A y \in U : y <= Max(U)
  BY <1>7, <1>8, MaxIsGreatest
<1>10. n \in U /\ \A y \in U : y <= n
  <2>1. \A e : e \in X <=> e \in Snaps(ToSet(q)) /\ e.svc = s
    BY <1>1 DEF Snaps
  <2>2. n = 0 \/ \E e \in X : e.count = n
    BY <2>1 DEF NewestCount
  <2>3. \A e \in X : e.count <= n
    BY <2>1 DEF NewestCount
  <2> QED BY <1>2, <1>6, <2>2, <2>3
<1>11. n = Max(U)
  <2>1. PICK m \in Int : m = Max(U)
    BY <1>8, <1>9
  <2>2. m <= n /\ n <= m
    BY <1>9, <1>10, <2>1
  <2> QED BY <2>1, <2>2
<1> QED BY <1>1, <1>2, <1>6, <1>11

\* The requests published for a service add up to its newest count in a window, whatever was
\* lost, repeated, overtaken or shed, while nothing was reset or started again: build takes
\* differences of counters (counterDelta), so it matters that the snapshots of a service reach
\* their windows in the order they were taken. The dedup must hold every key there is.
THEOREM CountsAreExactAlways ==
  ASSUME RoomyDedup
  PROVE  Spec => []CountsAreExact
<1>1. TypeInv /\ CountInv => CountsAreExact
  <2> SUFFICES ASSUME TypeInv, CountInv, Undisturbed, NEW s \in Services
               PROVE  Total(s) = Max({0} \cup {e.count : e \in {x \in ToSet(aggregated) :
                                                                  x.svc = s /\ x.pri = 0}})
    BY DEF CountsAreExact
  <2>1. PICK ag \in Seq(EventSet) : ag = aggregated
    BY DEF TypeInv, CollectorInv
  <2>2. PICK n \in Nat : n = lastCounters[s]
    BY PublishStartIs DEF PublishStart, BuildSet
  <2>3. TotalOf(published, s) = n /\ NewestCount(n, ToSet(ag), s)
    BY <2>1, <2>2 DEF CountInv, WindowsInv, CountedUp, PublishStart
  <2>4. Total(s) = n
    BY <2>3 DEF Total, TotalOf
  <2>5. \A e \in ToSet(ag) : e.count \in Nat
    <3>1. ToSet(ag) \in SUBSET EventSet
      BY SetOf
    <3>2. \A e \in EventSet : e.count \in Nat
      BY DEF EventSet
    <3> QED BY <3>1, <3>2
  <2>6. n = Max({0} \cup {e.count : e \in {x \in ToSet(ag) : x.svc = s /\ x.pri = 0}})
    BY <2>3, <2>5, NewestIsMax
  <2> QED BY <2>1, <2>4, <2>6
<1> QED BY <1>1, TypesAlways, CountsAlways, PTL

=============================================================================
