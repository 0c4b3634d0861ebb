--------------------------- MODULE Diagnosis_proofs ---------------------------
(***************************************************************************)
(* For every mesh, pattern and configuration: the detector observes each window  *)
(* once and in order and flags what has been abnormal for the debounce; a plan    *)
(* nobody has acted on names a cause that the evidence on display names; and      *)
(* scores, posteriors, rankings and plans are what they should be.                *)
(***************************************************************************)
EXTENDS Diagnosis, Induction, SequenceTheorems, TLAPS

-----------------------------------------------------------------------------
(* The inductive invariant of detection *)

Windows ==
  [id : 1..MaxArrivals, n : 1..MaxArrivals, seen : 0..1000,
   onset : [Services -> 0..MaxArrivals], p99 : [Services -> Nat], err : [Services -> 0..1000],
   edges : SUBSET Edges]

\* The ring holds the last windows delivered; until a relaunch ids are their numbers.
RingOK ==
  /\ arrivals \in 0..MaxArrivals /\ streamId \in 0..arrivals /\ relaunches \in 0..MaxRelaunches
  /\ onset \in [Services -> 0..MaxArrivals]
  /\ ring \in Seq(Windows) /\ Len(ring) <= arrivals
  /\ \A i \in 1..Len(ring) : ring[i].n = arrivals - Len(ring) + i
  /\ relaunches = 0 => streamId = arrivals /\ \A i \in 1..Len(ring) : ring[i].id = ring[i].n

Incidents ==
  [opened : 1..MaxArrivals, services : SUBSET Services, edges : SUBSET Edges,
   onsets : UNION {[D -> 0..MaxArrivals] : D \in (SUBSET Services) \ {{}}}]

\* A track follows what was observed: for a plain service the baseline is the normal
\* latency, samples counts the normal windows, and run the abnormal ones at the end.
Follows(t, seen, s) ==
  /\ t.base = seen[1].p99[s]
  /\ t.samples = Cardinality({j \in 1..Len(seen) : ~Abnormal(seen, s, j)})
  /\ t.run <= Len(seen)
  /\ \A i \in 1..Len(seen) : i > Len(seen) - t.run => Abnormal(seen, s, i)
  /\ t.run < Len(seen) => ~Abnormal(seen, s, Len(seen) - t.run)

Tracking(d) ==
  /\ d.tracks \in [Services -> Tracks] /\ d.observed \in Seq(Windows)
  /\ \A s \in Services : /\ d.tracks[s].flagged <=> d.tracks[s].run >= Debounce
                         /\ d.observed = <<>> => d.tracks[s] = Untracked
                         /\ Plain(d.observed, s) => Follows(d.tracks[s], d.observed, s)

Noticed(d) ==
  /\ d.cursor \in 0..MaxArrivals
  /\ d.incident = None \/ (d.incident \in Incidents /\ d.incident.services \subseteq DOMAIN d.incident.onsets)

\* Until a relaunch it has observed the first windows of the ring, up to its cursor.
UpToDate(d) ==
  relaunches = 0 =>
    /\ Len(d.observed) <= Len(ring)
    /\ \A i \in 1..Len(d.observed) : d.observed[i].n = arrivals - Len(ring) + i
    /\ d.cursor = IF Len(d.observed) = 0 THEN 0 ELSE arrivals - Len(ring) + Len(d.observed)

Detectors ==
  [tracks : [Services -> Tracks], incident : Incidents \cup {None}, cursor : 0..MaxArrivals,
   observed : Seq(Windows)]

DetectorOK(d) == d \in Detectors /\ Tracking(d) /\ Noticed(d)

DetectionInv == RingOK /\ DetectorOK(detector) /\ UpToDate(detector)

-----------------------------------------------------------------------------
(* The detector's arithmetic *)

\* The trailing average of a constant is that constant.
LEMMA EwmaOfConstant ==
  ASSUME NEW b \in Nat, NEW k \in Nat \ {0}
  PROVE  (2 * b + (k - 1) * b) \div (k + 1) = b
<1>1. 2 * b + (k - 1) * b = (k + 1) * b
  OBVIOUS
<1>2. PICK c \in Nat \ {0} : c = k + 1
  OBVIOUS
<1>3. (c * b) \div c = b
  OBVIOUS
<1> QED BY <1>1, <1>2, <1>3

LEMMA EwmaIsNat ==
  ASSUME NEW b \in Nat, NEW p \in Nat, NEW k \in Nat \ {0}
  PROVE  (2 * p + (k - 1) * b) \div (k + 1) \in Nat
<1>1. PICK x \in Nat : x = 2 * p + (k - 1) * b
  <2>1. k - 1 \in Nat /\ 2 * p \in Nat
    OBVIOUS
  <2>2. (k - 1) * b \in Nat
    BY <2>1
  <2> QED BY <2>1, <2>2
<1>2. PICK c \in Nat \ {0} : c = k + 1
  OBVIOUS
<1>3. x \div c \in Nat
  OBVIOUS
<1> QED BY <1>1, <1>2, <1>3

LEMMA TimesIsMore ==
  ASSUME NEW b \in Nat, NEW m \in Nat \ {0}
  PROVE  b <= b * m /\ b * m = m * b /\ b * m \in Nat
OBVIOUS

LEMMA TrackLearnt ==
  ASSUME NEW t \in Tracks, NEW mean \in Nat, NEW n \in Nat
  PROVE  LET u == [t EXCEPT !.base = mean, !.samples = n]
         IN u \in Tracks /\ u.base = mean /\ u.samples = n
<1> DEFINE u == [t EXCEPT !.base = mean, !.samples = n]
<1>1. u \in Tracks
  BY DEF Tracks
<1>2. u.base = mean
  BY DEF Tracks
<1>3. u.samples = n
  BY DEF Tracks
<1> HIDE DEF u
<1>4. u \in Tracks /\ u.base = mean /\ u.samples = n
  BY <1>1, <1>2, <1>3
<1> QED BY <1>4 DEF u

\* evaluate: a track stays one, and flagged is the debounce of its run.
LEMMA EvaluateType ==
  ASSUME NEW t \in Tracks, NEW p99 \in Nat, NEW err \in Nat
  PROVE  /\ Evaluate(t, p99, err) \in Tracks
         /\ Evaluate(t, p99, err).flagged <=> Evaluate(t, p99, err).run >= Debounce
         /\ Breaches(t, p99, err) =>
              /\ Evaluate(t, p99, err).run = t.run + 1
              /\ Evaluate(t, p99, err).base = t.base
              /\ Evaluate(t, p99, err).samples = t.samples
         /\ ~Breaches(t, p99, err) =>
              /\ Evaluate(t, p99, err).run = 0
              /\ Evaluate(t, p99, err).base = Ewma(t, p99)
              /\ Evaluate(t, p99, err).samples = t.samples + 1
<1> DEFINE breach == Breaches(t, p99, err)
           u      == Evaluate(t, p99, err)
           n      == IF breach THEN t.run + 1 ELSE 0
           late   == n >= Debounce
           base   == IF breach THEN t ELSE Learn(t, p99)
           mean   == Ewma(t, p99)
           count  == t.samples + 1
<1>1. t.base \in Nat /\ t.samples \in Nat /\ t.run \in Nat
  BY DEF Tracks
<1>2. n \in Nat /\ late \in BOOLEAN /\ count \in Nat
  <2> HIDE DEF breach
  <2> QED BY <1>1
<1>3. mean \in Nat
  <2>1. BaselineWindows \in Nat \ {0}
    BY DetectionAssumption
  <2> DEFINE m == (2 * p99 + (BaselineWindows - 1) * t.base) \div (BaselineWindows + 1)
  <2>2. m \in Nat
    BY <1>1, <2>1, EwmaIsNat
  <2>3. mean = IF t.samples = 0 THEN p99 ELSE m
    BY DEF Ewma
  <2> HIDE DEF m, mean
  <2> QED BY <2>2, <2>3
<1>4. u = [base EXCEPT !.run = n, !.flagged = late]
  BY DEF Evaluate
<1>5. Learn(t, p99) = [t EXCEPT !.base = mean, !.samples = count]
  BY DEF Learn
<1> HIDE DEF n, late, count, mean
<1>6. /\ Learn(t, p99) \in Tracks /\ Learn(t, p99).base = mean
      /\ Learn(t, p99).samples = count
  <2> DEFINE l == [t EXCEPT !.base = mean, !.samples = count]
  <2>1. l \in Tracks /\ l.base = mean /\ l.samples = count
    <3>1. \A m \in Nat, c \in Nat :
            LET x == [t EXCEPT !.base = m, !.samples = c]
            IN x \in Tracks /\ x.base = m /\ x.samples = c
      BY TrackLearnt
    <3> QED BY <1>2, <1>3, <3>1
  <2> HIDE DEF l
  <2>2. Learn(t, p99) = l
    BY <1>5 DEF l
  <2> QED BY <2>1, <2>2
<1>7. /\ base \in Tracks
      /\ breach => base = t
      /\ ~breach => base.base = mean /\ base.samples = count
  <2> HIDE DEF breach
  <2> QED BY <1>6
<1> HIDE DEF base, u
<1>8. /\ u \in Tracks /\ u.run = n /\ u.flagged = late /\ u.base = base.base
      /\ u.samples = base.samples
  <2>1. PICK r \in Tracks, m \in Nat, l \in BOOLEAN : r = base /\ m = n /\ l = late
    BY <1>2, <1>7
  <2> DEFINE x == [r EXCEPT !.run = m, !.flagged = l]
  <2>2. x \in Tracks
    BY DEF Tracks
  <2>3. x.run = m
    BY DEF Tracks
  <2>4. x.flagged = l
    BY DEF Tracks
  <2>5. x.base = r.base /\ x.samples = r.samples
    BY DEF Tracks
  <2>6. u = x
    BY <1>4, <2>1
  <2> HIDE DEF x
  <2> QED BY <2>1, <2>2, <2>3, <2>4, <2>5, <2>6
<1> HIDE DEF breach
<1>9. /\ u \in Tracks /\ (u.flagged <=> u.run >= Debounce)
      /\ breach => u.run = t.run + 1 /\ u.base = t.base /\ u.samples = t.samples
      /\ ~breach => u.run = 0 /\ u.base = mean /\ u.samples = count
  BY <1>7, <1>8 DEF late, n
<1> QED BY <1>9 DEF u, mean, count, breach

-----------------------------------------------------------------------------
(* One window observed *)

LEMMA WindowTyped ==
  ASSUME NEW w \in Windows, NEW s \in Services
  PROVE  w.p99[s] \in Nat /\ w.err[s] \in Nat /\ w.n \in 1..MaxArrivals /\ w.id \in 1..MaxArrivals
<1>1. w.p99 \in [Services -> Nat] /\ w.err \in [Services -> 0..1000]
  BY DEF Windows
<1>2. w.n \in 1..MaxArrivals /\ w.id \in 1..MaxArrivals
  BY DEF Windows
<1>3. w.p99[s] \in Nat /\ w.err[s] \in 0..1000
  BY <1>1
<1>4. \A x \in 0..1000 : x \in Nat
  OBVIOUS
<1> QED BY <1>2, <1>3, <1>4

LEMMA EvaluateWindow ==
  ASSUME NEW t \in Tracks, NEW w \in Windows, NEW s \in Services
  PROVE  LET u      == Evaluate(t, w.p99[s], w.err[s])
             breach == Breaches(t, w.p99[s], w.err[s])
         IN /\ u \in Tracks /\ (u.flagged <=> u.run >= Debounce)
            /\ breach => u.run = t.run + 1 /\ u.base = t.base /\ u.samples = t.samples
            /\ ~breach => u.run = 0 /\ u.base = Ewma(t, w.p99[s]) /\ u.samples = t.samples + 1
<1>1. PICK p \in Nat, e \in Nat : p = w.p99[s] /\ e = w.err[s]
  BY WindowTyped
<1>2. Evaluate(t, p, e) \in Tracks /\ (Evaluate(t, p, e).flagged <=> Evaluate(t, p, e).run >= Debounce)
  BY EvaluateType
<1>3. Breaches(t, p, e) => /\ Evaluate(t, p, e).run = t.run + 1
                           /\ Evaluate(t, p, e).base = t.base
                           /\ Evaluate(t, p, e).samples = t.samples
  BY EvaluateType
<1>4. ~Breaches(t, p, e) => /\ Evaluate(t, p, e).run = 0
                            /\ Evaluate(t, p, e).base = Ewma(t, p)
                            /\ Evaluate(t, p, e).samples = t.samples + 1
  BY EvaluateType
<1> QED BY <1>1, <1>2, <1>3, <1>4

LEMMA Appended ==
  ASSUME NEW seen \in Seq(Windows), NEW w \in Windows
  PROVE  LET after == Append(seen, w)
         IN /\ after \in Seq(Windows) /\ Len(seen) \in Nat /\ Len(after) = Len(seen) + 1
            /\ \A i \in 1..Len(seen) : after[i] = seen[i]
            /\ after[Len(seen) + 1] = w
OBVIOUS

\* What was plain before is plain, and was judged the same.
LEMMA PlainBefore ==
  ASSUME NEW seen \in Seq(Windows), seen # <<>>, NEW w \in Windows, NEW s \in Services,
         NEW after, after = Append(seen, w), Plain(after, s)
  PROVE  /\ Plain(seen, s)
         /\ \A i \in 1..Len(seen) : Abnormal(after, s, i) <=> Abnormal(seen, s, i)
<1>1. /\ after \in Seq(Windows) /\ Len(seen) \in Nat /\ Len(after) = Len(seen) + 1
      /\ \A i \in 1..Len(seen) : after[i] = seen[i]
  BY Appended
<1>2. 1 \in 1..Len(seen) /\ after[1] = seen[1] /\ after # <<>>
  BY <1>1
<1>3. \A i \in 1..Len(seen) : /\ Slow(after, s, i) <=> Slow(seen, s, i)
                              /\ Failed(after, s, i) <=> Failed(seen, s, i)
  BY <1>1, <1>2 DEF Slow, Failed
<1>4. \A i \in 1..Len(seen) : Abnormal(after, s, i) <=> Abnormal(seen, s, i)
  BY <1>3 DEF Abnormal
<1>5. ASSUME NEW i \in 1..Len(seen)
      PROVE  Slow(seen, s, i) =>
               /\ seen[i].p99[s] > DetectMultiple * seen[1].p99[s]
               /\ Cardinality({j \in 1..i - 1 : ~Abnormal(seen, s, j)}) >= Warmup
  <2>1. {j \in 1..i - 1 : ~Abnormal(seen, s, j)} = {j \in 1..i - 1 : ~Abnormal(after, s, j)}
    <3>1. 1..i - 1 \subseteq 1..Len(seen)
      BY <1>1
    <3> QED BY <1>4, <3>1
  <2>2. i \in DOMAIN after
    BY <1>1
  <2>3. Slow(after, s, i) =>
          /\ after[i].p99[s] > DetectMultiple * after[1].p99[s]
          /\ Cardinality({j \in 1..i - 1 : ~Abnormal(after, s, j)}) >= Warmup
    BY <2>2 DEF Plain
  <2> QED BY <1>1, <1>2, <1>3, <2>1, <2>3
<1>6. ~Failed(seen, s, 1) /\ seen[1].p99[s] > 0
  BY <1>2, <1>3 DEF Plain
<1>7. DOMAIN seen = 1..Len(seen)
  OBVIOUS
<1> QED BY <1>4, <1>5, <1>6, <1>7 DEF Plain

\* The normal windows, counted one by one.
LEMMA CountNormal ==
  ASSUME NEW seen, NEW s, NEW n \in Nat
  PROVE  LET normal(k) == {j \in 1..k : ~Abnormal(seen, s, j)}
         IN /\ Cardinality(normal(n)) \in Nat
            /\ Abnormal(seen, s, n + 1) => Cardinality(normal(n + 1)) = Cardinality(normal(n))
            /\ ~Abnormal(seen, s, n + 1) =>
                 Cardinality(normal(n + 1)) = Cardinality(normal(n)) + 1
<1> DEFINE A == {j \in 1..n : ~Abnormal(seen, s, j)}
           B == {j \in 1..n + 1 : ~Abnormal(seen, s, j)}
<1>1. IsFiniteSet(A)
  <2>1. IsFiniteSet(1..n)
    BY FS_Interval
  <2> QED BY <2>1, FS_Subset
<1>2. \A j \in 1..n + 1 : j \in 1..n \/ j = n + 1
  OBVIOUS
<1>3. n + 1 \notin A /\ n + 1 \in 1..n + 1 /\ 1..n \subseteq 1..n + 1
  OBVIOUS
<1>4. Abnormal(seen, s, n + 1) => B = A
  BY <1>2, <1>3
<1>5. ~Abnormal(seen, s, n + 1) => B = A \cup {n + 1}
  BY <1>2, <1>3
<1>6. Cardinality(A) \in Nat
  BY <1>1, FS_CardinalityType
<1>7. Cardinality(A \cup {n + 1}) = Cardinality(A) + 1
  BY <1>1, <1>3, FS_AddElement
<1> HIDE DEF A, B
<1>8. /\ Cardinality(A) \in Nat
      /\ Abnormal(seen, s, n + 1) => Cardinality(B) = Cardinality(A)
      /\ ~Abnormal(seen, s, n + 1) => Cardinality(B) = Cardinality(A) + 1
  BY <1>4, <1>5, <1>6, <1>7
<1> QED BY <1>8 DEF A, B

\* A breach of a plain service is an abnormal window.
LEMMA BreachIsAbnormal ==
  ASSUME NEW t \in Tracks, NEW seen \in Seq(Windows), NEW w \in Windows, NEW s \in Services,
         NEW after, after = Append(seen, w), Plain(after, s),
         seen = <<>> => t = Untracked,
         seen # <<>> => Follows(t, seen, s)
  PROVE  Breaches(t, w.p99[s], w.err[s]) <=> Abnormal(after, s, Len(after))
<1> DEFINE n == Len(seen)
           b == after[1].p99[s]
           p == w.p99[s]
<1>1. /\ after \in Seq(Windows) /\ n \in Nat /\ Len(after) = n + 1
      /\ \A i \in 1..n : after[i] = seen[i]
      /\ after[n + 1] = w
  BY Appended
<1>2. Failed(after, s, n + 1) <=> w.err[s] > DetectErrRate
  BY <1>1 DEF Failed
<1>3. Slow(after, s, n + 1) <=> p # b
  BY <1>1 DEF Slow
<1>4. p \in Nat /\ b \in Nat /\ DetectMultiple \in Nat \ {0} /\ Warmup \in Nat \ {0}
  <2>1. after[1] \in Windows
    BY <1>1
  <2> QED BY <2>1, WindowTyped, DetectionAssumption
<1>5. b <= b * DetectMultiple /\ b * DetectMultiple = DetectMultiple * b /\ b * DetectMultiple \in Nat
  BY <1>4, TimesIsMore
<1>6. b > 0
  BY DEF Plain
<1>7. CASE seen = <<>>
  <2>1. n = 0 /\ after[1] = w /\ t.samples = 0
    BY <1>1, <1>7 DEF Untracked
  <2>2. ~Slow(after, s, n + 1) /\ ~(t.samples >= Warmup)
    BY <1>3, <1>4, <2>1
  <2> QED BY <1>1, <1>2, <2>2 DEF Breaches, Abnormal
<1>8. CASE seen # <<>>
  <2>1. /\ Plain(seen, s)
        /\ \A i \in 1..n : Abnormal(after, s, i) <=> Abnormal(seen, s, i)
    BY <1>8, PlainBefore
  <2>2. t.base = b
    <3>1. 1 \in 1..n
      BY <1>1, <1>8
    <3> QED BY <1>1, <1>8, <3>1 DEF Follows
  <2>3. t.samples = Cardinality({j \in 1..n : ~Abnormal(after, s, j)})
    <3>1. {j \in 1..n : ~Abnormal(after, s, j)} = {j \in 1..n : ~Abnormal(seen, s, j)}
      BY <2>1
    <3> QED BY <1>8, <3>1 DEF Follows
  <2>4. Slow(after, s, n + 1) => p > DetectMultiple * b /\ t.samples >= Warmup
    <3>1. n + 1 \in DOMAIN after /\ (n + 1) - 1 = n
      BY <1>1
    <3> QED BY <1>1, <2>3, <3>1 DEF Plain
  <2> HIDE DEF n, b, p
  <2>5. /\ Slow(after, s, n + 1) => t.samples >= Warmup /\ t.base > 0 /\ p > t.base * DetectMultiple
        /\ ~Slow(after, s, n + 1) => ~(p > t.base * DetectMultiple)
    BY <1>3, <1>4, <1>5, <1>6, <2>2, <2>4
  <2>6. (t.samples >= Warmup /\ t.base > 0 /\ p > t.base * DetectMultiple) <=> Slow(after, s, n + 1)
    BY <2>5
  <2> QED BY <1>1, <1>2, <2>6 DEF Breaches, Abnormal, p
<1> QED BY <1>7, <1>8

\* The track of a plain service goes on following what is observed of it.
LEMMA FollowsNext ==
  ASSUME NEW t \in Tracks, NEW seen \in Seq(Windows), NEW w \in Windows, NEW s \in Services,
         NEW after, after = Append(seen, w), Plain(after, s),
         seen = <<>> => t = Untracked,
         seen # <<>> => Follows(t, seen, s)
  PROVE  Follows(Evaluate(t, w.p99[s], w.err[s]), after, s)
<1> DEFINE n == Len(seen)
           u == Evaluate(t, w.p99[s], w.err[s])
           breach == Breaches(t, w.p99[s], w.err[s])
           normal(k) == {j \in 1..k : ~Abnormal(after, s, j)}
<1>1. /\ after \in Seq(Windows) /\ n \in Nat /\ Len(after) = n + 1
      /\ \A i \in 1..n : after[i] = seen[i]
      /\ after[n + 1] = w
  BY Appended
<1>2. breach <=> Abnormal(after, s, n + 1)
  BY <1>1, BreachIsAbnormal
<1>3. /\ breach => u.run = t.run + 1 /\ u.base = t.base /\ u.samples = t.samples
      /\ ~breach => u.run = 0 /\ u.base = Ewma(t, w.p99[s]) /\ u.samples = t.samples + 1
  BY EvaluateWindow
<1>4. /\ Cardinality(normal(n)) \in Nat
      /\ breach => Cardinality(normal(n + 1)) = Cardinality(normal(n))
      /\ ~breach => Cardinality(normal(n + 1)) = Cardinality(normal(n)) + 1
  BY <1>1, <1>2, CountNormal
<1>5. t.run \in Nat /\ t.samples \in Nat /\ t.base \in Nat
  BY DEF Tracks
<1>6. /\ t.samples = Cardinality(normal(n))
      /\ t.run <= n
      /\ \A i \in 1..n : i > n - t.run => Abnormal(after, s, i)
      /\ t.run < n => ~Abnormal(after, s, n - t.run)
  <2>1. CASE seen = <<>>
    <3>1. n = 0 /\ t.run = 0 /\ t.samples = 0
      BY <2>1 DEF Untracked
    <3>2. normal(n) = {}
      BY <3>1
    <3>3. Cardinality(normal(n)) = 0
      BY <3>2, FS_EmptySet
    <3> QED BY <3>1, <3>3
  <2>2. CASE seen # <<>>
    <3>1. \A i \in 1..n : Abnormal(after, s, i) <=> Abnormal(seen, s, i)
      BY <2>2, PlainBefore
    <3>2. normal(n) = {j \in 1..n : ~Abnormal(seen, s, j)}
      BY <3>1
    <3>3. t.run < n => n - t.run \in 1..n
      BY <1>1, <1>5
    <3> QED BY <2>2, <3>1, <3>2, <3>3 DEF Follows
  <2> QED BY <2>1, <2>2
<1>7. u.base = after[1].p99[s]
  <2> DEFINE b == after[1].p99[s]
  <2>1. CASE seen = <<>>
    <3>1. n = 0 /\ after[1] = w /\ t.samples = 0
      BY <1>1, <2>1 DEF Untracked
    <3>2. ~breach
      <4>1. ~Failed(after, s, 1) /\ ~Slow(after, s, 1)
        BY DEF Plain, Slow
      <4> QED BY <1>2, <3>1, <4>1 DEF Abnormal
    <3> QED BY <1>3, <3>1, <3>2 DEF Ewma
  <2>2. CASE seen # <<>>
    <3>1. t.base = b
      <4>1. 1 \in 1..n
        BY <1>1, <2>2
      <4> QED BY <1>1, <2>2, <4>1 DEF Follows
    <3>2. CASE breach
      BY <1>3, <3>1, <3>2
    <3>3. CASE ~breach
      <4>1. w.p99[s] = b
        BY <1>1, <1>2, <3>3 DEF Abnormal, Slow
      <4>2. b \in Nat /\ BaselineWindows \in Nat \ {0}
        BY <1>5, <3>1, DetectionAssumption
      <4>3. (2 * b + (BaselineWindows - 1) * b) \div (BaselineWindows + 1) = b
        BY <4>2, EwmaOfConstant
      <4>4. Ewma(t, b) = b
        BY <3>1, <4>3 DEF Ewma
      <4> QED BY <1>3, <3>3, <4>1, <4>4
    <3> QED BY <3>2, <3>3
  <2> QED BY <2>1, <2>2
<1>8. u.samples = Cardinality(normal(n + 1))
  <2> HIDE DEF normal, breach, u
  <2> QED BY <1>3, <1>4, <1>6
<1>9. PICK m \in Nat : m = Len(after) /\ m = n + 1
  BY <1>1
<1>10. /\ u.run <= m
       /\ \A i \in 1..m : i > m - u.run => Abnormal(after, s, i)
       /\ u.run < m => ~Abnormal(after, s, m - u.run)
  <2>1. CASE breach
    <3>1. u.run = t.run + 1
      BY <1>3, <2>1
    <3>2. ASSUME NEW i \in 1..m, i > m - u.run
          PROVE  Abnormal(after, s, i)
      <4>1. i = n + 1 \/ (i \in 1..n /\ i > n - t.run)
        BY <1>1, <1>5, <1>9, <3>1, <3>2
      <4> QED BY <1>2, <1>6, <2>1, <4>1
    <3>3. u.run <= m /\ m - u.run = n - t.run /\ (u.run < m => t.run < n)
      <4>1. t.run <= n /\ n \in Nat
        BY <1>1, <1>6
      <4> HIDE DEF n, u
      <4> QED BY <1>5, <1>9, <3>1, <4>1
    <3> QED BY <1>6, <3>2, <3>3
  <2>2. CASE ~breach
    <3>1. u.run = 0
      BY <1>3, <2>2
    <3>2. \A i \in 1..m : ~(i > m - u.run)
      BY <3>1
    <3>3. m - u.run = n + 1 /\ u.run <= m
      BY <1>9, <3>1
    <3> QED BY <1>2, <2>2, <3>2, <3>3
  <2> QED BY <2>1, <2>2
<1>11. u.samples = Cardinality({j \in 1..m : ~Abnormal(after, s, j)})
  BY <1>8, <1>9
<1> HIDE DEF u
<1>12. Follows(u, after, s)
  BY <1>7, <1>9, <1>10, <1>11, Zenon DEF Follows
<1> QED BY <1>12 DEF u

-----------------------------------------------------------------------------
(* The observation loop *)

LEMMA NextIsOne == \A d, w : ObserveNext(d, w) = Observe(d, w)
<1> SUFFICES ASSUME NEW d, NEW w PROVE ObserveNext(d, w) = Observe(d, w)
  OBVIOUS
<1>1. {Observe(x, w) : x \in {d}} = {Observe(d, w)}
  OBVIOUS
<1> QED BY <1>1 DEF ObserveNext

\* The loop, one window after the other.
LEMMA ObserveLoop ==
  ASSUME NEW d, Len(ring) \in Nat
  PROVE  \E f : /\ f[0] = d /\ Observed(d) = f[Len(ring)]
                /\ \A i \in 1..Len(ring) :
                     f[i] = IF i \in Since(d.cursor) THEN Observe(f[i - 1], ring[i]) ELSE f[i - 1]
<1> DEFINE new == Since(d.cursor)
           Body(f, i) ==
             IF i = 0 THEN d
             ELSE IF i \in new THEN ObserveNext(f[i - 1], ring[i]) ELSE f[i - 1]
           Built(f, n) == f = [i \in 0..n |-> Body(f, i)]
           S == {n \in Nat : \E f : Built(f, n)}
<1>1. \A f : Body(f, 0) = d
  OBVIOUS
<1>2. \A f, i : i # 0 => Body(f, i) = IF i \in new THEN Observe(f[i - 1], ring[i])
                                                   ELSE f[i - 1]
  BY NextIsOne
<1> HIDE DEF Body
<1>3. 0 \in S
  <2> DEFINE g == [i \in 0..0 |-> d]
  <2>1. Built(g, 0)
    BY <1>1
  <2> QED BY <2>1
<1>4. ASSUME NEW n \in Nat, n \in S
      PROVE  n + 1 \in S
  <2>1. PICK f : Built(f, n)
    BY <1>4
  <2> DEFINE g == [i \in 0..n + 1 |-> IF i <= n THEN f[i] ELSE Body(f, n + 1)]
  <2>2. ASSUME NEW i \in 0..n + 1
        PROVE  g[i] = Body(g, i)
    <3>1. i # 0 => g[i - 1] = f[i - 1]
      BY <2>1
    <3>2. Body(g, i) = Body(f, i)
      <4> HIDE DEF g
      <4>1. CASE i = 0
        BY <1>1, <4>1
      <4>2. CASE i # 0
        <5>1. /\ Body(g, i) = IF i \in new THEN Observe(g[i - 1], ring[i]) ELSE g[i - 1]
              /\ Body(f, i) = IF i \in new THEN Observe(f[i - 1], ring[i]) ELSE f[i - 1]
          BY <1>2, <4>2
        <5> QED BY <3>1, <4>2, <5>1
      <4> QED BY <4>1, <4>2
    <3>3. CASE i <= n
      <4>1. f[i] = Body(f, i)
        BY <2>1, <3>3
      <4> QED BY <3>2, <3>3, <4>1
    <3>4. CASE ~(i <= n)
      <4>1. i = n + 1
        BY <3>4
      <4>2. g[n + 1] = Body(f, n + 1)
        OBVIOUS
      <4> HIDE DEF g
      <4> QED BY <3>2, <4>1, <4>2
    <3> QED BY <3>3, <3>4
  <2>3. Built(g, n + 1)
    <3>1. g = [i \in 0..n + 1 |-> g[i]]
      OBVIOUS
    <3> HIDE DEF g
    <3> QED BY <2>2, <3>1
  <2>4. n + 1 \in Nat /\ \E h : Built(h, n + 1)
    <3> HIDE DEF g, Built
    <3> QED BY <2>3
  <2> HIDE DEF g, Built
  <2> QED BY <2>4
<1>5. Len(ring) \in S
  <2> HIDE DEF S
  <2> QED BY <1>3, <1>4, NatInductionSet
<1>6. PICK f : f = CHOOSE g : Built(g, Len(ring))
  OBVIOUS
<1>7. f = [i \in 0..Len(ring) |-> Body(f, i)]
  BY <1>5, <1>6
<1>8. Observed(d) = f[Len(ring)]
  BY <1>6 DEF Observed, Body
<1>9. f[0] = d /\ \A i \in 1..Len(ring) : f[i] = Body(f, i)
  <2>1. \A i \in 0..Len(ring) : f[i] = Body(f, i)
    BY <1>7
  <2>2. 0 \in 0..Len(ring)
    OBVIOUS
  <2> QED BY <1>1, <2>1, <2>2
<1>10. \A i \in 1..Len(ring) : i # 0
  OBVIOUS
<1> QED BY <1>2, <1>8, <1>9, <1>10

\* A loop invariant, the set G[i] after the i-th window, holds of the outcome.
LEMMA LoopRule ==
  ASSUME NEW d, Len(ring) \in Nat, NEW G, d \in G[0],
         \A i \in 1..Len(ring) : \A u \in G[i - 1] :
           /\ i \in Since(d.cursor) => Observe(u, ring[i]) \in G[i]
           /\ i \notin Since(d.cursor) => u \in G[i]
  PROVE  Observed(d) \in G[Len(ring)]
<1>1. PICK f : /\ f[0] = d /\ Observed(d) = f[Len(ring)]
               /\ \A i \in 1..Len(ring) :
                    f[i] = IF i \in Since(d.cursor) THEN Observe(f[i - 1], ring[i]) ELSE f[i - 1]
  BY ObserveLoop
<1> DEFINE S == {n \in Nat : n <= Len(ring) => f[n] \in G[n]}
<1>2. 0 \in S
  BY <1>1
<1>3. ASSUME NEW n \in Nat, n \in S
      PROVE  n + 1 \in S
  <2> SUFFICES ASSUME n + 1 <= Len(ring) PROVE f[n + 1] \in G[n + 1]
    OBVIOUS
  <2>1. n + 1 \in 1..Len(ring) /\ (n + 1) - 1 = n /\ f[n] \in G[n]
    BY <1>3
  <2>2. f[n + 1] = IF n + 1 \in Since(d.cursor) THEN Observe(f[n], ring[n + 1]) ELSE f[n]
    BY <1>1, <2>1
  <2> QED BY <2>1, <2>2
<1>4. Len(ring) \in S
  <2> HIDE DEF S
  <2> QED BY <1>2, <1>3, NatInductionSet
<1> QED BY <1>1, <1>4

\* An entry point is a service, and what an open incident knows is typed.
LEMMA IncidentNoticed ==
  ASSUME NEW d, Noticed(d), NEW tracks \in [Services -> Tracks], NEW w \in Windows
  PROVE  LET i == Incident(d, tracks, w)
         IN /\ i = None \/ (i \in Incidents /\ i.services \subseteq DOMAIN i.onsets)
            /\ d.incident # None => i # None
<1> DEFINE flagged == {s \in Services : tracks[s].flagged}
           failing == {s \in UserFacing(w) : w.err[s] > UserErrRate}
           opened  == IF d.incident = None THEN w.n ELSE d.incident.opened
           onsets  == [s \in flagged \cup failing |-> w.onset[s]]
           new     == [opened |-> opened, services |-> flagged, onsets |-> onsets, edges |-> w.edges]
<1>1. Incident(d, tracks, w) = IF Cardinality(flagged) < 2 /\ failing = {} THEN d.incident ELSE new
  BY DEF Incident
<1>2. CASE Cardinality(flagged) < 2 /\ failing = {}
  BY <1>1, <1>2 DEF Noticed
<1>3. CASE ~(Cardinality(flagged) < 2 /\ failing = {})
  <2>1. flagged \subseteq Services /\ failing \subseteq Services
    BY DEF UserFacing
  <2>2. flagged \cup failing # {}
    <3>1. flagged = {} => Cardinality(flagged) = 0
      BY FS_EmptySet
    <3> HIDE DEF flagged, failing
    <3> QED BY <1>3, <3>1
  <2>3. w.onset \in [Services -> 0..MaxArrivals] /\ w.edges \subseteq Edges /\ w.n \in 1..MaxArrivals
    BY DEF Windows
  <2>4. onsets \in [flagged \cup failing -> 0..MaxArrivals] /\ DOMAIN onsets = flagged \cup failing
    <3> HIDE DEF flagged, failing
    <3> QED BY <2>1, <2>3
  <2>5. opened \in 1..MaxArrivals
    BY <2>3 DEF Noticed, Incidents
  <2> HIDE DEF flagged, failing, opened, onsets
  <2>6. onsets \in UNION {[D -> 0..MaxArrivals] : D \in (SUBSET Services) \ {{}}}
    <3>1. flagged \cup failing \in (SUBSET Services) \ {{}}
      BY <2>1, <2>2
    <3> QED BY <2>4, <3>1
  <2>7. new \in Incidents
    BY <2>1, <2>3, <2>5, <2>6 DEF Incidents
  <2>8. new.services \subseteq DOMAIN new.onsets
    BY <2>4
  <2>9. new # None
    <3>1. new.opened = opened /\ None.opened = 0 /\ opened # 0
      BY <2>5 DEF None
    <3> QED BY <3>1
  <2> QED BY <1>1, <1>3, <2>7, <2>8, <2>9
<1> QED BY <1>2, <1>3

\* observe: the detector stays sound, an incident stays open, and the window is the
\* newest observed unless it has the id of the last one.
LEMMA ObserveSound ==
  ASSUME NEW d, DetectorOK(d), NEW w \in Windows
  PROVE  LET u == Observe(d, w)
         IN /\ DetectorOK(u)
            /\ d.incident # None => u.incident # None
            /\ w.id = d.cursor => u = d
            /\ w.id # d.cursor => u.observed = Append(d.observed, w) /\ u.cursor = w.id
<1> DEFINE tracks == [s \in Services |-> Evaluate(d.tracks[s], w.p99[s], w.err[s])]
           i == Incident(d, tracks, w)
           seen == Append(d.observed, w)
           new == [tracks |-> tracks, incident |-> i, cursor |-> w.id, observed |-> seen]
<1>1. Observe(d, w) = IF w.id = d.cursor THEN d ELSE new
  BY DEF Observe
<1>2. d.tracks \in [Services -> Tracks] /\ d.observed \in Seq(Windows)
  BY DEF DetectorOK, Tracking
<1>3. ASSUME NEW s \in Services
      PROVE  /\ tracks[s] = Evaluate(d.tracks[s], w.p99[s], w.err[s])
             /\ tracks[s] \in Tracks /\ (tracks[s].flagged <=> tracks[s].run >= Debounce)
             /\ Plain(seen, s) => Follows(tracks[s], seen, s)
  <2>1. tracks[s] = Evaluate(d.tracks[s], w.p99[s], w.err[s]) /\ d.tracks[s] \in Tracks
    BY <1>2
  <2> HIDE DEF tracks
  <2>2. tracks[s] \in Tracks /\ (tracks[s].flagged <=> tracks[s].run >= Debounce)
    BY <2>1, EvaluateWindow
  <2>3. ASSUME Plain(seen, s)
        PROVE  Follows(tracks[s], seen, s)
    <3>1. d.observed = <<>> => d.tracks[s] = Untracked
      BY DEF DetectorOK, Tracking
    <3>2. d.observed # <<>> => Follows(d.tracks[s], d.observed, s)
      <4> SUFFICES ASSUME d.observed # <<>> PROVE Follows(d.tracks[s], d.observed, s)
        OBVIOUS
      <4>1. Plain(d.observed, s)
        BY <1>2, <2>3, PlainBefore
      <4> QED BY <4>1 DEF DetectorOK, Tracking
    <3> QED BY <1>2, <2>1, <2>3, <3>1, <3>2, FollowsNext
  <2> QED BY <2>1, <2>2, <2>3
<1>4. tracks \in [Services -> Tracks]
  BY <1>3
<1> HIDE DEF tracks
<1>5. /\ i = None \/ (i \in Incidents /\ i.services \subseteq DOMAIN i.onsets)
      /\ d.incident # None => i # None
  BY <1>4, IncidentNoticed DEF DetectorOK
<1>6. w.id \in 1..MaxArrivals
  BY DEF Windows
<1>7. seen \in Seq(Windows) /\ seen # <<>>
  BY <1>2
<1> HIDE DEF i, seen
<1>8. DetectorOK(new)
  <2>1. Tracking(new)
    BY <1>3, <1>4, <1>7 DEF Tracking
  <2>2. Noticed(new)
    <3>1. \A x \in 1..MaxArrivals : x \in 0..MaxArrivals
      OBVIOUS
    <3> QED BY <1>5, <1>6, <3>1 DEF Noticed
  <2>3. new \in Detectors
    <3>1. i \in Incidents \cup {None} /\ w.id \in 0..MaxArrivals
      BY <1>5, <1>6
    <3> QED BY <1>4, <1>7, <3>1 DEF Detectors
  <2> QED BY <2>1, <2>2, <2>3 DEF DetectorOK
<1> QED BY <1>1, <1>5, <1>8 DEF seen

\* Until a relaunch the detector reads exactly the windows it has not observed.
LEMMA SinceIsUnobserved ==
  ASSUME RingOK, NEW d, DetectorOK(d), UpToDate(d), relaunches = 0
  PROVE  Since(d.cursor) = {p \in 1..Len(ring) : p > Len(d.observed)}
<1> DEFINE n == Len(ring)
           k == Len(d.observed)
<1>1. /\ n \in Nat /\ arrivals \in Nat /\ n <= arrivals /\ k \in Nat /\ k <= n
      /\ d.cursor = IF k = 0 THEN 0 ELSE arrivals - n + k
      /\ \A p \in 1..n : ring[p].id = arrivals - n + p
  <2>1. n \in Nat /\ k \in Nat
    BY DEF RingOK, DetectorOK, Tracking
  <2> QED BY <2>1 DEF RingOK, UpToDate
<1>2. Last(ring) = ring[n]
  BY DEF Last
<1> HIDE DEF n, k
<1>3. ASSUME NEW p \in 1..n
      PROVE  (d.cursor = 0 \/ ring[n].id < d.cursor \/ ring[p].id > d.cursor) <=> p > k
  <2>1. ring[p].id = arrivals - n + p /\ ring[n].id = arrivals
    BY <1>1
  <2>2. CASE k = 0
    BY <1>1, <2>2
  <2>3. CASE k # 0
    BY <1>1, <2>1, <2>3
  <2> QED BY <2>2, <2>3
<1> QED BY <1>2, <1>3 DEF Since, n, k

\* The whole tick.
LEMMA ObservedSound ==
  ASSUME RingOK, NEW d, DetectorOK(d), UpToDate(d)
  PROVE  LET u == Observed(d)
         IN DetectorOK(u) /\ UpToDate(u) /\ (d.incident # None => u.incident # None)
<1> DEFINE n == Len(ring)
           k == Len(d.observed)
           Kept(u, p) == /\ DetectorOK(u) /\ UpToDate(u)
                         /\ d.incident # None => u.incident # None
                         /\ relaunches = 0 => Len(u.observed) = IF p > k THEN p ELSE k
           G == [p \in 0..n |-> {u \in Detectors : Kept(u, p)}]
<1>1. n \in Nat /\ k \in Nat /\ (relaunches = 0 => k <= n)
  BY DEF RingOK, DetectorOK, Tracking, UpToDate
<1>2. d \in G[0]
  <2>1. Kept(d, 0)
    BY <1>1
  <2>2. d \in Detectors
    BY DEF DetectorOK
  <2> HIDE DEF Kept
  <2> QED BY <1>1, <2>1, <2>2
<1>3. ASSUME NEW p \in 1..n, NEW u, Kept(u, p - 1), p \in Since(d.cursor)
      PROVE  Kept(Observe(u, ring[p]), p)
  <2> DEFINE x == Observe(u, ring[p])
  <2>1. ring[p] \in Windows
    BY DEF RingOK
  <2>2. /\ DetectorOK(x) /\ (u.incident # None => x.incident # None)
        /\ ring[p].id # u.cursor => x.observed = Append(u.observed, ring[p]) /\ x.cursor = ring[p].id
    BY <1>3, <2>1, ObserveSound
  <2> HIDE DEF x
  <2>3. ASSUME relaunches = 0
        PROVE  /\ Len(x.observed) = p /\ p > k
               /\ \A i \in 1..p : x.observed[i].n = arrivals - n + i
               /\ x.cursor = arrivals - n + p
    <3>1. p > k
      BY <1>3, <2>3, SinceIsUnobserved
    <3>2. Len(u.observed) = p - 1
      BY <1>1, <1>3, <2>3, <3>1
    <3>3. /\ \A i \in 1..p - 1 : u.observed[i].n = arrivals - n + i
          /\ u.cursor = IF p - 1 = 0 THEN 0 ELSE arrivals - n + (p - 1)
      BY <1>3, <2>3, <3>2 DEF UpToDate
    <3>4. /\ ring[p].n = arrivals - n + p /\ ring[p].id = arrivals - n + p
          /\ arrivals \in Nat /\ n <= arrivals
      BY <2>3 DEF RingOK
    <3>5. ring[p].id # u.cursor
      BY <1>1, <3>3, <3>4
    <3>6. u.observed \in Seq(Windows)
      BY <1>3 DEF DetectorOK, Tracking
    <3>7. /\ Len(x.observed) = p
          /\ \A i \in 1..p - 1 : x.observed[i] = u.observed[i]
          /\ x.observed[p] = ring[p]
      BY <2>1, <2>2, <3>2, <3>5, <3>6
    <3>8. \A i \in 1..p : i = p \/ i \in 1..p - 1
      OBVIOUS
    <3> QED BY <2>2, <3>1, <3>3, <3>4, <3>5, <3>7, <3>8
  <2>4. UpToDate(x)
    BY <1>1, <2>3 DEF UpToDate
  <2> QED BY <1>3, <2>2, <2>3, <2>4 DEF x
<1>4. ASSUME NEW p \in 1..n, NEW u, Kept(u, p - 1), p \notin Since(d.cursor)
      PROVE  Kept(u, p)
  <2>1. relaunches = 0 => ~(p > k)
    BY <1>4, SinceIsUnobserved
  <2> QED BY <1>1, <1>4, <2>1
<1>5. ASSUME NEW p \in 1..n, NEW u \in G[p - 1]
      PROVE  /\ p \in Since(d.cursor) => Observe(u, ring[p]) \in G[p]
             /\ p \notin Since(d.cursor) => u \in G[p]
  <2>1. u \in Detectors /\ Kept(u, p - 1)
    BY <1>1
  <2>2. \A v : Kept(v, p) => v \in Detectors
    BY DEF DetectorOK
  <2> HIDE DEF Kept
  <2> QED BY <1>1, <1>3, <1>4, <2>1, <2>2
<1>6. Observed(d) \in G[n]
  <2> HIDE DEF G
  <2> QED BY <1>1, <1>2, <1>5, LoopRule
<1> QED BY <1>1, <1>6

-----------------------------------------------------------------------------
(* Detection through the actions *)

\* What the collector delivers is a window.
LEMMA WindowDelivered ==
  ASSUME NEW p \in Patterns, NEW n \in 1..MaxArrivals, NEW id \in 1..MaxArrivals,
         NEW onsets \in [Services -> 0..MaxArrivals]
  PROVE  Window(p, n, id, onsets) \in Windows
<1> DEFINE err == [s \in Services |-> IF s \in p.silent THEN 0 ELSE p.err[s]]
<1>1. /\ p.silent \subseteq Services /\ p.edges \subseteq Edges /\ p.seen \in 0..1000
      /\ p.p99 \in [Services -> Nat] /\ p.err \in [Services -> 0..1000]
  BY DetectionAssumption
<1>2. err \in [Services -> 0..1000]
  BY <1>1
<1> HIDE DEF err
<1>3. [id |-> id, n |-> n, seen |-> p.seen, onset |-> onsets,
       p99 |-> p.p99, edges |-> p.edges, err |-> err] \in Windows
  BY <1>1, <1>2 DEF Windows
<1> QED BY <1>3 DEF Window, err

LEMMA OnsetTyped ==
  ASSUME NEW p \in Patterns, NEW n \in 1..MaxArrivals, onset \in [Services -> 0..MaxArrivals]
  PROVE  OnsetAfter(p, n) \in [Services -> 0..MaxArrivals]
<1>1. ASSUME NEW s \in Services
      PROVE  (CASE s \in p.silent                                  -> onset[s]
                [] s \notin p.silent /\ p.err[s] < 50              -> 0
                [] s \notin p.silent /\ p.err[s] >= 50             -> IF onset[s] = 0 THEN n ELSE onset[s])
               \in 0..MaxArrivals
  <2>1. onset[s] \in 0..MaxArrivals /\ n \in 0..MaxArrivals /\ 0 \in 0..MaxArrivals
    BY DetectionAssumption
  <2>2. CASE s \in p.silent
    BY <2>1, <2>2
  <2>3. CASE s \notin p.silent /\ p.err[s] < 50
    BY <2>1, <2>3
  <2>4. CASE s \notin p.silent /\ p.err[s] >= 50
    BY <2>1, <2>4
  <2>5. p.err[s] \in 0..1000
    BY DetectionAssumption
  <2>6. p.err[s] < 50 \/ p.err[s] >= 50
    BY <2>5
  <2> QED BY <2>2, <2>3, <2>4, <2>6
<1> QED BY <1>1 DEF OnsetAfter

LEMMA ArriveKeeps ==
  ASSUME DetectionInv, NEW p \in Patterns, Arrive(p), detector' = detector
  PROVE  DetectionInv'
<1> DEFINE w == Window(p, arrivals', streamId', onset')
<1>1. /\ arrivals \in 0..MaxArrivals /\ streamId \in 0..arrivals /\ relaunches \in 0..MaxRelaunches
      /\ ring \in Seq(Windows) /\ Len(ring) \in Nat /\ Len(ring) <= arrivals
      /\ MaxArrivals \in Nat /\ MaxRelaunches \in Nat
  BY DetectionAssumption DEF DetectionInv, RingOK
<1>2. arrivals' = arrivals + 1 /\ arrivals' \in 1..MaxArrivals
  BY <1>1 DEF Arrive
<1>3. /\ streamId' \in 1..arrivals' /\ relaunches' \in 0..MaxRelaunches
      /\ relaunches' = 0 => relaunches = 0 /\ streamId' = streamId + 1
  BY <1>1, <1>2 DEF Arrive
<1>4. onset' \in [Services -> 0..MaxArrivals]
  BY <1>2, OnsetTyped DEF DetectionInv, RingOK, Arrive
<1>5. w \in Windows /\ w.n = arrivals' /\ w.id = streamId'
  <2>1. streamId' \in 1..MaxArrivals
    BY <1>1, <1>2, <1>3
  <2> QED BY <1>2, <1>4, <2>1, WindowDelivered DEF Window
<1>6. ring' = Append(ring, w)
  BY DEF Arrive
<1> HIDE DEF w
<1>7. /\ ring' \in Seq(Windows) /\ Len(ring') = Len(ring) + 1
      /\ \A i \in 1..Len(ring) : ring'[i] = ring[i]
      /\ ring'[Len(ring) + 1] = w
  BY <1>1, <1>5, <1>6
<1>8. ASSUME NEW i \in 1..Len(ring')
      PROVE  /\ ring'[i].n = arrivals' - Len(ring') + i
             /\ relaunches' = 0 => streamId' = arrivals' /\ ring'[i].id = ring'[i].n
  <2>1. CASE i \in 1..Len(ring)
    BY <1>1, <1>2, <1>3, <1>7, <2>1 DEF DetectionInv, RingOK
  <2>2. CASE i = Len(ring) + 1
    BY <1>1, <1>2, <1>3, <1>5, <1>7, <2>2 DEF DetectionInv, RingOK
  <2> QED BY <1>1, <1>7, <2>1, <2>2
<1>9. relaunches' = 0 => streamId' = arrivals'
  BY <1>2, <1>3 DEF DetectionInv, RingOK
<1>10. RingOK'
  <2>1. arrivals' \in 0..MaxArrivals /\ streamId' \in 0..arrivals' /\ Len(ring') <= arrivals'
    BY <1>1, <1>2, <1>3, <1>7
  <2> QED BY <1>3, <1>4, <1>7, <1>8, <1>9, <2>1 DEF RingOK
<1>11. DetectorOK(detector)'
  BY DEF DetectionInv, DetectorOK, Tracking, Noticed
<1>12. UpToDate(detector)'
  <2> SUFFICES ASSUME relaunches' = 0
               PROVE  UpToDate(detector)'
    BY DEF UpToDate
  <2>1. relaunches = 0 /\ Len(detector.observed) \in Nat
    BY <1>3 DEF DetectionInv, DetectorOK, Tracking
  <2>2. arrivals' - Len(ring') = arrivals - Len(ring)
    BY <1>1, <1>2, <1>7
  <2> QED BY <1>1, <1>7, <2>1, <2>2 DEF DetectionInv, UpToDate
<1> QED BY <1>10, <1>11, <1>12 DEF DetectionInv

LEMMA NewDetectorSound ==
  DetectorOK(NewDetector) /\ NewDetector.cursor = 0 /\ NewDetector.observed = <<>>
<1> DEFINE d == NewDetector
<1>1. d.tracks = [s \in Services |-> Untracked] /\ d.incident = None /\ d.cursor = 0 /\ d.observed = <<>>
  BY DEF NewDetector
<1>2. Untracked \in Tracks /\ ~Untracked.flagged /\ Untracked.run = 0
  BY DEF Untracked, Tracks
<1>3. <<>> \in Seq(Windows) /\ 0 \in 0..MaxArrivals /\ ~(0 >= Debounce)
  BY DetectionAssumption
<1>4. \A s \in Services : ~Plain(<<>>, s)
  BY DEF Plain
<1>5. d \in Detectors
  BY <1>2, <1>3 DEF Detectors, NewDetector
<1>6. d.tracks \in [Services -> Tracks] /\ \A s \in Services : d.tracks[s] = Untracked
  BY <1>1, <1>2
<1> HIDE DEF d
<1>7. Tracking(d)
  BY <1>1, <1>2, <1>3, <1>4, <1>6 DEF Tracking
<1>8. Noticed(d)
  BY <1>1, <1>3 DEF Noticed
<1> QED BY <1>1, <1>5, <1>7, <1>8 DEF DetectorOK, d

\* The ring is empty, and the detector knows nothing.
LEMMA FreshDetection ==
  /\ DetectionInit => DetectionInv
  /\ DetectionInv /\ Reset => DetectionInv'
<1>1. 0 \in 0..MaxArrivals /\ 0 \in 0..0 /\ 0 \in 0..MaxRelaunches /\ <<>> \in Seq(Windows)
  BY DetectionAssumption
<1>2. Len(<<>>) = 0 /\ 1..0 = {}
  OBVIOUS
<1>3. ASSUME DetectionInit
      PROVE  DetectionInv
  <2>1. RingOK
    BY <1>1, <1>3 DEF DetectionInit, RingOK
  <2>2. UpToDate(detector)
    BY <1>3, NewDetectorSound DEF DetectionInit, UpToDate
  <2> QED BY <1>3, <2>1, <2>2, NewDetectorSound DEF DetectionInit, DetectionInv
<1>4. ASSUME DetectionInv, Reset
      PROVE  DetectionInv'
  <2>1. RingOK'
    BY <1>1, <1>2, <1>4 DEF DetectionInv, RingOK, Reset
  <2>2. /\ detector' = NewDetector /\ ring' = <<>> /\ relaunches' = relaunches
        /\ arrivals' = arrivals
    BY <1>4 DEF Reset
  <2>3. UpToDate(detector)'
    BY <1>2, <2>2, NewDetectorSound DEF UpToDate
  <2>4. DetectorOK(detector)'
    BY <2>2, NewDetectorSound DEF DetectorOK, Tracking, Noticed
  <2> QED BY <2>1, <2>3, <2>4 DEF DetectionInv
<1> QED BY <1>3, <1>4

LEMMA DetectionNext == DetectionInv /\ [Next]_vars => DetectionInv'
<1> SUFFICES ASSUME DetectionInv, [Next]_vars PROVE DetectionInv'
  OBVIOUS
<1>1. ASSUME NEW p \in Patterns, Deliver(p)
      PROVE  DetectionInv'
  BY <1>1, ArriveKeeps DEF Deliver
<1>2. CASE Tick
  <2>1. detector' = Observed(detector) /\ UNCHANGED streamVars
    BY <1>2 DEF Tick
  <2>2. DetectorOK(Observed(detector)) /\ UpToDate(Observed(detector))
    BY ObservedSound DEF DetectionInv
  <2> HIDE DEF Observed
  <2>3. DetectorOK(detector)'
    BY <2>1, <2>2 DEF DetectorOK, Tracking, Noticed
  <2>4. UpToDate(detector)'
    BY <2>1, <2>2 DEF UpToDate, streamVars
  <2> QED BY <2>1, <2>3, <2>4 DEF DetectionInv, RingOK, streamVars
<1>3. CASE ProbeConcludes \/ Approve \/ UNCHANGED vars
  <2>1. UNCHANGED <<streamVars, detector>>
    BY <1>3 DEF ProbeConcludes, Approve, vars
  <2> QED BY <2>1 DEF DetectionInv, RingOK, DetectorOK, Tracking, Noticed, UpToDate, streamVars
<1>4. CASE Reset
  BY <1>4, FreshDetection
<1> QED BY <1>1, <1>2, <1>3, <1>4 DEF Next

LEMMA DetectionInvariant == Spec => []DetectionInv
<1>1. Init => DetectionInv
  BY FreshDetection DEF Init
<1> QED BY <1>1, DetectionNext, PTL DEF Spec

\* Until a relaunch the detector observes every window exactly once, in order, and
\* none is skipped, whatever the cadence of its ticks.
THEOREM EachWindowOnceAlways == Spec => []EachWindowOnce
<1>1. DetectionInv => EachWindowOnce
  <2> SUFFICES ASSUME DetectionInv, relaunches = 0, NEW i \in DOMAIN detector.observed
               PROVE  detector.observed[i].n = arrivals - Len(ring) + i
    BY DEF EachWindowOnce
  <2>1. i \in 1..Len(detector.observed)
    BY DEF DetectionInv, DetectorOK, Tracking
  <2> QED BY <2>1 DEF DetectionInv, UpToDate
<1> QED BY <1>1, DetectionInvariant, PTL

\* A service that was normal, long enough before it was slow, is flagged exactly while
\* it has been abnormal for the debounce: the frozen baseline never absorbs an outage.
THEOREM FlagsAlways == Spec => []FlagsAreRight
<1>1. DetectionInv => FlagsAreRight
  <2> DEFINE seen == detector.observed
             n    == Len(seen)
  <2> SUFFICES ASSUME DetectionInv, NEW s \in Services, Plain(seen, s)
               PROVE  detector.tracks[s].flagged <=>
                        /\ n >= Debounce
                        /\ \A i \in n - Debounce + 1..n : Abnormal(seen, s, i)
    BY DEF FlagsAreRight
  <2> DEFINE t == detector.tracks[s]
  <2>1. /\ t \in Tracks /\ seen \in Seq(Windows) /\ (t.flagged <=> t.run >= Debounce)
        /\ Follows(t, seen, s)
    BY DEF DetectionInv, DetectorOK, Tracking
  <2>2. t.run \in Nat /\ n \in Nat /\ Debounce \in Nat \ {0}
    BY <2>1, DetectionAssumption DEF Tracks
  <2>3. /\ t.run <= n
        /\ \A i \in 1..n : i > n - t.run => Abnormal(seen, s, i)
        /\ t.run < n => ~Abnormal(seen, s, n - t.run)
    BY <2>1 DEF Follows
  <2>4. t.flagged <=> t.run >= Debounce
    BY <2>1
  <2> HIDE DEF seen, n, t
  <2>5. ASSUME t.run >= Debounce
        PROVE  n >= Debounce /\ \A i \in n - Debounce + 1..n : Abnormal(seen, s, i)
    <3>1. n >= Debounce /\ \A i \in n - Debounce + 1..n : i \in 1..n /\ i > n - t.run
      BY <2>2, <2>3, <2>5
    <3> QED BY <2>3, <3>1
  <2>6. ASSUME ~(t.run >= Debounce), n >= Debounce
        PROVE  \E i \in n - Debounce + 1..n : ~Abnormal(seen, s, i)
    <3>1. t.run < n /\ n - t.run \in n - Debounce + 1..n
      BY <2>2, <2>6
    <3> QED BY <2>3, <3>1
  <2>7. t.flagged <=> /\ n >= Debounce
                      /\ \A i \in n - Debounce + 1..n : Abnormal(seen, s, i)
    BY <2>4, <2>5, <2>6
  <2> QED BY <2>7 DEF seen, n, t
<1> QED BY <1>1, DetectionInvariant, PTL

-----------------------------------------------------------------------------
(* The plan *)

\* What Plan builds and the operator's approval changes, field by field.
APlan(p) ==
  \E s, options, confidence, recommended, measured, issued :
    p = [service |-> s, options |-> options, confidence |-> confidence,
         recommended |-> recommended, measured |-> measured, issued |-> issued]

\* The evidence a plan nobody has acted on was built from is still on display: it
\* says what it rests on, and names what that names.
Rests(p, shown, result) ==
  \/ ~p.measured /\ p.service = shown[1].service /\ Separated(shown)
  \/ /\ p.measured /\ result.matched # 0 /\ result.matched \in DOMAIN shown
     /\ p.service = shown[result.matched].service

PlanInv ==
  /\ probe.result.matched # 0 => probe.phase = "measured"
  /\ plan # NoPlan => /\ APlan(plan) /\ detector.incident # None
                      /\ ~plan.issued => Rests(plan, hypotheses, probe.result)

LEMMA APlanIssued ==
  ASSUME NEW p, APlan(p), NEW b
  PROVE  LET q == [p EXCEPT !.issued = b]
         IN APlan(q) /\ q.issued = b /\ q.service = p.service /\ q.measured = p.measured
<1>1. PICK s, options, confidence, recommended, measured, issued :
        p = [service |-> s, options |-> options, confidence |-> confidence,
             recommended |-> recommended, measured |-> measured, issued |-> issued]
  BY DEF APlan
<1> DEFINE q == [service |-> s, options |-> options, confidence |-> confidence,
                 recommended |-> recommended, measured |-> measured, issued |-> b]
<1>2. [p EXCEPT !.issued = b] = q
  BY <1>1
<1>3. q.issued = b /\ q.service = p.service /\ q.measured = p.measured
  BY <1>1
<1>4. APlan(q)
  BY DEF APlan
<1> HIDE DEF q
<1> QED BY <1>2, <1>3, <1>4

\* build: the plan is about the hypothesis the evidence supports.
LEMMA PlanRests ==
  ASSUME NEW incident, NEW shown, NEW result, NEW slack, NEW seen,
         NEW p, p = Plan(incident, shown, result, slack, seen), p # NoPlan
  PROVE  APlan(p) /\ Rests(p, shown, result) /\ ~p.issued
<1> DEFINE i == Supported(shown, result, slack)
           s == shown[i].service
           confidence == (shown[i].posterior * seen + 500) \div 1000
           options == Options(incident.edges, s, incident.services)
           recommended == Recommended(options, confidence)
           measured == result.matched # 0
<1>1. /\ i # 0
      /\ p = [service |-> s, options |-> options, confidence |-> confidence,
              recommended |-> recommended, measured |-> measured, issued |-> FALSE]
  BY DEF Plan
<1>2. \/ result.matched # 0 /\ result.matched \in DOMAIN shown /\ i = result.matched
      \/ result.matched = 0 /\ i = 1 /\ Separated(shown)
  BY <1>1 DEF Supported, ObservationNames
<1> HIDE DEF i, s, confidence, options, recommended, measured
<1>3. APlan(p)
  BY <1>1 DEF APlan
<1>4. p.service = s /\ p.measured = measured /\ p.issued = FALSE
  BY <1>1
<1>5. Rests(p, shown, result)
  BY <1>2, <1>4 DEF Rests, s, measured
<1> QED BY <1>3, <1>4, <1>5

\* replan: what it leaves behind rests on what it was given, or was acted on.
LEMMA ReplanRests ==
  ASSUME NEW incident, incident # None, NEW shown, NEW result,
         plan # NoPlan => APlan(plan),
         Replan(incident, shown, result), plan' # NoPlan
  PROVE  /\ APlan(plan')
         /\ ~plan'.issued => Rests(plan', shown, result)
<1>1. PICK slack \in BOOLEAN :
        plan' = ReplanAs(Plan(incident, shown, result, slack, Last(ring).seen))
  BY DEF Replan
<1>2. PICK p : p = Plan(incident, shown, result, slack, Last(ring).seen)
  OBVIOUS
<1>3. CASE plan # NoPlan /\ plan.issued
  <2>1. plan' = plan
    BY <1>1, <1>3 DEF ReplanAs
  <2> QED BY <1>3, <2>1
<1>4. CASE ~(plan # NoPlan /\ plan.issued)
  <2>1. p # NoPlan
    BY <1>1, <1>2, <1>4 DEF ReplanAs
  <2> DEFINE alone == /\ p.recommended # "none"
                      /\ Autonomy(p.recommended, p.confidence) = "AUTONOMOUS"
  <2>2. plan' = [p EXCEPT !.issued = alone]
    BY <1>1, <1>2, <1>4, <2>1 DEF ReplanAs
  <2>3. APlan(p) /\ Rests(p, shown, result)
    BY <1>2, <2>1, PlanRests
  <2> HIDE DEF alone
  <2>4. APlan(plan') /\ plan'.service = p.service /\ plan'.measured = p.measured
    BY <2>2, <2>3, APlanIssued
  <2> QED BY <2>3, <2>4 DEF Rests
<1> QED BY <1>3, <1>4

LEMMA PlanNext == DetectionInv /\ PlanInv /\ [Next]_vars => PlanInv'
<1> SUFFICES ASSUME DetectionInv, PlanInv, [Next]_vars PROVE PlanInv'
  OBVIOUS
<1>1. plan # NoPlan => APlan(plan)
  BY DEF PlanInv
<1>2. CASE Tick
  <2>1. detector.incident # None => detector'.incident # None
    <3>1. detector' = Observed(detector)
      BY <1>2 DEF Tick
    <3> QED BY <3>1, ObservedSound DEF DetectionInv
  <2>2. CASE detector'.incident = None
    <3>1. UNCHANGED <<hypotheses, probe, plan>>
      BY <1>2, <2>2 DEF Tick
    <3> QED BY <2>1, <3>1 DEF PlanInv
  <2>3. CASE detector'.incident # None
    <3>1. Replan(detector'.incident, hypotheses', probe'.result)
      BY <1>2, <2>3 DEF Tick
    <3>2. probe'.result.matched # 0 => probe'.phase = "measured"
      <4>1. probe' = probe \/ probe'.result = NoResult
        BY <1>2, <2>3 DEF Tick, StartProbe
      <4> QED BY <4>1 DEF PlanInv, NoResult
    <3>3. plan' # NoPlan => /\ APlan(plan')
                            /\ ~plan'.issued => Rests(plan', hypotheses', probe'.result)
      BY <1>1, <2>3, <3>1, ReplanRests
    <3> QED BY <2>3, <3>2, <3>3 DEF PlanInv, Rests
  <2> QED BY <2>2, <2>3
<1>3. CASE ProbeConcludes
  <2>1. PICK matched, result, corrected :
          /\ result = [matched |-> matched, inconclusive |-> matched = 0]
          /\ hypotheses' = corrected
          /\ probe' = [ranking |-> running, result |-> result,
                       phase |-> IF matched = 0 THEN "inconclusive" ELSE "measured"]
          /\ Replan(detector.incident, corrected, result)
          /\ detector' = detector
    BY <1>3 DEF ProbeConcludes
  <2>2. probe'.result = result /\ (probe'.result.matched # 0 => probe'.phase = "measured")
    BY <2>1
  <2>3. CASE detector.incident = None
    <3>1. plan' = NoPlan
      BY <2>1, <2>3 DEF Replan, PlanInv
    <3> QED BY <2>2, <3>1 DEF PlanInv
  <2>4. CASE detector.incident # None
    <3>1. plan' # NoPlan => /\ APlan(plan')
                            /\ ~plan'.issued => Rests(plan', corrected, result)
      BY <1>1, <2>1, <2>4, ReplanRests
    <3> QED BY <2>1, <2>2, <2>4, <3>1 DEF PlanInv, Rests
  <2> QED BY <2>3, <2>4
<1>4. CASE Approve
  <2>1. /\ plan # NoPlan /\ plan' = [plan EXCEPT !.issued = TRUE]
        /\ UNCHANGED <<detector, probe>>
    BY <1>4 DEF Approve
  <2>2. APlan(plan') /\ plan'.issued
    BY <1>1, <2>1, APlanIssued
  <2> QED BY <2>1, <2>2 DEF PlanInv
<1>5. CASE Reset
  BY <1>5 DEF Reset, PlanInv, NoProbe, NoResult
<1>6. ASSUME UNCHANGED <<detector, hypotheses, probe, plan>>
      PROVE  PlanInv'
  BY <1>6 DEF PlanInv
<1>7. CASE \E p \in Patterns : Deliver(p)
  BY <1>6, <1>7 DEF Deliver
<1>8. CASE UNCHANGED vars
  BY <1>6, <1>8 DEF vars
<1> QED BY <1>2, <1>3, <1>4, <1>5, <1>7, <1>8 DEF Next

LEMMA PlanInvariant == Spec => []PlanInv
<1>1. Init => PlanInv
  BY DEF Init, PlanInv, NoProbe, NoResult
<1> QED BY <1>1, DetectionInvariant, PlanNext, PTL DEF Spec

\* A plan nobody has acted on names what the evidence on display names: the first
\* hypothesis, separated by observation, or the one a conclusive probe matched.
THEOREM PlanIsSupportedAlways == Spec => []PlanIsSupported
<1>1. PlanInv => PlanIsSupported
  BY DEF PlanInv, Rests, PlanIsSupported
<1> QED BY <1>1, PlanInvariant, PTL

\* While the ranking is still the one the probe was published for, a plan resting on
\* the probe is about the service it measured.
THEOREM PlanIsForMeasuredAlways == Spec => []PlanIsForMeasured
<1>1. PlanInv => PlanIsForMeasured
  <2> SUFFICES ASSUME PlanInv, plan # NoPlan, plan.measured, ~plan.issued,
                      Services_(hypotheses) = Services_(probe.ranking)
               PROVE  plan.service = probe.ranking[probe.result.matched].service
    BY DEF PlanIsForMeasured
  <2> DEFINE m == probe.result.matched
  <2>1. m \in DOMAIN hypotheses /\ plan.service = hypotheses[m].service
    BY DEF PlanInv, Rests
  <2> HIDE DEF m
  <2>2. m \in DOMAIN probe.ranking /\ hypotheses[m].service = probe.ranking[m].service
    BY <2>1 DEF Services_
  <2> QED BY <2>1, <2>2 DEF m
<1> QED BY <1>1, PlanInvariant, PTL

-----------------------------------------------------------------------------
(* The Scorer's arithmetic *)

\* A product of two bounded factors is bounded.
LEMMA ProductBound ==
  ASSUME NEW a \in Nat, NEW b \in Nat, NEW m \in Nat, NEW n \in Nat, a <= m, b <= n
  PROVE  a * b \in Nat /\ a * b <= m * n
<1>1. a * b \in Nat /\ m * b \in Nat /\ m * n \in Nat
  OBVIOUS
<1>2. a * b <= m * b
  <2>1. PICK k \in Nat : m = a + k
    <3>1. m - a \in Nat /\ m = a + (m - a)
      OBVIOUS
    <3> QED BY <3>1
  <2>2. m * b = a * b + k * b /\ k * b \in Nat
    BY <2>1
  <2> QED BY <1>1, <2>2
<1>3. m * b <= m * n
  <2>1. PICK k \in Nat : n = b + k
    <3>1. n - b \in Nat /\ n = b + (n - b)
      OBVIOUS
    <3> QED BY <3>1
  <2>2. m * n = m * b + m * k /\ m * k \in Nat
    BY <2>1
  <2> QED BY <1>1, <2>2
<1> QED BY <1>1, <1>2, <1>3

\* A share of a total, in thousandths, rounded either way.
LEMMA ShareInRange ==
  ASSUME NEW x \in Nat, NEW t \in Nat \ {0}, x < 1001 * t
  PROVE  x \div t \in 0..1000
<1>1. PICK q \in Int, r \in Int : q = x \div t /\ x = q * t + r /\ 0 <= r /\ r < t
  OBVIOUS
<1>2. ASSUME q < 0
      PROVE  FALSE
  <2>1. PICK k \in Nat : q = -1 - k
    <3>1. -1 - q \in Nat /\ q = -1 - (-1 - q)
      BY <1>2
    <3> QED BY <3>1
  <2>2. q * t = -t - k * t /\ k * t \in Nat
    BY <2>1
  <2> QED BY <1>1, <2>2
<1>3. ASSUME q > 1000
      PROVE  FALSE
  <2>1. PICK k \in Nat : q = 1001 + k
    <3>1. q - 1001 \in Nat /\ q = 1001 + (q - 1001)
      BY <1>3
    <3> QED BY <3>1
  <2>2. q * t = 1001 * t + k * t /\ k * t \in Nat
    BY <2>1
  <2> QED BY <1>1, <2>2
<1> QED BY <1>1, <1>2, <1>3

\* The exponential of nothing is one, and no exponential is more.
LEMMA ExpInRange ==
  ASSUME NEW n \in Nat
  PROVE  Exp(n) \in 0..1000 /\ Exp(0) = 1000
<1> DEFINE ones   == <<10000, 3679, 1353, 498, 183, 67, 25>>
           tenths == <<10000, 9048, 8187, 7408, 6703, 6065, 5488, 4966, 4493, 4066>>
           rest(m) == 10000 - 100 * (m % 10) + ((m % 10) * (m % 10)) \div 2
           whole(m) == (ones[m \div 100 + 1] * tenths[((m \div 10) % 10) + 1]) \div 10000
<1>1. ASSUME NEW m \in Nat
      PROVE  Exp(m) = IF m >= 700 THEN 0 ELSE (whole(m) * rest(m) + 50000) \div 100000
  BY DEF Exp
<1>2. ASSUME n >= 700 PROVE Exp(n) \in 0..1000
  BY <1>1, <1>2
<1>3. ASSUME n < 700 PROVE Exp(n) \in 0..1000
  <2>1. PICK i \in 1..7 : i = n \div 100 + 1
    BY <1>3
  <2>2. PICK j \in 1..10 : j = ((n \div 10) % 10) + 1
    <3>1. n \div 10 \in Nat
      OBVIOUS
    <3>2. (n \div 10) % 10 \in 0..9
      BY <3>1
    <3> QED BY <3>2
  <2>3. PICK a \in Nat : a = ones[i] /\ a <= 10000
    OBVIOUS
  <2>4. PICK b \in Nat : b = tenths[j] /\ b <= 10000
    OBVIOUS
  <2>5. PICK k \in 0..9 : k = n % 10
    OBVIOUS
  <2>6. PICK r \in Nat : r = rest(n) /\ r <= 10000
    <3>1. PICK p \in Nat, q \in Nat : p = k * k /\ q = 9
      OBVIOUS
    <3>2. p <= 9 * k
      <4>1. k \in Nat /\ k <= q
        BY <3>1
      <4>2. p <= q * k
        BY <3>1, <4>1, ProductBound
      <4> QED BY <3>1, <4>2
    <3>3. PICK h \in Nat : h = p \div 2 /\ h <= p
      <4>1. p \div 2 \in Nat
        OBVIOUS
      <4>2. p \div 2 <= p
        OBVIOUS
      <4> QED BY <4>1, <4>2
    <3>4. h <= 9 * k
      BY <3>2, <3>3
    <3>5. PICK m \in Nat : m = 10000 - 100 * k + h /\ m <= 10000
      <4>1. 10000 - 100 * k + h \in Nat
        BY <3>4
      <4>2. 10000 - 100 * k + h <= 10000
        BY <3>4
      <4> QED BY <4>1, <4>2
    <3>6. m = rest(n)
      BY <2>5, <3>1, <3>3, <3>5
    <3> HIDE DEF rest
    <3> QED BY <3>5, <3>6
  <2>7. PICK c \in Nat : c = a * b
    OBVIOUS
  <2>8. c <= 100000000
    BY <2>3, <2>4, <2>7, ProductBound
  <2>9. whole(n) = c \div 10000
    BY <2>1, <2>2, <2>3, <2>4, <2>7
  <2>10. PICK d \in Nat : d = c \div 10000 /\ d <= 10000
    BY <2>8
  <2> HIDE DEF whole, rest
  <2>11. PICK p \in Nat : p = d * r
    OBVIOUS
  <2>12. p <= 100000000
    BY <2>6, <2>10, <2>11, ProductBound
  <2>13. (p + 50000) \div 100000 \in 0..1000
    BY <2>12
  <2>14. Exp(n) = (p + 50000) \div 100000
    BY <1>1, <1>3, <2>6, <2>9, <2>10, <2>11
  <2> QED BY <2>13, <2>14
<1>4. Exp(0) = 1000
  <2>1. 0 \div 100 + 1 = 1 /\ ((0 \div 10) % 10) + 1 = 1 /\ 0 % 10 = 0
    OBVIOUS
  <2>2. ones[1] = 10000 /\ tenths[1] = 10000
    OBVIOUS
  <2>3. whole(0) = (10000 * 10000) \div 10000
    BY <2>1, <2>2
  <2>4. rest(0) = 10000
    BY <2>1
  <2> HIDE DEF whole, rest
  <2>5. whole(0) = 10000
    BY <2>3
  <2>6. Exp(0) = (10000 * 10000 + 50000) \div 100000
    BY <1>1, <2>4, <2>5
  <2> QED BY <2>6
<1>5. Exp(n) \in 0..1000
  BY <1>2, <1>3
<1> QED BY <1>4, <1>5

\* Configuration names every service once, so a name has a rank.
LEMMA RankOfName ==
  /\ IsFiniteSet(Services)
  /\ \A s \in Services : Rank(s) \in Nat /\ Names[Rank(s)] = s
<1>1. PICK n \in Nat : n = Len(Names)
  BY ScoringAssumption
<1>2. Names = [i \in 1..n |-> Names[i]] /\ DOMAIN Names = 1..n
  BY <1>1, ScoringAssumption
<1>3. IsFiniteSet(Range(Names))
  BY <1>2, RangeIsFinite
<1>4. ASSUME NEW s \in Services
      PROVE  Rank(s) \in Nat /\ Names[Rank(s)] = s
  <2>1. \E i \in DOMAIN Names : Names[i] = s
    BY DiagnosisAssumption DEF Range
  <2>2. Rank(s) \in 1..n /\ Names[Rank(s)] = s
    BY <1>2, <2>1 DEF Rank
  <2> QED BY <2>2
<1> QED BY <1>3, <1>4, DiagnosisAssumption

-----------------------------------------------------------------------------
(* The four terms and the score *)

LEMMA PrecedenceInRange ==
  ASSUME NEW D, NEW onsets \in [D -> 0..MaxArrivals], NEW s \in D
  PROVE  TemporalPrecedence(onsets, s) \in 0..1000
<1>1. PICK known : known = {onsets[d] : d \in DOMAIN onsets} \ {0}
  OBVIOUS
<1>2. TemporalPrecedence(onsets, s) =
        IF onsets[s] = 0 THEN 0 ELSE Exp((100 * (onsets[s] - Min(known))) \div DecaySeconds)
  BY <1>1 DEF TemporalPrecedence
<1>3. ASSUME onsets[s] # 0
      PROVE  Exp((100 * (onsets[s] - Min(known))) \div DecaySeconds) \in 0..1000
  <2>1. known \in SUBSET Nat /\ onsets[s] \in known
    BY <1>1, <1>3, DetectionAssumption
  <2>2. PICK lag \in Nat : lag = onsets[s] - Min(known)
    <3>1. Min(known) \in Nat /\ Min(known) <= onsets[s] /\ onsets[s] \in Nat
      BY <2>1, MinIsLeast
    <3> QED BY <3>1
  <2>3. DecaySeconds \in Nat \ {0}
    BY ScoringAssumption
  <2>4. PICK m \in Nat : m = (100 * lag) \div DecaySeconds
    <3>1. (100 * lag) \div DecaySeconds \in Nat
      BY <2>3
    <3> QED BY <3>1
  <2>5. Exp(m) \in 0..1000
    BY ExpInRange
  <2> QED BY <2>2, <2>4, <2>5
<1> QED BY <1>2, <1>3

LEMMA UpstreamnessInRange ==
  ASSUME NEW edges, NEW s, NEW D \in SUBSET Services
  PROVE  Upstreamness(edges, s, D) \in 0..1000
<1>1. PICK others : others = D \ {s}
  OBVIOUS
<1>2. PICK calling : calling = others \cap CallersOf(edges, s)
  OBVIOUS
<1>3. Upstreamness(edges, s, D) =
        IF others = {} THEN 0 ELSE (1000 * Cardinality(calling)) \div Cardinality(others)
  BY <1>1, <1>2 DEF Upstreamness
<1>4. ASSUME others # {}
      PROVE  (1000 * Cardinality(calling)) \div Cardinality(others) \in 0..1000
  <2>1. IsFiniteSet(others) /\ IsFiniteSet(calling) /\ Cardinality(calling) <= Cardinality(others)
    BY <1>1, <1>2, RankOfName, FS_Subset
  <2>2. /\ Cardinality(others) \in Nat \ {0}
        /\ Cardinality(calling) \in Nat
    BY <1>4, <2>1, FS_CardinalityType, FS_EmptySet
  <2>3. PICK w \in Nat, t \in Nat \ {0} : w = Cardinality(calling) /\ t = Cardinality(others) /\ w <= t
    BY <2>1, <2>2
  <2>4. PICK y \in Nat : y = 1000 * w /\ y < 1001 * t
    BY <2>3
  <2>5. y \div t \in 0..1000
    <3>1. y < 1001 * t
      BY <2>4
    <3> QED BY <3>1, ShareInRange
  <2> QED BY <2>3, <2>4, <2>5
<1> QED BY <1>3, <1>4

\* A credit is cut off at its limit.
LEMMA MinUnder ==
  ASSUME NEW c \in Nat, NEW y \in Nat
  PROVE  Min({c, y}) \in 0..c
<1>1. PICK T \in SUBSET Nat : T = {c, y}
  OBVIOUS
<1>2. T # {} /\ c \in T
  BY <1>1
<1>3. Min(T) \in T /\ \A z \in T : Min(T) <= z
  BY <1>2, MinIsLeast
<1>4. PICK v \in T : v = Min(T)
  BY <1>3
<1>5. v \in Nat /\ v <= c
  BY <1>2, <1>3, <1>4
<1> QED BY <1>1, <1>4, <1>5

LEMMA AmplificationInRange ==
  ASSUME NEW edges \in SUBSET Edges, NEW s
  PROVE  AmplificationTarget(edges, s) \in 0..1000
<1> DEFINE credit(e) == Min({1000, ((e.amp - 1500) * 1000) \div 1500})
           loud == {x \in edges : x.to = s /\ x.amp > 1500}
           T == {0} \cup {credit(e) : e \in loud}
<1>1. AmplificationTarget(edges, s) = Max(T)
  BY DEF AmplificationTarget
<1>2. ASSUME NEW e \in loud
      PROVE  credit(e) \in 0..1000
  <2>1. e.amp \in Nat /\ e.amp > 1500
    BY DEF Edges
  <2> DEFINE x == ((e.amp - 1500) * 1000) \div 1500
  <2>2. x \in Nat
    <3>1. PICK n \in Nat : n = e.amp - 1500
      BY <2>1
    <3>2. (n * 1000) \div 1500 \in Nat
      OBVIOUS
    <3>3. n * 1000 = (e.amp - 1500) * 1000
      BY <3>1
    <3> QED BY <3>2, <3>3
  <2>3. credit(e) = Min({1000, x})
    OBVIOUS
  <2> HIDE DEF x, credit, loud
  <2>4. PICK c, y \in Nat : c = 1000 /\ y = x
    BY <2>2
  <2>5. Min({c, y}) \in 0..c
    BY MinUnder
  <2> QED BY <2>3, <2>4, <2>5
<1>3. ASSUME NEW y \in T
      PROVE  y \in Nat /\ y <= 1000
  <2> HIDE DEF credit, loud
  <2>1. y = 0 \/ \E e \in loud : y = credit(e)
    OBVIOUS
  <2> QED BY <1>2, <2>1
<1>4. 0 \in T
  OBVIOUS
<1> HIDE DEF T
<1>5. PICK m \in Nat : m = 1000
  OBVIOUS
<1>6. IsFiniteSet(0..m)
  BY FS_Interval
<1>7. T \in SUBSET (0..m)
  BY <1>3, <1>5
<1>8. IsFiniteSet(T)
  BY <1>6, <1>7, FS_Subset
<1>9. T \in SUBSET Int /\ T # {}
  BY <1>3, <1>4
<1>10. Max(T) \in T
  BY <1>8, <1>9, MaxIsGreatest
<1> QED BY <1>1, <1>3, <1>10

LEMMA ScoreInRange ==
  ASSUME NEW incident \in Incidents, NEW s \in DOMAIN incident.onsets
  PROVE  Score(incident, s) \in -1000..1000
<1>1. PICK D \in SUBSET Services : incident.onsets \in [D -> 0..MaxArrivals]
  BY DEF Incidents
<1>2. incident.edges \in SUBSET Edges /\ DOMAIN incident.onsets = D
  BY <1>1 DEF Incidents
<1>3. PICK a \in 0..1000 : a = TemporalPrecedence(incident.onsets, s)
  BY <1>1, <1>2, PrecedenceInRange
<1>4. PICK b \in 0..1000 : b = Upstreamness(incident.edges, s, DOMAIN incident.onsets)
  BY <1>2, UpstreamnessInRange
<1>5. PICK c \in 0..1000 : c = AmplificationTarget(incident.edges, s)
  BY <1>2, AmplificationInRange
<1>6. PICK d \in 0..1000 : d = SharedResourcePenalty(incident.edges, s)
  BY DEF SharedResourcePenalty
<1>7. Score(incident, s) = (300 * a + 250 * b + 250 * c - 350 * d + 500) \div 1000
  BY <1>3, <1>4, <1>5, <1>6 DEF Score
<1> QED BY <1>7

-----------------------------------------------------------------------------
(* normalise *)

\* What a score and what a posterior may be.
Scores == -1000..1000
Shares == 0..1000

\* The posteriors are shares of a total to which the best alone gives something.
LEMMA PosteriorsInRange ==
  ASSUME NEW n \in Nat, NEW scores \in [1..n -> Int]
  PROVE  /\ DOMAIN Posteriors(scores) = 1..n
         /\ Posteriors(scores) = [i \in 1..n |-> Posteriors(scores)[i]]
         /\ \A i \in 1..n : Posteriors(scores)[i] \in Shares
<1> DEFINE best   == Max(Range(scores))
           weight == [i \in DOMAIN scores |-> Exp((100 * (best - scores[i])) \div MarginThreshold)]
           total  == SumFunction(weight)
           share(i) == (1000 * weight[i] + total \div 2) \div total
<1>1. Posteriors(scores) = [i \in DOMAIN scores |-> share(i)]
  BY DEF Posteriors
<1>2. ASSUME NEW i \in 1..n
      PROVE  share(i) \in 0..1000
  <2>1. IsFiniteSet(Range(scores)) /\ Range(scores) \in SUBSET Int /\ Range(scores) # {}
    <3>1. scores = [j \in 1..n |-> scores[j]]
      OBVIOUS
    <3>2. IsFiniteSet(Range(scores))
      BY <3>1, RangeIsFinite
    <3>3. Range(scores) \in SUBSET Int /\ scores[i] \in Range(scores)
      BY <1>2 DEF Range
    <3> QED BY <3>2, <3>3
  <2>2. best \in Range(scores) /\ \A y \in Range(scores) : y <= best
    BY <2>1, MaxIsGreatest
  <2>3. PICK b \in 1..n : best = scores[b]
    BY <2>2 DEF Range
  <2>4. best \in Int /\ MarginThreshold \in Nat \ {0}
    BY <2>3, ScoringAssumption
  <2> HIDE DEF best
  <2>5. ASSUME NEW j \in 1..n
        PROVE  weight[j] \in Nat
    <3>1. weight[j] = Exp((100 * (best - scores[j])) \div MarginThreshold)
      OBVIOUS
    <3> HIDE DEF weight, total, share
    <3>2. PICK k \in Nat : k = best - scores[j]
      <4>1. scores[j] \in Int /\ scores[j] <= best
        BY <2>2 DEF Range
      <4> QED BY <2>4, <4>1
    <3>3. (100 * k) \div MarginThreshold \in Nat
      BY <2>4
    <3>4. PICK m \in Nat : m = (100 * k) \div MarginThreshold
      BY <3>3
    <3>5. PICK e \in 0..1000 : e = Exp(m)
      <4>1. Exp(m) \in 0..1000
        BY ExpInRange
      <4> QED BY <4>1
    <3>6. weight[j] = Exp(m)
      BY <3>1, <3>2, <3>4
    <3>7. e \in Nat
      OBVIOUS
    <3> QED BY <3>5, <3>6, <3>7, Zenon
  <2>6. weight[b] = 1000
    <3>1. 100 * (best - scores[b]) = 0
      BY <2>3, <2>4
    <3>2. 0 \div MarginThreshold = 0
      BY <2>4
    <3>3. weight[b] = Exp(0)
      BY <3>1, <3>2
    <3>4. 0 \in Nat
      OBVIOUS
    <3> QED BY <3>3, <3>4, ExpInRange
  <2>7. weight \in [1..n -> Nat] /\ IsFiniteSet(1..n)
    <3>1. weight = [j \in 1..n |-> weight[j]]
      OBVIOUS
    <3> HIDE DEF weight
    <3>2. IsFiniteSet(1..n)
      BY FS_Interval
    <3> QED BY <2>5, <3>1, <3>2
  <2> HIDE DEF weight
  <2>8. weight[i] <= total /\ weight[b] <= total /\ total \in Nat
    BY <2>7, PartOfSum, SumOfNats
  <2>9. PICK w \in Nat : w = weight[i]
    BY <2>5
  <2> HIDE DEF total
  <2>10. PICK t \in Nat \ {0} : t = total
    BY <2>6, <2>8
  <2>11. w <= t
    BY <2>8, <2>9, <2>10
  <2>12. (1000 * w + t \div 2) \div t \in 0..1000
    <3>1. PICK x \in Nat : x = 1000 * w + t \div 2
      OBVIOUS
    <3>2. x < 1001 * t
      <4>1. t \div 2 < t
        OBVIOUS
      <4> QED BY <2>11, <3>1, <4>1
    <3>3. x \div t \in 0..1000
      BY <3>2, ShareInRange
    <3> QED BY <3>1, <3>3
  <2> QED BY <2>9, <2>10, <2>12
<1> HIDE DEF share
<1>3. Posteriors(scores) = [i \in 1..n |-> share(i)]
  BY <1>1
<1>4. \A i \in 1..n : Posteriors(scores)[i] = share(i)
  BY <1>3
<1> QED BY <1>2, <1>3, <1>4 DEF Shares

-----------------------------------------------------------------------------
(* The ranking *)

\* sort: where it is decided for every two candidates which comes first, each place
\* has its candidate, and the candidates come in that order.
LEMMA RankedInOrder ==
  ASSUME NEW C, IsFiniteSet(C),
         \A g \in C : ~Before(g, g),
         \A f, g, h \in C : Before(f, g) /\ Before(g, h) => Before(f, h),
         \A g, h \in C : g = h \/ Before(g, h) \/ Before(h, g)
  PROVE  /\ Ranked(C) \in [1..Cardinality(C) -> C]
         /\ \A i, j \in 1..Cardinality(C) : i < j => Before(Ranked(C)[i], Ranked(C)[j])
<1> DEFINE ahead(h) == {g \in C : Before(g, h)}
           place == [h \in C |-> Cardinality(ahead(h)) + 1]
<1>1. PICK n \in Nat : n = Cardinality(C)
  BY FS_CardinalityType
<1>2. \A h \in C : IsFiniteSet(ahead(h)) /\ Cardinality(ahead(h)) \in Nat
  <2> SUFFICES ASSUME NEW h \in C PROVE IsFiniteSet(ahead(h)) /\ Cardinality(ahead(h)) \in Nat
    OBVIOUS
  <2>1. ahead(h) \in SUBSET C
    OBVIOUS
  <2> HIDE DEF ahead
  <2> QED BY <2>1, FS_Subset, FS_CardinalityType
<1>3. ASSUME NEW g \in C, NEW h \in C, Before(g, h)
      PROVE  place[g] < place[h]
  <2>1. g \notin ahead(g) /\ ahead(g) \cup {g} \in SUBSET ahead(h)
    BY <1>3
  <2>2. place[g] = Cardinality(ahead(g)) + 1 /\ place[h] = Cardinality(ahead(h)) + 1
    OBVIOUS
  <2> HIDE DEF ahead
  <2>3. Cardinality(ahead(g) \cup {g}) = Cardinality(ahead(g)) + 1
    BY <1>2, <2>1, FS_AddElement
  <2>4. Cardinality(ahead(g) \cup {g}) <= Cardinality(ahead(h))
    BY <1>2, <2>1, FS_Subset
  <2>5. Cardinality(ahead(g)) \in Nat /\ Cardinality(ahead(h)) \in Nat
    BY <1>2
  <2> HIDE DEF place
  <2> QED BY <2>2, <2>3, <2>4, <2>5
<1>4. ASSUME NEW h \in C
      PROVE  place[h] \in 1..n
  <2>1. ahead(h) \in SUBSET (C \ {h})
    BY <1>4
  <2>2. place[h] = Cardinality(ahead(h)) + 1
    OBVIOUS
  <2> HIDE DEF ahead, place
  <2>3. IsFiniteSet(C \ {h}) /\ Cardinality(C \ {h}) = n - 1
    BY <1>1, FS_RemoveElement
  <2>4. Cardinality(ahead(h)) <= n - 1
    BY <2>1, <2>3, FS_Subset
  <2>5. Cardinality(ahead(h)) \in Nat
    BY <1>2
  <2> QED BY <2>2, <2>4, <2>5
<1>5. place \in Injection(C, 1..n)
  <2>1. place \in [C -> 1..n]
    <3>1. place = [h \in C |-> place[h]]
      OBVIOUS
    <3> HIDE DEF place
    <3> QED BY <1>4, <3>1
  <2>2. ASSUME NEW g \in C, NEW h \in C, place[g] = place[h]
        PROVE  g = h
    <3> HIDE DEF place
    <3>1. place[g] \in Int /\ place[h] \in Int
      BY <1>4
    <3>2. ~Before(g, h) /\ ~Before(h, g)
      BY <1>3, <2>2, <3>1
    <3> QED BY <3>2
  <2> HIDE DEF place
  <2>3. IsInjective(place)
    BY <2>1, <2>2 DEF IsInjective
  <2> QED BY <2>1, <2>3 DEF Injection
<1>6. place \in Surjection(C, 1..n)
  <2> HIDE DEF place
  <2>1. IsFiniteSet(1..n) /\ Cardinality(1..n) = n
    BY FS_Interval
  <2> QED BY <1>1, <1>5, <2>1, FS_Injection
<1>7. ASSUME NEW i \in 1..n
      PROVE  Ranked(C)[i] \in C /\ place[Ranked(C)[i]] = i
  <2>1. PICK h \in C : place[h] = i
    <3> HIDE DEF place
    <3> QED BY <1>6 DEF Surjection
  <2>2. Cardinality(ahead(h)) = i - 1
    BY <1>2, <2>1
  <2>3. Ranked(C)[i] = CHOOSE g \in C : Cardinality(ahead(g)) = i - 1
    BY <1>1 DEF Ranked
  <2> HIDE DEF ahead
  <2>4. Ranked(C)[i] \in C /\ Cardinality(ahead(Ranked(C)[i])) = i - 1
    BY <2>2, <2>3
  <2>5. place[Ranked(C)[i]] = (i - 1) + 1
    BY <2>4
  <2> QED BY <2>4, <2>5
<1> HIDE DEF place
<1>8. ASSUME NEW i \in 1..n, NEW j \in 1..n, i < j
      PROVE  Before(Ranked(C)[i], Ranked(C)[j])
  <2>1. PICK g \in C : g = Ranked(C)[i] /\ place[g] = i
    BY <1>7
  <2>2. PICK h \in C : h = Ranked(C)[j] /\ place[h] = j
    BY <1>7
  <2>3. g # h /\ ~Before(h, g)
    BY <1>3, <1>8, <2>1, <2>2
  <2>4. Before(g, h)
    BY <2>3
  <2> QED BY <2>1, <2>2, <2>4
<1>9. Ranked(C) \in [1..n -> C]
  <2> DEFINE r == [i \in 1..Cardinality(C) |-> CHOOSE h \in C : Cardinality(ahead(h)) = i - 1]
  <2>2. Ranked(C) = r
    BY DEF Ranked
  <2> HIDE DEF ahead
  <2>3. r = [i \in 1..Cardinality(C) |-> r[i]]
    OBVIOUS
  <2> HIDE DEF r
  <2>1. Ranked(C) = [i \in 1..n |-> Ranked(C)[i]]
    BY <1>1, <2>2, <2>3
  <2> QED BY <1>7, <2>1
<1> QED BY <1>1, <1>8, <1>9

\* What score leaves: candidates, each once, none before one that scores more.
Ranking(h) ==
  /\ h \in Seq(Hypothesis) /\ IsInjective([i \in DOMAIN h |-> h[i].service])
  /\ \A i \in DOMAIN h : i > 1 => h[i - 1].score >= h[i].score

Candidate == [service : Services, score : Scores]

LEMMA HypothesisFields ==
  /\ Scores \subseteq Int
  /\ \A x : x \in Shares <=> x \in Nat /\ x <= 1000
  /\ \A h \in Hypothesis : h.service \in Services /\ h.score \in Scores /\ h.posterior \in Shares
  /\ \A s \in Services, x \in Scores, y \in Shares :
       [service |-> s, score |-> x, posterior |-> y] \in Hypothesis
<1>1. Scores \subseteq Int /\ \A x : x \in Shares <=> x \in Nat /\ x <= 1000
  BY DEF Scores, Shares
<1>2. Hypothesis = [service : Services, score : Scores, posterior : Shares]
  BY DEF Hypothesis, Scores, Shares
<1> QED BY <1>1, <1>2

\* By score and then by name it is decided for any two which comes first.
LEMMA BeforeIsTotal ==
  ASSUME NEW C \in SUBSET Candidate, \A g, h \in C : g.service = h.service => g = h
  PROVE  /\ \A g \in C : ~Before(g, g)
         /\ \A f, g, h \in C : Before(f, g) /\ Before(g, h) => Before(f, h)
         /\ \A g, h \in C : g = h \/ Before(g, h) \/ Before(h, g)
<1>1. \A g \in C : g.score \in Int /\ g.service \in Services
  BY HypothesisFields DEF Candidate
<1>2. \A g \in C : Rank(g.service) \in Nat
  BY <1>1, RankOfName
<1>3. ASSUME NEW g \in C, NEW h \in C, Rank(g.service) = Rank(h.service)
      PROVE  g = h
  <2>1. Names[Rank(g.service)] = g.service /\ Names[Rank(h.service)] = h.service
    BY <1>1, RankOfName
  <2> QED BY <1>3, <2>1
<1>4. \A g \in C : ~Before(g, g)
  BY <1>1, <1>2 DEF Before
<1>5. ASSUME NEW f \in C, NEW g \in C, NEW h \in C, Before(f, g), Before(g, h)
      PROVE  Before(f, h)
  <2>1. /\ f.score \in Int /\ g.score \in Int /\ h.score \in Int
        /\ Rank(f.service) \in Nat /\ Rank(g.service) \in Nat /\ Rank(h.service) \in Nat
    BY <1>1, <1>2
  <2> QED BY <1>5, <2>1 DEF Before
<1>6. ASSUME NEW g \in C, NEW h \in C, g # h, ~Before(g, h)
      PROVE  Before(h, g)
  <2>1. /\ g.score \in Int /\ h.score \in Int
        /\ Rank(g.service) \in Nat /\ Rank(h.service) \in Nat
    BY <1>1, <1>2
  <2>2. Rank(g.service) # Rank(h.service)
    BY <1>3, <1>6
  <2> QED BY <1>6, <2>1, <2>2 DEF Before
<1> QED BY <1>4, <1>5, <1>6

LEMMA HypothesesRanked ==
  ASSUME NEW incident \in Incidents
  PROVE  Ranking(Hypotheses(incident))
<1> DEFINE D == DOMAIN incident.onsets
           entry(s) == [service |-> s, score |-> Score(incident, s)]
           C == {entry(s) : s \in D}
           r == Ranked(C)
           belief == Posteriors([i \in DOMAIN r |-> r[i].score])
           shown(i) == [service |-> r[i].service, score |-> r[i].score, posterior |-> belief[i]]
<1>1. Hypotheses(incident) = [i \in DOMAIN r |-> shown(i)]
  BY DEF Hypotheses
<1>2. D \in SUBSET Services
  BY DEF Incidents
<1>3. ASSUME NEW s \in D
      PROVE  entry(s) \in Candidate /\ entry(s).service = s
  <2>1. PICK x \in Scores : x = Score(incident, s)
    BY ScoreInRange DEF Scores
  <2>2. s \in Services
    BY <1>2
  <2>3. [service |-> s, score |-> x] \in Candidate
    BY <2>2 DEF Candidate
  <2> QED BY <2>1, <2>3
<1>4. IsFiniteSet(C)
  <2> DEFINE f == [s \in D |-> entry(s)]
  <2>1. f \in Surjection(D, C)
    <3> HIDE DEF D, entry
    <3> QED BY DEF Surjection
  <2>2. IsFiniteSet(D)
    BY <1>2, RankOfName, FS_Subset
  <2> HIDE DEF f, C, D
  <2> QED BY <2>1, <2>2, FS_Surjection
<1> HIDE DEF entry
<1>5. \A h \in C : \E s \in D : h = entry(s)
  OBVIOUS
<1> HIDE DEF C, D
<1>6. C \in SUBSET Candidate /\ \A g, h \in C : g.service = h.service => g = h
  BY <1>3, <1>5
<1>7. PICK n \in Nat : n = Cardinality(C)
  BY <1>4, FS_CardinalityType
<1>8. /\ \A g \in C : ~Before(g, g)
      /\ \A f, g, h \in C : Before(f, g) /\ Before(g, h) => Before(f, h)
      /\ \A g, h \in C : g = h \/ Before(g, h) \/ Before(h, g)
  BY <1>6, BeforeIsTotal
<1>9. r \in [1..n -> C] /\ \A i, j \in 1..n : i < j => Before(r[i], r[j])
  BY <1>4, <1>7, <1>8, RankedInOrder
<1> HIDE DEF r
<1>10. \A i \in 1..n : r[i] \in C /\ r[i] \in Candidate
  BY <1>6, <1>9
<1>20. \A g \in Candidate : /\ g.service \in Services /\ g.score \in Scores
                           /\ g.score \in Int
  BY HypothesisFields DEF Candidate
<1>21. \A i \in 1..n : /\ r[i].service \in Services /\ r[i].score \in Scores
                      /\ r[i].score \in Int
  BY <1>10, <1>20, Zenon
<1>11. \A i \in 1..n : belief[i] \in Shares
  <2>1. PICK scores : scores = [i \in DOMAIN r |-> r[i].score]
    OBVIOUS
  <2>2. \A i \in 1..n : r[i].score \in Int
    BY <1>21
  <2>3. scores \in [1..n -> Int]
    BY <1>9, <2>1, <2>2
  <2>4. \A i \in 1..n : Posteriors(scores)[i] \in Shares
    <3>1. n \in Nat
      OBVIOUS
    <3> QED BY <2>3, <3>1, PosteriorsInRange, Zenon
  <2> QED BY <2>1, <2>4
<1> HIDE DEF belief
<1>12. PICK h : h = Hypotheses(incident)
  OBVIOUS
<1>13. h = [i \in 1..n |-> shown(i)]
  BY <1>1, <1>9, <1>12
<1>14. ASSUME NEW i \in 1..n
       PROVE  h[i] \in Hypothesis /\ h[i].service = r[i].service /\ h[i].score = r[i].score
  <2>1. PICK b \in Shares : b = belief[i]
    BY <1>11
  <2>2. r[i].service \in Services /\ r[i].score \in Scores
    BY <1>21
  <2>3. [service |-> r[i].service, score |-> r[i].score, posterior |-> b] \in Hypothesis
    BY <2>1, <2>2, HypothesisFields
  <2>4. h[i] = [service |-> r[i].service, score |-> r[i].score, posterior |-> b]
    BY <1>13, <2>1
  <2> QED BY <2>3, <2>4
<1>15. h \in Seq(Hypothesis) /\ DOMAIN h = 1..n
  <2>1. h = [i \in 1..n |-> h[i]]
    BY <1>13
  <2>2. h \in [1..n -> Hypothesis]
    BY <1>14, <2>1
  <2> QED BY <2>2
<1>16. ASSUME NEW i \in 1..n, NEW j \in 1..n, i < j
       PROVE  h[i].service # h[j].service
  <2>1. Before(r[i], r[j]) /\ r[i] \in C /\ r[j] \in C
    BY <1>9, <1>10, <1>16
  <2>2. r[i].service # r[j].service
    BY <1>6, <1>8, <2>1
  <2> QED BY <1>14, <2>2
<1>17. IsInjective([i \in DOMAIN h |-> h[i].service])
  <2> SUFFICES ASSUME NEW i \in 1..n, NEW j \in 1..n, h[i].service = h[j].service
               PROVE  i = j
    BY <1>15 DEF IsInjective
  <2>1. ~(i < j) /\ ~(j < i)
    BY <1>16
  <2> QED BY <2>1
<1>18. ASSUME NEW i \in 1..n, i > 1
       PROVE  h[i - 1].score >= h[i].score
  <2>1. i - 1 \in 1..n /\ i - 1 < i
    BY <1>18
  <2>2. Before(r[i - 1], r[i])
    BY <1>9, <2>1
  <2>3. r[i - 1].score \in Int /\ r[i].score \in Int
    BY <1>21, <2>1
  <2>4. r[i - 1].score >= r[i].score
    BY <2>2, <2>3 DEF Before
  <2> QED BY <1>14, <2>1, <2>4
<1>19. Ranking(h)
  BY <1>15, <1>17, <1>18 DEF Ranking
<1> QED BY <1>12, <1>19

-----------------------------------------------------------------------------
(* The plan and what is on display *)

PlanOK(p) ==
  p.service \in Services /\ p.confidence \in Shares /\ \A o \in p.options : o.recovers # {}

\* What is offered against a cause recovers it, but for isolation, which degrades it:
\* one that would recover nothing is dropped.
LEMMA OptionsRecover ==
  ASSUME NEW edges, NEW s, NEW degraded, NEW o \in Options(edges, s, degraded)
  PROVE  o.recovers # {}
<1> DEFINE peers == DegradedCallers(edges, s, degraded) \cup ContentionPeers(edges, s, degraded)
           b == Rollback(edges, s, degraded)
           e == Restart(edges, s, degraded)
           i == Isolate(edges, s, degraded)
<1>1. /\ o \in {e} \cup {b} \cup {i}
      /\ o.recovers # {} \/ o.degrades = {}
  BY DEF Options, Offered
<1>2. s \in b.recovers
  BY DEF Rollback
<1>3. e.recovers = b.recovers
  BY DEF Restart
<1>4. s \in i.degrades
  BY DEF Isolate
<1> HIDE DEF b, e, i
<1> QED BY <1>1, <1>2, <1>3, <1>4

LEMMA PlanTyped ==
  ASSUME NEW incident, NEW shown \in Seq(Hypothesis), NEW result, NEW slack,
         NEW seen \in Shares, NEW p, p = Plan(incident, shown, result, slack, seen), p # NoPlan
  PROVE  PlanOK(p)
<1> DEFINE i == Supported(shown, result, slack)
           s == shown[i].service
           confidence == (shown[i].posterior * seen + 500) \div 1000
           options == Options(incident.edges, s, incident.services)
           recommended == Recommended(options, confidence)
           measured == result.matched # 0
<1>1. /\ i # 0
      /\ p = [service |-> s, options |-> options, confidence |-> confidence,
              recommended |-> recommended, measured |-> measured, issued |-> FALSE]
  BY DEF Plan
<1>2. i \in DOMAIN shown
  <2>1. \/ result.matched # 0 /\ result.matched \in DOMAIN shown /\ i = result.matched
        \/ result.matched = 0 /\ i = 1
    BY <1>1 DEF Supported, ObservationNames
  <2>3. shown # <<>>
    BY <1>1, SMT DEF Supported
  <2>2. shown # <<>> => 1 \in DOMAIN shown
    OBVIOUS
  <2> HIDE DEF i
  <2> QED BY <2>1, <2>2, <2>3
<1> HIDE DEF i
<1>3. PICK h \in Hypothesis : h = shown[i]
  BY <1>2
<1>4. h.service \in Services /\ h.posterior \in Shares
  BY HypothesisFields
<1>5. confidence \in Shares
  <2>1. PICK b \in Nat : b = h.posterior /\ b <= 1000
    BY <1>4, HypothesisFields
  <2>2. PICK c \in Nat : c = seen /\ c <= 1000
    BY HypothesisFields
  <2>3. PICK x \in Nat : x = b * c
    OBVIOUS
  <2>4. x <= 1000000
    <3>1. PICK k \in Nat : k = 1000
      OBVIOUS
    <3>2. b <= k /\ c <= k
      BY <2>1, <2>2, <3>1
    <3>3. b * c <= k * k
      BY <3>2, ProductBound
    <3> QED BY <2>3, <3>1, <3>3, SMT
  <2>5. (x + 500) \div 1000 \in Shares
    <3>1. (x + 500) \div 1000 \in 0..1000
      BY <2>4
    <3> QED BY <3>1 DEF Shares
  <2> QED BY <1>3, <2>1, <2>2, <2>3, <2>5
<1>6. \A o \in options : o.recovers # {}
  BY OptionsRecover
<1> HIDE DEF s, confidence, options, recommended, measured
<1>7. p.service = s /\ p.options = options /\ p.confidence = confidence
  BY <1>1
<1>8. s \in Services
  BY <1>3, <1>4 DEF s
<1> QED BY <1>5, <1>6, <1>7, <1>8 DEF PlanOK

LEMMA PlanOKIssued ==
  ASSUME NEW p, APlan(p), PlanOK(p), NEW b
  PROVE  PlanOK([p EXCEPT !.issued = b])
<1>1. PICK s, options, confidence, recommended, measured, issued :
        p = [service |-> s, options |-> options, confidence |-> confidence,
             recommended |-> recommended, measured |-> measured, issued |-> issued]
  BY DEF APlan
<1>2. PICK q : q = [service |-> s, options |-> options, confidence |-> confidence,
                    recommended |-> recommended, measured |-> measured, issued |-> b]
  OBVIOUS
<1>3. [p EXCEPT !.issued = b] = q
  BY <1>1, <1>2
<1>4. q.service = p.service /\ q.confidence = p.confidence /\ q.options = p.options
  BY <1>1, <1>2
<1> QED BY <1>3, <1>4 DEF PlanOK

\* replan: what it leaves behind is a plan or none.
LEMMA ReplanTyped ==
  ASSUME NEW incident, incident # None, NEW shown \in Seq(Hypothesis), NEW result,
         ring \in Seq(Windows), ring # <<>>,
         plan # NoPlan => PlanOK(plan),
         Replan(incident, shown, result), plan' # NoPlan
  PROVE  PlanOK(plan')
<1>1. PICK slack \in BOOLEAN :
        plan' = ReplanAs(Plan(incident, shown, result, slack, Last(ring).seen))
  BY DEF Replan
<1>2. PICK seen \in Shares : seen = Last(ring).seen
  <2>1. ring[Len(ring)] \in Windows
    OBVIOUS
  <2>2. \A w \in Windows : w.seen \in Shares
    BY DEF Windows, Shares
  <2>3. ring[Len(ring)].seen \in Shares
    BY <2>1, <2>2
  <2> QED BY <2>3 DEF Last
<1>3. PICK p : p = Plan(incident, shown, result, slack, seen)
  OBVIOUS
<1>4. CASE plan # NoPlan /\ plan.issued
  <2>1. plan' = plan
    BY <1>1, <1>4 DEF ReplanAs
  <2> QED BY <1>4, <2>1
<1>5. CASE ~(plan # NoPlan /\ plan.issued)
  <2>1. p # NoPlan
    BY <1>1, <1>2, <1>3, <1>5 DEF ReplanAs
  <2> DEFINE alone == /\ p.recommended # "none"
                      /\ Autonomy(p.recommended, p.confidence) = "AUTONOMOUS"
  <2>2. plan' = [p EXCEPT !.issued = alone]
    BY <1>1, <1>2, <1>3, <1>5, <2>1 DEF ReplanAs
  <2>3. APlan(p) /\ PlanOK(p)
    BY <1>3, <2>1, PlanRests, PlanTyped
  <2> HIDE DEF alone
  <2> QED BY <2>2, <2>3, PlanOKIssued
<1> QED BY <1>4, <1>5

\* posteriorsFor and unchangedPosteriors touch no rank.
LEMMA CorrectedTyped ==
  ASSUME NEW h \in Hypothesis, NEW i, NEW r \in Seq(Hypothesis), NEW m
  PROVE  /\ Corrected(h, i, r, m) \in Hypothesis
         /\ Corrected(h, i, r, m).service = h.service /\ Corrected(h, i, r, m).score = h.score
<1>1. ASSUME NEW b \in Shares, NEW g, g = [h EXCEPT !.posterior = b]
      PROVE  g \in Hypothesis /\ g.service = h.service /\ g.score = h.score
  <2>1. Hypothesis = [service : Services, score : Scores, posterior : Shares]
    BY DEF Hypothesis, Scores, Shares
  <2> QED BY <1>1, <2>1
<1>2. CASE i \notin DOMAIN r
  BY <1>2 DEF Corrected
<1>3. CASE i \in DOMAIN r /\ m = 0
  <2>1. r[i] \in Hypothesis
    BY <1>3
  <2>2. PICK b \in Shares : b = r[i].posterior
    BY <2>1, HypothesisFields
  <2>3. PICK g : g = Corrected(h, i, r, m)
    OBVIOUS
  <2>4. g = [h EXCEPT !.posterior = b]
    BY <1>3, <2>2, <2>3 DEF Corrected
  <2> QED BY <1>1, <2>3, <2>4
<1>4. CASE i \in DOMAIN r /\ m # 0
  <2>1. PICK b \in Shares : b = IF i = m THEN 930 ELSE 70
    <3>1. 930 \in Shares /\ 70 \in Shares
      BY DEF Shares
    <3>2. CASE i = m
      BY <3>1, <3>2
    <3>3. CASE i # m
      BY <3>1, <3>3
    <3> QED BY <3>2, <3>3
  <2>2. PICK g : g = Corrected(h, i, r, m)
    OBVIOUS
  <2>3. g = [h EXCEPT !.posterior = b]
    BY <1>4, <2>1, <2>2 DEF Corrected
  <2> QED BY <1>1, <2>2, <2>3
<1> QED BY <1>2, <1>3, <1>4

\* What is on display is a ranking, the run in flight decides between two, and a plan
\* is one; an incident was found in windows the ring still holds.
DisplayInv ==
  /\ Ranking(hypotheses)
  /\ probe.result \in Result /\ probe.ranking \in Seq(Hypothesis)
  /\ running \in Seq(Hypothesis) /\ Len(running) # 1
  /\ plan # NoPlan => PlanOK(plan)
  /\ detector.incident # None => ring # <<>>

LEMMA NothingRanked == Ranking(<<>>) /\ NoResult \in Result
<1>1. <<>> \in Seq(Hypothesis) /\ DOMAIN <<>> = {}
  OBVIOUS
<1>2. NoResult \in Result
  BY DEF NoResult, Result
<1> QED BY <1>1, <1>2 DEF Ranking, IsInjective

\* A probe is between two hypotheses: with fewer the ranking is separated.
LEMMA ProbedAreTwo ==
  ASSUME NEW edges, NEW ranked \in Seq(Hypothesis), MayProbe(edges, ranked)
  PROVE  Len(ranked) # 1
<1>1. ~(Margin(ranked) >= MarginThreshold)
  BY DEF MayProbe, Separated
<1>2. MarginThreshold \in Nat
  BY ScoringAssumption
<1>3. Len(ranked) < 2 => Margin(ranked) = 1000 + MarginThreshold
  BY DEF Margin
<1>4. 1000 + MarginThreshold >= MarginThreshold
  BY <1>2
<1>5. Len(ranked) = 1 => Len(ranked) < 2
  OBVIOUS
<1>6. ASSUME Len(ranked) = 1
      PROVE  Margin(ranked) >= MarginThreshold
  <2>1. Margin(ranked) = 1000 + MarginThreshold
    BY <1>3, <1>5, <1>6
  <2> QED BY <1>4, <2>1
<1> QED BY <1>1, <1>6

LEMMA DisplayTick ==
  ASSUME DetectionInv, DetectionInv', PlanInv, DisplayInv, Tick
  PROVE  DisplayInv'
<1>1. ring' = ring /\ ring # <<>>
  <2>1. Since(detector.cursor) # {} /\ ring' = ring
    BY DEF Tick, streamVars
  <2>2. 1..Len(ring) # {}
    BY <2>1 DEF Since
  <2> QED BY <2>1, <2>2
<1>2. CASE detector'.incident = None
  <2>1. UNCHANGED <<hypotheses, probe, running, plan>>
    BY <1>2 DEF Tick
  <2> QED BY <1>1, <1>2, <2>1 DEF DisplayInv, Ranking
<1>3. CASE detector'.incident # None
  <2>1. PICK incident : incident = detector'.incident
    OBVIOUS
  <2>2. /\ hypotheses' = Hypotheses(incident)
        /\ \/ StartProbe(incident.edges, hypotheses')
           \/ UNCHANGED <<probe, running, probes>>
        /\ Replan(incident, hypotheses', probe'.result)
    BY <1>3, <2>1 DEF Tick
  <2>3. incident \in Incidents /\ incident # None
    BY <1>3, <2>1 DEF DetectionInv, DetectorOK, Noticed
  <2>4. PICK shown : shown = hypotheses'
    OBVIOUS
  <2>5. Ranking(shown) /\ shown \in Seq(Hypothesis)
    <3>1. Ranking(shown)
      BY <2>2, <2>3, <2>4, HypothesesRanked
    <3> QED BY <3>1 DEF Ranking
  <2>6. /\ probe'.result \in Result /\ probe'.ranking \in Seq(Hypothesis)
        /\ running' \in Seq(Hypothesis) /\ Len(running') # 1
    <3>1. CASE StartProbe(incident.edges, shown)
      <4>1. /\ MayProbe(incident.edges, shown) /\ running' = shown
            /\ probe' = [ranking |-> shown, phase |-> "published", result |-> NoResult]
        BY <3>1 DEF StartProbe
      <4>2. probe'.result = NoResult /\ probe'.ranking = shown
        BY <4>1
      <4>3. Len(shown) # 1
        BY <2>5, <4>1, ProbedAreTwo
      <4> QED BY <2>5, <4>1, <4>2, <4>3, NothingRanked
    <3>2. CASE UNCHANGED <<probe, running, probes>>
      BY <3>2 DEF DisplayInv
    <3> QED BY <2>2, <2>4, <3>1, <3>2
  <2>7. plan' # NoPlan => PlanOK(plan')
    <3>1. ring \in Seq(Windows) /\ (plan # NoPlan => PlanOK(plan))
      BY DEF DetectionInv, RingOK, DisplayInv
    <3>2. PICK result : result = probe'.result
      OBVIOUS
    <3>3. Replan(incident, shown, result)
      BY <2>2, <2>4, <3>2
    <3> QED BY <1>1, <2>3, <2>5, <3>1, <3>3, ReplanTyped
  <2>8. Ranking(hypotheses')
    BY <2>4, <2>5
  <2> QED BY <1>1, <2>6, <2>7, <2>8 DEF DisplayInv, Ranking
<1> QED BY <1>2, <1>3

LEMMA DisplayConcludes ==
  ASSUME DetectionInv, PlanInv, DisplayInv, ProbeConcludes
  PROVE  DisplayInv'
<1>0. PICK matched \in 0..2 :
        LET result    == [matched |-> matched, inconclusive |-> matched = 0]
            corrected == [i \in DOMAIN hypotheses |->
                            Corrected(hypotheses[i], i, running, matched)]
        IN /\ hypotheses' = corrected
           /\ probe' = [ranking |-> running, result |-> result,
                        phase |-> IF matched = 0 THEN "inconclusive" ELSE "measured"]
           /\ Replan(detector.incident, corrected, result)
  BY DEF ProbeConcludes
<1>1. PICK result, corrected :
        /\ result = [matched |-> matched, inconclusive |-> matched = 0]
        /\ corrected = [i \in DOMAIN hypotheses |-> Corrected(hypotheses[i], i, running, matched)]
        /\ hypotheses' = corrected
        /\ probe' = [ranking |-> running, result |-> result,
                     phase |-> IF matched = 0 THEN "inconclusive" ELSE "measured"]
        /\ Replan(detector.incident, corrected, result)
  BY <1>0
<1>2. running' = <<>> /\ ring' = ring /\ detector' = detector
  BY DEF ProbeConcludes, Idle, streamVars
<1>3. Ranking(hypotheses) /\ hypotheses \in Seq(Hypothesis) /\ running \in Seq(Hypothesis)
  BY DEF DisplayInv, Ranking
<1>4. PICK n \in Nat : n = Len(hypotheses) /\ DOMAIN hypotheses = 1..n
  BY <1>3
<1>5. \A i \in 1..n : hypotheses[i] \in Hypothesis
  BY <1>3, <1>4
<1>6. corrected = [i \in 1..n |-> Corrected(hypotheses[i], i, running, matched)]
  BY <1>1, <1>4
<1>7. \A i \in 1..n : /\ corrected[i] \in Hypothesis
                      /\ corrected[i].service = hypotheses[i].service
                      /\ corrected[i].score = hypotheses[i].score
  BY <1>3, <1>5, <1>6, CorrectedTyped
<1>8. corrected \in Seq(Hypothesis) /\ DOMAIN corrected = 1..n
  <2>1. corrected = [i \in 1..n |-> corrected[i]]
    BY <1>6
  <2>2. corrected \in [1..n -> Hypothesis]
    BY <1>7, <2>1
  <2> QED BY <2>2
<1>9. Ranking(corrected)
  <2>1. \A i, j \in 1..n : hypotheses[i].service = hypotheses[j].service => i = j
    BY <1>3, <1>4 DEF Ranking, IsInjective
  <2>2. IsInjective([i \in DOMAIN corrected |-> corrected[i].service])
    BY <1>7, <1>8, <2>1 DEF IsInjective
  <2>3. ASSUME NEW i \in 1..n, i > 1
        PROVE  corrected[i - 1].score >= corrected[i].score
    <3>1. i - 1 \in 1..n
      BY <2>3
    <3>2. hypotheses[i - 1].score >= hypotheses[i].score
      BY <1>3, <1>4, <2>3 DEF Ranking
    <3> QED BY <1>7, <3>1, <3>2
  <2> QED BY <1>8, <2>2, <2>3 DEF Ranking
<1>10. probe'.result \in Result /\ probe'.ranking \in Seq(Hypothesis)
  <2>1. result \in Result
    BY <1>1 DEF Result
  <2>2. probe'.result = result /\ probe'.ranking = running
    BY <1>1
  <2> QED BY <1>3, <2>1, <2>2
<1>11. plan' # NoPlan => PlanOK(plan')
  <2>1. CASE detector.incident = None
    BY <1>1, <2>1 DEF Replan, PlanInv
  <2>2. CASE detector.incident # None
    <3>1. /\ ring \in Seq(Windows) /\ ring # <<>>
          /\ plan # NoPlan => PlanOK(plan)
      BY <2>2 DEF DetectionInv, RingOK, DisplayInv
    <3>2. PICK incident : incident = detector.incident
      OBVIOUS
    <3>3. Replan(incident, corrected, result) /\ incident # None
      BY <1>1, <2>2, <3>2
    <3> QED BY <1>8, <3>1, <3>3, ReplanTyped
  <2> QED BY <2>1, <2>2
<1>12. <<>> \in Seq(Hypothesis) /\ Len(<<>>) # 1
  OBVIOUS
<1>13. Ranking(hypotheses')
  BY <1>1, <1>9
<1>14. detector'.incident # None => ring' # <<>>
  BY <1>2 DEF DisplayInv
<1> QED BY <1>2, <1>10, <1>11, <1>12, <1>13, <1>14 DEF DisplayInv, Ranking

LEMMA DisplayNext ==
  DetectionInv /\ DetectionInv' /\ PlanInv /\ DisplayInv /\ [Next]_vars => DisplayInv'
<1> SUFFICES ASSUME DetectionInv, DetectionInv', PlanInv, DisplayInv, [Next]_vars
             PROVE  DisplayInv'
  OBVIOUS
<1>1. CASE Tick
  BY <1>1, DisplayTick
<1>2. CASE ProbeConcludes
  BY <1>2, DisplayConcludes
<1>3. CASE Approve
  <2>1. /\ plan # NoPlan /\ plan' = [plan EXCEPT !.issued = TRUE]
        /\ UNCHANGED <<ring, detector, hypotheses, probe, running>>
    BY <1>3 DEF Approve, streamVars
  <2>2. APlan(plan) /\ PlanOK(plan)
    BY <2>1 DEF PlanInv, DisplayInv
  <2>3. PlanOK(plan')
    BY <2>1, <2>2, PlanOKIssued
  <2> QED BY <2>1, <2>3 DEF DisplayInv, Ranking
<1>4. CASE Reset
  <2>1. /\ hypotheses' = <<>> /\ probe' = NoProbe /\ plan' = NoPlan /\ running' = running
        /\ detector' = NewDetector
    BY <1>4 DEF Reset
  <2>2. NoProbe.result = NoResult /\ NoProbe.ranking = <<>> /\ NewDetector.incident = None
    BY DEF NoProbe, NewDetector
  <2>3. <<>> \in Seq(Hypothesis)
    OBVIOUS
  <2>4. Ranking(hypotheses')
    BY <2>1, NothingRanked
  <2> QED BY <2>1, <2>2, <2>3, <2>4, NothingRanked DEF DisplayInv, Ranking
<1>5. ASSUME NEW p \in Patterns, Deliver(p)
      PROVE  DisplayInv'
  <2>1. PICK w : ring' = Append(ring, w)
    BY <1>5 DEF Deliver, Arrive
  <2>2. ring \in Seq(Windows)
    BY DEF DetectionInv, RingOK
  <2>3. ring' # <<>>
    BY <2>1, <2>2
  <2>4. UNCHANGED <<detector, hypotheses, probe, running, plan>>
    BY <1>5 DEF Deliver
  <2> QED BY <2>3, <2>4 DEF DisplayInv, Ranking
<1>6. CASE UNCHANGED vars
  BY <1>6 DEF vars, streamVars, DisplayInv, Ranking
<1> QED BY <1>1, <1>2, <1>3, <1>4, <1>5, <1>6 DEF Next

LEMMA DisplayInvariant == Spec => []DisplayInv
<1>1. Init => DisplayInv
  <2> SUFFICES ASSUME Init PROVE DisplayInv
    OBVIOUS
  <2>1. /\ hypotheses = <<>> /\ probe = NoProbe /\ plan = NoPlan /\ running = <<>>
        /\ detector = NewDetector
    BY DEF Init, DetectionInit, Idle
  <2>2. NoProbe.result = NoResult /\ NoProbe.ranking = <<>> /\ NewDetector.incident = None
    BY DEF NoProbe, NewDetector
  <2>3. <<>> \in Seq(Hypothesis) /\ Len(<<>>) # 1
    OBVIOUS
  <2> QED BY <2>1, <2>2, <2>3, NothingRanked DEF DisplayInv
<1> QED BY <1>1, DetectionInvariant, PlanInvariant, DisplayNext, PTL DEF Spec

\* Every variable stays in its domain: tracks, baselines and onsets do; hypotheses are
\* distinct services of the mesh, none before one that scores more, with scores and
\* posteriors in range; a probe is never run on fewer than two; and a plan names a
\* service, with a confidence, and offers only actions predicted to recover something.
THEOREM TypeCorrect == Spec => []TypeOK
<1>1. DetectionInv /\ DisplayInv => TypeOK
  <2> SUFFICES ASSUME DetectionInv, DisplayInv PROVE TypeOK
    OBVIOUS
  <2>1. DetectionTypeOK
    <3>1. /\ arrivals \in 0..MaxArrivals /\ Len(ring) <= arrivals /\ streamId \in 0..arrivals
          /\ onset \in [Services -> 0..MaxArrivals] /\ relaunches \in 0..MaxRelaunches
      BY DEF DetectionInv, RingOK
    <3>2. /\ detector.tracks \in [Services -> Tracks]
          /\ \A s \in Services : detector.tracks[s].flagged <=> detector.tracks[s].run >= Debounce
      BY DEF DetectionInv, DetectorOK, Tracking
    <3>3. PICK i : i = detector.incident
      OBVIOUS
    <3>4. /\ detector.cursor \in 0..MaxArrivals
          /\ i = None \/ (i \in Incidents /\ i.services \subseteq DOMAIN i.onsets)
      BY <3>3 DEF DetectionInv, DetectorOK, Noticed
    <3>5. i # None => /\ i.opened \in 1..MaxArrivals /\ i.edges \subseteq Edges
                      /\ DOMAIN i.onsets \subseteq Services /\ DOMAIN i.onsets # {}
                      /\ i.services \subseteq DOMAIN i.onsets
      <4> SUFFICES ASSUME i # None PROVE /\ i.opened \in 1..MaxArrivals /\ i.edges \subseteq Edges
                                         /\ DOMAIN i.onsets \subseteq Services /\ DOMAIN i.onsets # {}
        BY <3>4
      <4>1. i \in Incidents
        BY <3>4
      <4>2. PICK D \in (SUBSET Services) \ {{}} : i.onsets \in [D -> 0..MaxArrivals]
        BY <4>1 DEF Incidents
      <4>3. DOMAIN i.onsets = D
        BY <4>2
      <4>4. i.opened \in 1..MaxArrivals /\ i.edges \subseteq Edges
        BY <4>1 DEF Incidents
      <4> QED BY <4>2, <4>3, <4>4
    <3> QED BY <3>1, <3>2, <3>3, <3>4, <3>5 DEF DetectionTypeOK
  <2>2. plan # NoPlan => /\ plan.service \in Services /\ plan.confidence \in 0..1000
                         /\ \A o \in plan.options : o.recovers # {}
    BY DEF DisplayInv, PlanOK, Shares
  <2> QED BY <2>1, <2>2 DEF TypeOK, DisplayInv, Ranking
<1> QED BY <1>1, DetectionInvariant, DisplayInvariant, PTL

=============================================================================
