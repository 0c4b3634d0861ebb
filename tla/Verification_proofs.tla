-------------------------- MODULE Verification_proofs --------------------------
(***************************************************************************)
(* For every mesh, plan, ring and budget: the Verifier says RECOVERED only of  *)
(* what held over distinct consecutive windows, until the stream is relaunched;   *)
(* observes nothing from before the action, unless it was relaunched before it;   *)
(* and blames the action only on a full budget of windows without a hole          *)
(* between two of them.                                                         *)
(***************************************************************************)
EXTENDS Verification, Induction, SequenceTheorems, TLAPS

USE VerificationAssumption

-----------------------------------------------------------------------------
(* The inductive invariant *)

\* The ids follow one another.
Unbroken(windows) ==
  \A i \in 2..Len(windows) : windows[i].id = windows[i - 1].id + 1

\* What holds of a verification at every point of the observation loop: it is judged
\* before its budget is spent, no hole counted means none between two observed windows,
\* blame needs that and the whole budget, and RECOVERED is the classification of its last
\* SustainWindows windows.
Sound(v) ==
  /\ v \in Verification
  /\ v.sustained <= Len(v.observed)
  /\ v.verdict = "none" => Len(v.observed) < VerifyWindows
  /\ v.gaps = 0 => Unbroken(v.observed)
  /\ v.verdict \in {"FAILED", "PARTIAL"} => v.gaps = 0 /\ Len(v.observed) = VerifyWindows
  /\ v.verdict = "RECOVERED" =>
       /\ SustainWindows <= Len(v.observed)
       /\ Classify(v.before, Summarise(Tail_(v.observed, SustainWindows))) = "RECOVERED"

\* What it has observed is new since the action, if no relaunch came before that.
After(v) ==
  ~v.relaunched => \A i \in 1..Len(v.observed) : v.since < v.observed[i].n

\* What it has observed is in order of delivery.
InOrder(v) ==
  \A i, j \in 1..Len(v.observed) : i < j => v.observed[i].n < v.observed[j].n

\* The ring is in order of delivery, and of ids until a relaunch.
RingOK ==
  /\ ring \in Seq(Windows) /\ Len(ring) <= RingSize
  /\ arrivals \in Nat /\ streamId \in Nat /\ restarts \in Nat
  /\ \A i \in 1..Len(ring) : ring[i].n <= arrivals
  /\ restarts = 0 =>
       /\ \A i, j \in 1..Len(ring) : i < j => ring[i].id < ring[j].id /\ ring[i].n < ring[j].n
       /\ \A i \in 1..Len(ring) : ring[i].id <= streamId
       /\ ring # <<>> => ring[Len(ring)].id = streamId

\* A window past the anchor came after the action; one past the cursor, after all
\* that was observed.
ActiveOK ==
  /\ Sound(active) /\ active.verdict = "none" /\ (~active.running => active = Idle)
  /\ active.running => active.before \in [Services -> Ranks \cup {Unseen}]
  /\ active.since <= arrivals /\ verifyCursor \in Nat
  /\ After(active)
  /\ ~active.relaunched =>
       \A j \in 1..Len(ring) : ring[j].id > active.anchor => active.since < ring[j].n
  /\ restarts = 0 =>
       /\ InOrder(active) /\ verifyCursor <= streamId
       /\ verifyCursor = 0 => active.observed = <<>>
       /\ \A i \in 1..Len(active.observed) : active.observed[i].n <= arrivals
       /\ \A j \in 1..Len(ring), i \in 1..Len(active.observed) :
            ring[j].id > verifyCursor => active.observed[i].n < ring[j].n

VerdictOK == Sound(verdict) /\ After(verdict) /\ (restarts = 0 => InOrder(verdict))

RestOK ==
  /\ detCursor \in Nat /\ incident \in BOOLEAN /\ expired \in BOOLEAN /\ acted \in 0..Actions

Inv == RingOK /\ ActiveOK /\ VerdictOK /\ RestOK

-----------------------------------------------------------------------------
(* Operators *)

LEMMA WindowIsNumbered ==
  \A w \in Windows : w.id \in Nat /\ w.id # 0 /\ w.n \in Nat
BY DEF Windows

\* slice(-k): the last k windows, or all of them.
LEMMA TailIsSuffix ==
  ASSUME NEW S, NEW s \in Seq(S), NEW k \in Nat
  PROVE  /\ Tail_(s, k) \in Seq(S)
         /\ Len(Tail_(s, k)) = IF Len(s) > k THEN k ELSE Len(s)
         /\ \A i \in 1..Len(Tail_(s, k)) :
              Tail_(s, k)[i] = s[Len(s) - Len(Tail_(s, k)) + i]
<1>1. Len(s) \in Nat /\ \A i \in 1..Len(s) : s[i] \in S
  OBVIOUS
<1>2. PICK m \in 1..Len(s) + 1 :
        /\ m = IF Len(s) > k THEN Len(s) - k + 1 ELSE 1
        /\ Len(s) - m + 1 = IF Len(s) > k THEN k ELSE Len(s)
  <2>1. CASE Len(s) > k
    <3>1. /\ Len(s) - k + 1 \in 1..Len(s) + 1 /\ Len(s) - (Len(s) - k + 1) + 1 = k
      BY <1>1, <2>1
    <3> QED BY <2>1, <3>1
  <2>2. CASE ~(Len(s) > k)
    <3>1. 1 \in 1..Len(s) + 1 /\ Len(s) - 1 + 1 = Len(s)
      BY <1>1
    <3> QED BY <2>2, <3>1
  <2> QED BY <2>1, <2>2
<1>3. m \in Int /\ Len(s) \in Int /\ \A i \in m..Len(s) : s[i] \in S
  BY <1>1, <1>2
<1>4. Tail_(s, k) = SubSeq(s, m, Len(s))
  BY <1>2 DEF Tail_
<1>5. /\ Tail_(s, k) \in Seq(S)
      /\ Len(Tail_(s, k)) = IF m <= Len(s) THEN Len(s) - m + 1 ELSE 0
      /\ \A i \in 1..Len(s) - m + 1 : Tail_(s, k)[i] = s[m + i - 1]
  <2>1. /\ SubSeq(s, m, Len(s)) \in Seq(S)
        /\ Len(SubSeq(s, m, Len(s))) = IF m <= Len(s) THEN Len(s) - m + 1 ELSE 0
        /\ \A i \in 1..Len(s) - m + 1 : SubSeq(s, m, Len(s))[i] = s[m + i - 1]
    BY <1>3, SubSeqProperties
  <2> QED BY <2>1, <1>4
<1>6. Len(Tail_(s, k)) = Len(s) - m + 1
  BY <1>1, <1>2, <1>5
<1>7. ASSUME NEW i \in 1..Len(Tail_(s, k))
      PROVE  Tail_(s, k)[i] = s[Len(s) - Len(Tail_(s, k)) + i]
  <2>1. m + i - 1 = Len(s) - Len(Tail_(s, k)) + i
    BY <1>1, <1>2, <1>6
  <2>2. Tail_(s, k)[i] = s[m + i - 1]
    BY <1>5, <1>6
  <2> QED BY <2>1, <2>2
<1> QED BY <1>2, <1>5, <1>6, <1>7

LEMMA ClassifyIsVerdict ==
  ASSUME NEW before, NEW after
  PROVE  Classify(before, after) \in Verdicts
BY DEF Classify, Verdicts

LEMMA RecoveredMeansHealthy ==
  ASSUME NEW before, NEW after, Classify(before, after) = "RECOVERED", NEW s \in Recovers
  PROVE  after[s] = 0
<1> DEFINE measurable == {x \in Recovers : before[x] # Unseen /\ after[x] # Unseen}
           healthy    == {x \in measurable : after[x] = 0}
<1>1. healthy = Recovers
  BY DEF Classify
<1> QED BY <1>1

\* The worst of what windows saw of a service is something one of them saw.
LEMMA SummariseSeen ==
  ASSUME NEW windows \in Seq(Windows), NEW s \in Services
  PROVE  /\ Summarise(windows)[s] \in Ranks \cup {Unseen}
         /\ Summarise(windows)[s] = 0 =>
              /\ \E i \in 1..Len(windows) : windows[i].svc[s] = 0
              /\ \A i \in 1..Len(windows) : windows[i].svc[s] \in {0, Unseen}
<1> DEFINE seen == {w.svc[s] : w \in Range(windows)} \ {Unseen}
<1>1. Summarise(windows)[s] = IF seen = {} THEN Unseen ELSE Max(seen)
  BY DEF Summarise
<1>2. Range(windows) = {windows[i] : i \in 1..Len(windows)}
  BY DEF Range
<1>3. \A i \in 1..Len(windows) : windows[i].svc[s] \in Ranks \cup {Unseen}
  <2>1. \A i \in 1..Len(windows) : windows[i].svc \in Reports
    <3>1. \A i \in 1..Len(windows) : windows[i] \in Windows
      OBVIOUS
    <3>2. \A w \in Windows : w.svc \in Reports
      BY DEF Windows
    <3> QED BY <3>1, <3>2
  <2>2. Reports \subseteq [Services -> Ranks \cup {Unseen}]
    <3>1. CASE CanBeBlind
      BY <3>1 DEF Reports
    <3>2. CASE ~CanBeBlind
      BY <3>2 DEF Reports
    <3> QED BY <3>1, <3>2
  <2> QED BY <2>1, <2>2
<1>4. seen \subseteq Ranks /\ Ranks \subseteq Int /\ Unseen # 0
  BY <1>2, <1>3 DEF Ranks, Unseen, VerificationAssumption
<1>5. IsFiniteSet(seen)
  <2>1. IsFiniteSet(Ranks)
    BY FS_Interval DEF Ranks, VerificationAssumption
  <2> QED BY <1>4, <2>1, FS_Subset
<1>6. CASE seen = {}
  BY <1>1, <1>4, <1>6
<1>7. CASE seen # {}
  <2>1. Max(seen) \in seen /\ \A y \in seen : y <= Max(seen)
    BY <1>4, <1>5, <1>7, MaxIsGreatest
  <2>2. Summarise(windows)[s] = Max(seen)
    BY <1>1, <1>7
  <2>3. ASSUME Max(seen) = 0
        PROVE  /\ \E i \in 1..Len(windows) : windows[i].svc[s] = 0
               /\ \A i \in 1..Len(windows) : windows[i].svc[s] \in {0, Unseen}
    <3>1. 0 \in seen /\ \A y \in seen : y = 0
      <4> HIDE DEF seen
      <4>1. \A y \in seen : y \in Nat
        BY <1>4 DEF Ranks, VerificationAssumption
      <4> QED BY <2>1, <2>3, <4>1
    <3>2. ASSUME NEW i \in 1..Len(windows)
          PROVE  windows[i].svc[s] \in seen \cup {Unseen}
      <4>1. windows[i] \in Range(windows)
        BY <1>2
      <4> QED BY <4>1
    <3>3. PICK w \in Range(windows) : w.svc[s] = 0
      BY <3>1
    <3>4. PICK i \in 1..Len(windows) : w = windows[i]
      BY <1>2
    <3>5. windows[i].svc[s] = 0
      BY <3>3, <3>4
    <3> HIDE DEF seen
    <3> QED BY <3>1, <3>2, <3>5
  <2> HIDE DEF seen
  <2> QED BY <1>4, <2>1, <2>2, <2>3
<1> QED BY <1>6, <1>7

\* ObserveNext is ObserveOne.
LEMMA NextIsOne == \A v, w : ObserveNext(v, w) = ObserveOne(v, w)
<1> SUFFICES ASSUME NEW v, NEW w PROVE ObserveNext(v, w) = ObserveOne(v, w)
  OBVIOUS
<1>1. {ObserveOne(x, w) : x \in {v}} = {ObserveOne(v, w)}
  OBVIOUS
<1> QED BY <1>1 DEF ObserveNext

-----------------------------------------------------------------------------
(* The observation loop *)

Frame(v) == <<v.anchor, v.since, v.relaunched, v.before, v.running>>

\* A step of the loop leaves the verification alone or appends a window past the
\* anchor, and what was sound stays sound.
LEMMA ObserveOneSound ==
  ASSUME NEW v, Sound(v), NEW w \in Windows
  PROVE  LET u == ObserveOne(v, w)
         IN /\ Sound(u) /\ Frame(u) = Frame(v)
            /\ \/ u = v
               \/ w.id > v.anchor /\ u.observed = Append(v.observed, w)
<1> DEFINE observed  == Append(v.observed, w)
           gaps      == Gaps(v, w)
           trial     == Classify(v.before, Summarise(Tail_(observed, SustainWindows)))
           sustained == IF trial = "RECOVERED" THEN v.sustained + 1 ELSE 0
           outcome   ==
             CASE Held(sustained)                          -> trial
               [] ~Held(sustained) /\ Spent(observed)      -> AtBudget(trial, gaps)
               [] ~Held(sustained) /\ ~Spent(observed)
                    /\ w.id - v.anchor > MaxSpan           -> "INCONCLUSIVE"
               [] OTHER                                    -> "none"
           u == [v EXCEPT !.observed = observed, !.gaps = gaps,
                          !.sustained = sustained, !.verdict = outcome]
<1>1. ObserveOne(v, w) = IF v.verdict # "none" \/ ~IsEvidence(v, w) THEN v ELSE u
  BY DEF ObserveOne
<1>2. /\ v \in Verification /\ v.sustained \in Nat /\ v.gaps \in Nat /\ v.anchor \in Nat
      /\ v.observed \in Seq(Windows) /\ Len(v.observed) \in Nat /\ v.sustained <= Len(v.observed)
  BY DEF Sound, Verification
<1>3. observed \in Seq(Windows) /\ Len(observed) = Len(v.observed) + 1
  BY <1>2
<1>4. trial \in Verdicts
  BY ClassifyIsVerdict
<1>5. gaps \in Nat /\ sustained \in Nat /\ sustained <= Len(observed)
  BY <1>2, <1>3 DEF Gaps
<1>11. gaps = 0 => Unbroken(observed)
  <2> SUFFICES ASSUME gaps = 0, NEW i \in 2..Len(observed)
               PROVE  observed[i].id = observed[i - 1].id + 1
    BY DEF Unbroken
  <2>1. v.gaps = 0 /\ ~(v.observed # <<>> /\ w.id # Last(v.observed).id + 1)
    BY <1>2 DEF Gaps
  <2>2. CASE i = Len(observed)
    <3>1. /\ observed[i] = w /\ observed[i - 1] = v.observed[Len(v.observed)]
          /\ v.observed # <<>>
      BY <1>2, <1>3, <2>2
    <3> QED BY <2>1, <3>1 DEF Last
  <2>3. CASE i # Len(observed)
    <3>1. /\ i \in 2..Len(v.observed)
          /\ observed[i] = v.observed[i] /\ observed[i - 1] = v.observed[i - 1]
      BY <1>2, <1>3, <2>3
    <3> QED BY <2>1, <3>1 DEF Sound, Unbroken
  <2> QED BY <2>2, <2>3
<1>6. Held(sustained) => trial = "RECOVERED" /\ SustainWindows <= Len(observed)
  BY <1>2, <1>3, <1>5 DEF Held, VerificationAssumption
<1>7. Spent(observed) => SustainWindows <= Len(observed) /\ VerifyWindows <= Len(observed)
  BY <1>3, <1>2 DEF Spent, VerificationAssumption
<1>8. /\ outcome \in Verdicts \cup {"none"}
      /\ outcome = "none" => Len(observed) < VerifyWindows
      /\ outcome \in {"FAILED", "PARTIAL"} =>
           gaps = 0 /\ (v.verdict = "none" => Len(observed) = VerifyWindows)
      /\ outcome = "RECOVERED" => trial = "RECOVERED" /\ SustainWindows <= Len(observed)
  <2> HIDE DEF gaps, trial, sustained, observed
  <2>1. CASE Held(sustained)
    BY <1>4, <1>6, <2>1 DEF Verdicts
  <2>2. CASE ~Held(sustained) /\ Spent(observed)
    <3>1. outcome = IF gaps > 0 THEN "INCONCLUSIVE" ELSE trial
      BY <2>2 DEF AtBudget
    <3>2. v.verdict = "none" => Len(observed) = VerifyWindows
      BY <1>2, <1>3, <1>7, <2>2 DEF Sound, VerificationAssumption
    <3>3. VerifyWindows <= Len(observed) /\ ~(Len(observed) < VerifyWindows)
      BY <1>2, <1>3, <1>7, <2>2 DEF VerificationAssumption
    <3> QED BY <1>4, <1>5, <1>7, <2>2, <3>1, <3>2, <3>3 DEF Verdicts
  <2>3. CASE ~Held(sustained) /\ ~Spent(observed)
    <3>1. outcome \in {"INCONCLUSIVE", "none"}
      BY <2>3
    <3>2. Len(observed) < VerifyWindows
      BY <2>3, <1>2, <1>3 DEF Spent, VerificationAssumption
    <3> QED BY <3>1, <3>2 DEF Verdicts
  <2> QED BY <2>1, <2>2, <2>3
<1> HIDE DEF observed, gaps, trial, sustained, outcome
<1>9. /\ u \in Verification /\ Frame(u) = Frame(v)
      /\ u.observed = observed /\ u.gaps = gaps /\ u.sustained = sustained /\ u.verdict = outcome
      /\ u.before = v.before
  BY <1>2, <1>3, <1>5, <1>8 DEF Verification, Frame
<1>10. v.verdict = "none" => Sound(u)
  BY <1>5, <1>8, <1>9, <1>11 DEF Sound, trial
<1> QED BY <1>1, <1>9, <1>10 DEF IsEvidence, observed

\* The loop, one window after the other.
LEMMA ObserveLoop ==
  ASSUME NEW v, NEW new, Len(ring) \in Nat
  PROVE  \E f : /\ f[0] = v /\ Observe(v, new) = f[Len(ring)]
                /\ \A i \in 1..Len(ring) :
                     f[i] = IF i \in new THEN ObserveOne(f[i - 1], ring[i]) ELSE f[i - 1]
<1> DEFINE Body(f, i) ==
             IF i = 0 THEN v
             ELSE IF i \in new THEN ObserveNext(f[i - 1], ring[i]) ELSE f[i - 1]
           Built(f, n) == f = [i \in 0..n |-> Body(f, i)]
           S == {n \in Nat : \E f : Built(f, n)}
<1>1. \A f : Body(f, 0) = v
  OBVIOUS
<1>2. \A f, i : i # 0 => Body(f, i) = IF i \in new THEN ObserveOne(f[i - 1], ring[i])
                                                   ELSE f[i - 1]
  BY NextIsOne
<1> HIDE DEF Body
<1>3. 0 \in S
  <2> DEFINE g == [i \in 0..0 |-> v]
  <2>1. Built(g, 0)
    BY <1>1
  <2> QED BY <2>1
<1>4. ASSUME NEW n \in Nat, n \in S
      PROVE  n + 1 \in S
  <2>1. PICK f : Built(f, n)
    BY <1>4
  <2> DEFINE g == [i \in 0..n + 1 |-> IF i <= n THEN f[i] ELSE Body(f, n + 1)]
  <2>2. ASSUME NEW i \in 0..n + 1
        PROVE  g[i] = Body(g, i)
    <3>1. i # 0 => g[i - 1] = f[i - 1]
      <4> SUFFICES ASSUME i # 0
                   PROVE  g[i - 1] = f[i - 1]
        OBVIOUS
      <4>1. i - 1 \in 0..n + 1 /\ i - 1 <= n
        OBVIOUS
      <4> HIDE DEF Built, Body
      <4> QED BY <4>1
    <3>2. Body(g, i) = Body(f, i)
      <4> HIDE DEF g
      <4>1. CASE i = 0
        BY <1>1, <4>1
      <4>2. CASE i # 0
        <5>1. /\ Body(g, i) = IF i \in new THEN ObserveOne(g[i - 1], ring[i]) ELSE g[i - 1]
              /\ Body(f, i) = IF i \in new THEN ObserveOne(f[i - 1], ring[i]) ELSE f[i - 1]
          BY <1>2, <4>2
        <5> QED BY <3>1, <4>2, <5>1
      <4> QED BY <4>1, <4>2
    <3>3. CASE i <= n
      <4>1. i \in 0..n
        BY <3>3
      <4>2. f[i] = Body(f, i)
        <5> HIDE DEF Body
        <5> QED BY <2>1, <4>1
      <4>3. g[i] = f[i]
        <5> HIDE DEF Built, Body
        <5> QED BY <3>3
      <4> HIDE DEF g, Body, Built
      <4> QED BY <3>2, <4>2, <4>3
    <3>4. CASE ~(i <= n)
      <4>1. i = n + 1
        BY <3>4
      <4>2. g[n + 1] = Body(f, n + 1)
        OBVIOUS
      <4> HIDE DEF g
      <4> QED BY <3>2, <4>1, <4>2
    <3> QED BY <3>3, <3>4
  <2>3. Built(g, n + 1)
    <3>1. g = [i \in 0..n + 1 |-> g[i]]
      OBVIOUS
    <3> HIDE DEF g
    <3> QED BY <2>2, <3>1
  <2>4. n + 1 \in Nat /\ \E h : Built(h, n + 1)
    <3> HIDE DEF g, Built
    <3> QED BY <2>3
  <2> HIDE DEF g, Built
  <2> QED BY <2>4
<1>5. Len(ring) \in S
  <2> HIDE DEF S
  <2> QED BY <1>3, <1>4, NatInductionSet
<1>6. PICK f : f = CHOOSE g : Built(g, Len(ring))
  OBVIOUS
<1>7. f = [i \in 0..Len(ring) |-> Body(f, i)]
  BY <1>5, <1>6
<1>8. Observe(v, new) = f[Len(ring)]
  BY <1>6 DEF Observe, Body
<1>9. f[0] = v /\ \A i \in 1..Len(ring) : f[i] = Body(f, i)
  <2>1. \A i \in 0..Len(ring) : f[i] = Body(f, i)
    BY <1>7
  <2>2. 0 \in 0..Len(ring)
    OBVIOUS
  <2> QED BY <1>1, <2>1, <2>2
<1>10. \A i \in 1..Len(ring) : i # 0
  OBVIOUS
<1> QED BY <1>2, <1>8, <1>9, <1>10

\* A loop invariant, the set G[i] after the i-th window, holds of the outcome.
LEMMA LoopRule ==
  ASSUME NEW v, NEW new, Len(ring) \in Nat, NEW G, v \in G[0],
         \A i \in 1..Len(ring) : \A u \in G[i - 1] :
           /\ i \in new => ObserveOne(u, ring[i]) \in G[i]
           /\ i \notin new => u \in G[i]
  PROVE  Observe(v, new) \in G[Len(ring)]
<1>1. PICK f : /\ f[0] = v /\ Observe(v, new) = f[Len(ring)]
               /\ \A i \in 1..Len(ring) :
                    f[i] = IF i \in new THEN ObserveOne(f[i - 1], ring[i]) ELSE f[i - 1]
  BY ObserveLoop
<1> DEFINE S == {n \in Nat : n <= Len(ring) => f[n] \in G[n]}
<1>2. 0 \in S
  BY <1>1
<1>3. ASSUME NEW n \in Nat, n \in S
      PROVE  n + 1 \in S
  <2> SUFFICES ASSUME n + 1 <= Len(ring) PROVE f[n + 1] \in G[n + 1]
    OBVIOUS
  <2>1. n + 1 \in 1..Len(ring) /\ (n + 1) - 1 = n /\ f[n] \in G[n]
    BY <1>3
  <2>2. f[n + 1] = IF n + 1 \in new THEN ObserveOne(f[n], ring[n + 1]) ELSE f[n]
    BY <1>1, <2>1
  <2> QED BY <2>1, <2>2
<1>4. Len(ring) \in S
  <2> HIDE DEF S
  <2> QED BY <1>2, <1>3, NatInductionSet
<1> QED BY <1>1, <1>4

-----------------------------------------------------------------------------
(* The cursor *)

\* A cursor moves to the id of a window of the ring; until a relaunch, to the newest.
LEMMA CursorMoves ==
  ASSUME RingOK, NEW cursor \in Nat
  PROVE  /\ Since(cursor) \subseteq 1..Len(ring)
         /\ CursorAfter(Since(cursor), cursor) \in Nat
         /\ restarts = 0 /\ cursor <= streamId =>
              /\ CursorAfter(Since(cursor), cursor) <= streamId
              /\ Since(cursor) # {} => CursorAfter(Since(cursor), cursor) = streamId
              /\ Since(cursor) # {} => streamId # 0
              /\ \A j \in Since(cursor) : cursor = 0 \/ ring[j].id > cursor
<1> DEFINE new == Since(cursor)
<1>1. /\ ring \in Seq(Windows) /\ Len(ring) \in Nat
      /\ \A i \in 1..Len(ring) : ring[i] \in Windows
  BY DEF RingOK
<1>2. \A i \in 1..Len(ring) : ring[i].id \in Nat /\ ring[i].id # 0
  BY <1>1 DEF Windows
<1>3. new \subseteq 1..Len(ring)
  BY DEF Since
<1>4. new # {} => Max(new) \in new /\ \A j \in new : j <= Max(new)
  <2>1. IsFiniteSet(new)
    <3>1. IsFiniteSet(1..Len(ring))
      BY <1>1, FS_Interval
    <3> QED BY <1>3, <3>1, FS_Subset
  <2>2. new \in SUBSET Int
    BY <1>1, <1>3
  <2> QED BY <2>1, <2>2, MaxIsGreatest
<1>5. /\ new = {} => CursorAfter(new, cursor) = cursor
      /\ new # {} => CursorAfter(new, cursor) = ring[Max(new)].id
  BY DEF CursorAfter
<1>6. CursorAfter(new, cursor) \in Nat
  <2> HIDE DEF new
  <2> QED BY <1>2, <1>3, <1>4, <1>5
<1>7. ASSUME restarts = 0, cursor <= streamId, new # {}
      PROVE  /\ CursorAfter(new, cursor) = streamId /\ streamId # 0
             /\ \A j \in new : cursor = 0 \/ ring[j].id > cursor
  <2>1. /\ \A i, j \in 1..Len(ring) : i < j => ring[i].id < ring[j].id
        /\ ring # <<>> => ring[Len(ring)].id = streamId
        /\ streamId \in Nat
    BY <1>7 DEF RingOK
  <2>2. Len(ring) \in 1..Len(ring)
    BY <1>1, <1>3, <1>7
  <2>3. Last(ring).id = streamId /\ ring[Len(ring)].id = streamId
    BY <2>1, <2>2 DEF Last
  <2>4. \A j \in new : cursor = 0 \/ ring[j].id > cursor
    BY <1>7, <2>1, <2>3 DEF Since
  <2>5. Len(ring) \in new
    <3>1. PICK j \in new : TRUE
      BY <1>7
    <3>2. cursor = 0 \/ ring[Len(ring)].id > cursor
      <4>1. ring[j].id <= ring[Len(ring)].id
        BY <1>1, <1>2, <1>3, <2>1, <2>2
      <4> QED BY <1>2, <1>3, <2>2, <2>4, <4>1
    <3> QED BY <2>2, <3>2 DEF Since
  <2>6. Max(new) = Len(ring)
    <3>1. \A j \in new : j \in Int /\ j <= Len(ring)
      BY <1>1, <1>3
    <3> HIDE DEF new
    <3> QED BY <1>1, <1>4, <1>7, <2>5, <3>1
  <2> QED BY <1>2, <1>5, <1>7, <2>2, <2>3, <2>4, <2>6
<1>8. restarts = 0 /\ cursor <= streamId => CursorAfter(new, cursor) <= streamId
  BY <1>5, <1>7 DEF RingOK
<1> HIDE DEF new
<1>9. /\ new \subseteq 1..Len(ring)
      /\ CursorAfter(new, cursor) \in Nat
      /\ restarts = 0 /\ cursor <= streamId =>
           /\ CursorAfter(new, cursor) <= streamId
           /\ new # {} => CursorAfter(new, cursor) = streamId
           /\ new # {} => streamId # 0
           /\ \A j \in new : cursor = 0 \/ ring[j].id > cursor
  BY <1>3, <1>6, <1>7, <1>8
<1> QED BY <1>9 DEF new

-----------------------------------------------------------------------------
(* What the loop keeps *)

\* A window that came after the action, and after what has been observed, may be appended.
LEMMA AppendKeeps ==
  ASSUME NEW v, v.observed \in Seq(Windows), NEW w \in Windows, NEW u,
         u.observed = Append(v.observed, w), u.since = v.since, u.relaunched = v.relaunched
  PROVE  /\ After(v) /\ (~v.relaunched => v.since < w.n) => After(u)
         /\ InOrder(v) /\ (\A i \in 1..Len(v.observed) : v.observed[i].n < w.n) => InOrder(u)
<1>1. /\ Len(v.observed) \in Nat /\ Len(u.observed) = Len(v.observed) + 1
      /\ \A i \in 1..Len(v.observed) : u.observed[i] = v.observed[i]
      /\ u.observed[Len(v.observed) + 1] = w
  OBVIOUS
<1>2. \A i \in 1..Len(u.observed) : i \in 1..Len(v.observed) \/ i = Len(v.observed) + 1
  BY <1>1
<1>3. After(v) /\ (~v.relaunched => v.since < w.n) => After(u)
  BY <1>1, <1>2 DEF After
<1>4. ASSUME InOrder(v), \A i \in 1..Len(v.observed) : v.observed[i].n < w.n,
             NEW i \in 1..Len(u.observed), NEW j \in 1..Len(u.observed), i < j
      PROVE  u.observed[i].n < u.observed[j].n
  <2>1. i \in 1..Len(v.observed)
    BY <1>1, <1>4
  <2>2. CASE j \in 1..Len(v.observed)
    BY <1>1, <1>4, <2>1, <2>2 DEF InOrder
  <2>3. CASE j = Len(v.observed) + 1
    BY <1>1, <1>4, <2>1, <2>3
  <2> QED BY <1>2, <2>2, <2>3
<1> QED BY <1>3, <1>4 DEF InOrder

\* What holds of the verification once the windows up to position p are observed:
\* those of the new ones that remain came after all it has observed.
Kept(u, new, p) ==
  /\ Sound(u) /\ After(u) /\ Frame(u) = Frame(active)
  /\ new = {} => u = active
  /\ restarts = 0 =>
       /\ InOrder(u)
       /\ \A i \in 1..Len(u.observed) : u.observed[i].n <= arrivals
       /\ \A j \in new, i \in 1..Len(u.observed) :
            j > p => u.observed[i].n < ring[j].n

LEMMA KeptStep ==
  ASSUME RingOK, ActiveOK, NEW new \in SUBSET (1..Len(ring)),
         NEW p \in 1..Len(ring), p \in new, NEW u, Kept(u, new, p - 1)
  PROVE  Kept(ObserveOne(u, ring[p]), new, p)
<1> DEFINE x == ObserveOne(u, ring[p])
<1>1. /\ ring[p] \in Windows /\ Len(ring) \in Nat
      /\ \A j \in 1..Len(ring) : ring[j] \in Windows /\ ring[j].n \in Nat
  BY WindowIsNumbered DEF RingOK
<1>2. /\ Sound(x) /\ Frame(x) = Frame(u)
      /\ \/ x = u
         \/ ring[p].id > u.anchor /\ x.observed = Append(u.observed, ring[p])
  BY <1>1, ObserveOneSound DEF Kept
<1> HIDE DEF x
<1>3. /\ u.observed \in Seq(Windows) /\ Len(u.observed) \in Nat
      /\ \A i \in 1..Len(u.observed) : u.observed[i].n \in Nat
      /\ x.since = u.since /\ u.since = active.since /\ u.anchor = active.anchor
      /\ x.relaunched = u.relaunched /\ u.relaunched = active.relaunched
  <2>1. u.observed \in Seq(Windows) /\ Len(u.observed) \in Nat
    BY DEF Kept, Sound, Verification
  <2>2. \A i \in 1..Len(u.observed) : u.observed[i] \in Windows
    BY <2>1
  <2>3. /\ x.since = u.since /\ u.since = active.since /\ u.anchor = active.anchor
        /\ x.relaunched = u.relaunched /\ u.relaunched = active.relaunched
    BY <1>2 DEF Kept, Frame
  <2> QED BY <2>1, <2>2, <2>3, WindowIsNumbered
<1>4. ASSUME x = u
      PROVE  Kept(x, new, p)
  <2>1. \A j \in new : j > p => j > p - 1
    OBVIOUS
  <2> QED BY <1>4, <2>1 DEF Kept
<1>5. ASSUME ring[p].id > u.anchor, x.observed = Append(u.observed, ring[p])
      PROVE  Kept(x, new, p)
  <2>8. After(x)
    <3>1. ~active.relaunched => active.since < ring[p].n
      BY <1>3, <1>5 DEF ActiveOK
    <3>2. After(u)
      BY DEF Kept
    <3> QED BY <1>1, <1>3, <1>5, <3>1, <3>2, AppendKeeps
  <2> SUFFICES ASSUME restarts = 0
               PROVE  /\ InOrder(x)
                      /\ \A i \in 1..Len(x.observed) : x.observed[i].n <= arrivals
                      /\ \A j \in new, i \in 1..Len(x.observed) :
                           j > p => x.observed[i].n < ring[j].n
    BY <1>2, <2>8 DEF Kept
  <2>1. /\ InOrder(u)
        /\ \A i \in 1..Len(u.observed) : u.observed[i].n <= arrivals
        /\ \A j \in new, i \in 1..Len(u.observed) : j > p - 1 => u.observed[i].n < ring[j].n
    BY DEF Kept
  <2>2. /\ ring[p].n <= arrivals
        /\ \A j \in 1..Len(ring) : p < j => ring[p].n < ring[j].n
    BY <1>3, <1>5 DEF RingOK, ActiveOK
  <2>3. \A i \in 1..Len(u.observed) : u.observed[i].n < ring[p].n
    BY <2>1
  <2>4. InOrder(x)
    BY <1>1, <1>3, <1>5, <2>1, <2>3, AppendKeeps
  <2>5. \A i \in 1..Len(x.observed) :
          x.observed[i] = ring[p] \/ (i \in 1..Len(u.observed) /\ x.observed[i] = u.observed[i])
    BY <1>1, <1>3, <1>5
  <2>6. \A i \in 1..Len(x.observed) : x.observed[i].n <= arrivals
    BY <2>1, <2>2, <2>5
  <2>7. ASSUME NEW j \in new, NEW i \in 1..Len(x.observed), j > p
        PROVE  x.observed[i].n < ring[j].n
    <3>1. j \in 1..Len(ring) /\ p < j /\ j > p - 1
      BY <2>7
    <3> QED BY <2>1, <2>2, <2>5, <3>1
  <2> QED BY <2>4, <2>6, <2>7
<1> QED BY <1>2, <1>4, <1>5 DEF x

\* The whole loop.
LEMMA ObserveKeeps ==
  ASSUME RingOK, ActiveOK
  PROVE  LET new == Since(verifyCursor) IN Kept(Observe(active, new), new, Len(ring))
<1> DEFINE new == Since(verifyCursor)
           G == [p \in 0..Len(ring) |-> {u \in Verification : Kept(u, new, p)}]
<1>1. Len(ring) \in Nat /\ verifyCursor \in Nat /\ active \in Verification
  BY DEF RingOK, ActiveOK, Sound
<1>2. new \subseteq 1..Len(ring)
  BY <1>1, CursorMoves
<1>3. Kept(active, new, 0)
  <2>1. \A i \in 1..Len(ring) : ring[i].n \in Nat
    <3>1. \A i \in 1..Len(ring) : ring[i] \in Windows
      BY DEF RingOK
    <3> QED BY <3>1, WindowIsNumbered
  <2>2. restarts = 0 => \A j \in new, i \in 1..Len(active.observed) :
                          active.observed[i].n < ring[j].n
    <3> SUFFICES ASSUME restarts = 0, NEW j \in new, NEW i \in 1..Len(active.observed)
                 PROVE  active.observed[i].n < ring[j].n
      OBVIOUS
    <3>1. verifyCursor # 0 /\ verifyCursor <= streamId
      BY DEF ActiveOK
    <3>2. ring[j].id > verifyCursor
      BY <1>1, <3>1, CursorMoves
    <3> QED BY <1>2, <3>2 DEF ActiveOK
  <2> HIDE DEF new
  <2> QED BY <2>2 DEF Kept, ActiveOK
<1>4. ASSUME NEW p \in 1..Len(ring), NEW u \in G[p - 1]
      PROVE  /\ p \in new => ObserveOne(u, ring[p]) \in G[p]
             /\ p \notin new => u \in G[p]
  <2> HIDE DEF new
  <2>1. u \in Verification /\ Kept(u, new, p - 1)
    BY <1>1
  <2>2. ASSUME p \in new
        PROVE  ObserveOne(u, ring[p]) \in G[p]
    <3>1. Kept(ObserveOne(u, ring[p]), new, p)
      BY <1>2, <2>1, <2>2, KeptStep
    <3> QED BY <3>1 DEF Kept, Sound
  <2>3. ASSUME p \notin new
        PROVE  Kept(u, new, p)
    <3>1. \A j \in new : j > p => j > p - 1
      BY <1>1, <1>2
    <3> QED BY <2>1, <3>1 DEF Kept
  <2> QED BY <2>1, <2>2, <2>3
<1>5. active \in G[0]
  BY <1>1, <1>3
<1>6. Observe(active, new) \in G[Len(ring)]
  <2> HIDE DEF new, G
  <2> QED BY <1>1, <1>4, <1>5, LoopRule
<1> QED BY <1>1, <1>6

-----------------------------------------------------------------------------
(* The actions *)

\* A delivered window is the newest of the ring; the others were in it before.
LEMMA Pushed ==
  ASSUME RingOK, NEW id \in Nat \ {0}, Push(id), restarts' \in Nat,
         restarts' = 0 => restarts = 0 /\ streamId < id
  PROVE  /\ RingOK'
         /\ \A j \in 1..Len(ring') : \/ ring'[j].n = arrivals + 1
                                     \/ \E k \in 1..Len(ring) : ring'[j] = ring[k]
<1>1. /\ ring \in Seq(Windows) /\ Len(ring) \in Nat /\ Len(ring) <= RingSize
      /\ arrivals \in Nat /\ RingSize \in Nat /\ 1 <= RingSize
      /\ \A i \in 1..Len(ring) : ring[i] \in Windows
  BY DEF RingOK, VerificationAssumption
<1>2. PICK report \in Reports :
        /\ ring' = Tail_(Append(ring, [id |-> id, n |-> arrivals + 1, svc |-> report]), RingSize)
        /\ arrivals' = arrivals + 1 /\ streamId' = id
  BY DEF Push
<1> DEFINE w == [id |-> id, n |-> arrivals + 1, svc |-> report]
           all == Append(ring, w)
<1>3. w \in Windows /\ w.id = id /\ w.n = arrivals + 1
  BY <1>1 DEF Windows
<1> HIDE DEF w
<1>4. /\ all \in Seq(Windows) /\ Len(all) = Len(ring) + 1
      /\ \A i \in 1..Len(ring) : all[i] = ring[i]
      /\ all[Len(ring) + 1] = w
  BY <1>1, <1>3
<1> HIDE DEF all
<1>5. /\ ring' \in Seq(Windows)
      /\ Len(ring') = IF Len(all) > RingSize THEN RingSize ELSE Len(all)
      /\ \A i \in 1..Len(ring') : ring'[i] = all[Len(all) - Len(ring') + i]
  <2>1. ring' = Tail_(all, RingSize)
    BY <1>2 DEF all, w
  <2>2. PICK a \in Seq(Windows), k \in Nat : a = all /\ k = RingSize
    BY <1>1, <1>4
  <2>3. PICK r : r = Tail_(a, k)
    OBVIOUS
  <2>4. /\ r \in Seq(Windows) /\ Len(r) = IF Len(a) > k THEN k ELSE Len(a)
        /\ \A i \in 1..Len(r) : r[i] = a[Len(a) - Len(r) + i]
    BY <2>3, TailIsSuffix
  <2> QED BY <2>1, <2>2, <2>3, <2>4
<1>6. PICK d \in Nat : d = Len(all) - Len(ring')
  <2>1. Len(all) - Len(ring') \in Nat
    BY <1>1, <1>4, <1>5
  <2> QED BY <2>1
<1>7. /\ Len(ring') \in Nat /\ 1 <= Len(ring') /\ Len(ring') <= RingSize
      /\ d + Len(ring') = Len(ring) + 1
      /\ \A i \in 1..Len(ring') : ring'[i] = all[d + i] /\ d + i \in 1..Len(ring) + 1
  <2>1. /\ Len(ring') \in Nat /\ 1 <= Len(ring') /\ Len(ring') <= RingSize
        /\ d + Len(ring') = Len(ring) + 1
    BY <1>1, <1>4, <1>5, <1>6
  <2>2. ASSUME NEW i \in 1..Len(ring')
        PROVE  ring'[i] = all[d + i] /\ d + i \in 1..Len(ring) + 1
    <3>1. ring'[i] = all[Len(all) - Len(ring') + i]
      BY <1>5
    <3>2. d + i \in 1..Len(ring) + 1
      BY <2>1, <1>1
    <3> QED BY <1>6, <3>1, <3>2
  <2> QED BY <2>1, <2>2
<1>8. \A i \in 1..Len(ring') :
        \/ i = Len(ring') /\ ring'[i] = w
        \/ i < Len(ring') /\ d + i \in 1..Len(ring) /\ ring'[i] = ring[d + i]
  BY <1>1, <1>4, <1>7
<1>9. /\ \A i \in 1..Len(ring) : ring[i].n \in Nat /\ ring[i].n <= arrivals
      /\ \A i \in 1..Len(ring) : ring[i].id \in Nat
  BY <1>1, WindowIsNumbered DEF RingOK
<1>10. ASSUME NEW i \in 1..Len(ring')
       PROVE  ring'[i].n <= arrivals'
  <2>1. CASE ring'[i] = w
    BY <1>1, <1>2, <1>3, <2>1
  <2>2. CASE d + i \in 1..Len(ring) /\ ring'[i] = ring[d + i]
    BY <1>1, <1>2, <1>9, <2>2
  <2> QED BY <1>8, <2>1, <2>2
<1>11. ASSUME restarts' = 0
       PROVE  /\ \A i, j \in 1..Len(ring') :
                   i < j => ring'[i].id < ring'[j].id /\ ring'[i].n < ring'[j].n
              /\ \A i \in 1..Len(ring') : ring'[i].id <= streamId'
              /\ ring' # <<>> => ring'[Len(ring')].id = streamId'
  <2>1. /\ \A i, j \in 1..Len(ring) : i < j => ring[i].id < ring[j].id /\ ring[i].n < ring[j].n
        /\ \A i \in 1..Len(ring) : ring[i].id < id
        /\ streamId' = id /\ id \in Nat
    BY <1>2, <1>9, <1>11 DEF RingOK
  <2>2. ASSUME NEW i \in 1..Len(ring'), NEW j \in 1..Len(ring'), i < j
        PROVE  ring'[i].id < ring'[j].id /\ ring'[i].n < ring'[j].n
    <3>1. i < Len(ring') /\ d + i \in 1..Len(ring) /\ ring'[i] = ring[d + i]
      BY <1>7, <1>8, <2>2
    <3>2. CASE j = Len(ring') /\ ring'[j] = w
      BY <1>1, <1>3, <1>9, <2>1, <3>1, <3>2
    <3>3. CASE j < Len(ring') /\ d + j \in 1..Len(ring) /\ ring'[j] = ring[d + j]
      <4>1. d + i < d + j
        BY <2>2
      <4> QED BY <2>1, <3>1, <3>3, <4>1
    <3> QED BY <1>8, <3>2, <3>3
  <2>3. \A i \in 1..Len(ring') : ring'[i].id <= streamId'
    BY <1>3, <1>8, <1>9, <2>1
  <2>4. ring'[Len(ring')].id = streamId'
    <3>1. Len(ring') \in 1..Len(ring') /\ ~(Len(ring') < Len(ring'))
      BY <1>7
    <3>2. ring'[Len(ring')] = w
      BY <1>8, <3>1
    <3> QED BY <1>3, <2>1, <3>2
  <2> QED BY <2>2, <2>3, <2>4
<1>12. RingOK'
  <2>1. arrivals' \in Nat /\ streamId' \in Nat
    BY <1>1, <1>2
  <2>2. ring' \in Seq(Windows) /\ Len(ring') <= RingSize
    BY <1>5, <1>7
  <2> QED BY <2>1, <2>2, <1>10, <1>11 DEF RingOK
<1> QED BY <1>3, <1>8, <1>12

\* A delivery leaves the verification where it was, older than what is delivered.
LEMMA DeliveryKeeps ==
  ASSUME Inv, NEW id \in Nat \ {0}, Push(id), restarts' \in Nat,
         restarts' = 0 => restarts = 0 /\ streamId < id,
         UNCHANGED <<incident, detCursor, acted, active, verifyCursor, expired, verdict>>
  PROVE  Inv'
<1>1. /\ RingOK' /\ RingOK
      /\ \A j \in 1..Len(ring') : \/ ring'[j].n = arrivals + 1
                                  \/ \E k \in 1..Len(ring) : ring'[j] = ring[k]
  BY Pushed DEF Inv
<1>2. arrivals \in Nat /\ arrivals' = arrivals + 1 /\ streamId' = id
  BY <1>1 DEF RingOK, Push
<1>3. ActiveOK'
  <2>1. /\ Sound(active') /\ active'.verdict = "none" /\ (~active'.running => active' = Idle)
        /\ active'.running => active'.before \in [Services -> Ranks \cup {Unseen}]
        /\ active'.since <= arrivals' /\ verifyCursor' \in Nat
    BY <1>2 DEF Inv, ActiveOK, Sound, Verification
  <2>2. ASSUME restarts' = 0
        PROVE  /\ InOrder(active') /\ verifyCursor' <= streamId'
               /\ verifyCursor' = 0 => active'.observed = <<>>
               /\ \A i \in 1..Len(active'.observed) : active'.observed[i].n <= arrivals'
               /\ \A j \in 1..Len(ring'), i \in 1..Len(active'.observed) :
                    ring'[j].id > verifyCursor' => active'.observed[i].n < ring'[j].n
    <3>1. /\ InOrder(active) /\ verifyCursor <= streamId /\ verifyCursor \in Nat
          /\ verifyCursor = 0 => active.observed = <<>>
          /\ \A i \in 1..Len(active.observed) : active.observed[i].n <= arrivals
          /\ \A j \in 1..Len(ring), i \in 1..Len(active.observed) :
               ring[j].id > verifyCursor => active.observed[i].n < ring[j].n
      BY <2>2 DEF Inv, ActiveOK
    <3>2. active' = active /\ verifyCursor' = verifyCursor /\ streamId < streamId'
      BY <1>2, <2>2
    <3>3. streamId \in Nat
      BY DEF Inv, RingOK
    <3>4. \A i \in 1..Len(active.observed) : active.observed[i].n \in Nat
      <4>1. active.observed \in Seq(Windows)
        BY DEF Inv, ActiveOK, Sound, Verification
      <4>2. \A i \in 1..Len(active.observed) : active.observed[i] \in Windows
        BY <4>1
      <4> QED BY <4>2, WindowIsNumbered
    <3>5. \A i \in 1..Len(active'.observed) : active'.observed[i].n <= arrivals'
      BY <1>2, <3>1, <3>2, <3>4
    <3>6. ASSUME NEW j \in 1..Len(ring')
          PROVE  \A i \in 1..Len(active'.observed) :
                   ring'[j].id > verifyCursor' => active'.observed[i].n < ring'[j].n
      <4>1. CASE ring'[j].n = arrivals + 1
        BY <1>2, <3>1, <3>2, <3>3, <3>4, <4>1
      <4>2. CASE \E k \in 1..Len(ring) : ring'[j] = ring[k]
        BY <3>1, <3>2, <4>2
      <4> QED BY <1>1, <4>1, <4>2
    <3> QED BY <1>2, <3>1, <3>2, <3>3, <3>5, <3>6
  <2>3. ASSUME ~active'.relaunched, NEW j \in 1..Len(ring'), ring'[j].id > active'.anchor
        PROVE  active'.since < ring'[j].n
    <3>1. active' = active /\ active.since \in Nat /\ active.since <= arrivals
      BY DEF Inv, ActiveOK, Sound, Verification
    <3>2. CASE ring'[j].n = arrivals + 1
      BY <1>2, <3>1, <3>2
    <3>3. CASE \E k \in 1..Len(ring) : ring'[j] = ring[k]
      BY <2>3, <3>1, <3>3 DEF Inv, ActiveOK
    <3> QED BY <1>1, <3>2, <3>3
  <2>4. After(active')
    BY DEF Inv, ActiveOK
  <2> QED BY <2>1, <2>2, <2>3, <2>4 DEF ActiveOK, Sound
<1>4. VerdictOK' /\ RestOK'
  BY DEF Inv, VerdictOK, RestOK, Sound, InOrder, After
<1> QED BY <1>1, <1>3, <1>4 DEF Inv

LEMMA IdleIsSound ==
  Sound(Idle) /\ After(Idle) /\ InOrder(Idle)
<1>1. /\ Idle.observed = <<>> /\ Idle.sustained = 0 /\ Idle.gaps = 0 /\ Idle.verdict = "none"
      /\ Idle.anchor = 0 /\ Idle.since = 0 /\ Len(Idle.observed) = 0
  BY DEF Idle
<1>2. Idle \in Verification
  BY DEF Idle, Verification
<1>3. 0 < VerifyWindows
  BY DEF VerificationAssumption
<1> QED BY <1>1, <1>2, <1>3 DEF Sound, InOrder, After, Unbroken

\* The anchor is the greatest id of the baseline: until a relaunch, no window of the
\* ring is past it.
LEMMA AnchorIsNewest ==
  ASSUME RingOK, Len(Tail_(ring, BaselineWindows)) = BaselineWindows
  PROVE  LET anchor == Max({w.id : w \in Range(Tail_(ring, BaselineWindows))})
         IN /\ anchor \in Nat
            /\ restarts = 0 => \A j \in 1..Len(ring) : ring[j].id <= anchor
<1> DEFINE recent == Tail_(ring, BaselineWindows)
           ids == {w.id : w \in Range(recent)}
<1>1. /\ ring \in Seq(Windows) /\ Len(ring) \in Nat
      /\ BaselineWindows \in Nat /\ 1 <= BaselineWindows
      /\ \A i \in 1..Len(ring) : ring[i] \in Windows
  BY DEF RingOK, VerificationAssumption
<1>2. /\ recent \in Seq(Windows) /\ Len(recent) = BaselineWindows
      /\ Len(recent) = IF Len(ring) > BaselineWindows THEN BaselineWindows ELSE Len(ring)
      /\ \A i \in 1..Len(recent) : recent[i] = ring[Len(ring) - Len(recent) + i]
  BY <1>1, TailIsSuffix
<1> HIDE DEF recent
<1>3. recent = [i \in 1..Len(recent) |-> recent[i]]
  BY <1>2
<1>4. Range(recent) = {recent[i] : i \in 1..Len(recent)}
  BY <1>3 DEF Range
<1>5. \A w \in Range(recent) : w \in Windows /\ w.id \in Nat
  <2>1. \A i \in 1..Len(recent) : recent[i] \in Windows
    BY <1>2
  <2> QED BY <1>4, <2>1, WindowIsNumbered
<1>6. IsFiniteSet(ids)
  <2> DEFINE f == [i \in 1..Len(recent) |-> recent[i].id]
  <2>1. f = [i \in 1..Len(recent) |-> f[i]]
    OBVIOUS
  <2>2. Range(f) = ids
    BY <1>4 DEF Range
  <2> HIDE DEF f
  <2>3. IsFiniteSet(Range(f))
    BY <1>1, <1>2, <2>1, RangeIsFinite
  <2> QED BY <2>2, <2>3
<1>7. Len(recent) \in 1..Len(recent)
  BY <1>1, <1>2
<1>8. recent[Len(recent)] = ring[Len(ring)] /\ Len(ring) \in 1..Len(ring)
  <2>1. Len(ring) - Len(recent) + Len(recent) = Len(ring) /\ Len(ring) \in 1..Len(ring)
    BY <1>1, <1>2
  <2> QED BY <1>2, <1>7, <2>1
<1>9. ring[Len(ring)].id \in ids
  <2>1. recent[Len(recent)] \in Range(recent)
    BY <1>4, <1>7
  <2> QED BY <1>8, <2>1
<1>10. ids \in SUBSET Int /\ \A x \in ids : x \in Nat
  BY <1>5
<1>11. Max(ids) \in ids /\ \A y \in ids : y <= Max(ids)
  <2> HIDE DEF ids
  <2> QED BY <1>6, <1>9, <1>10, MaxIsGreatest
<1>12. restarts = 0 => \A j \in 1..Len(ring) : ring[j].id <= ring[Len(ring)].id
  <2> SUFFICES ASSUME restarts = 0, NEW j \in 1..Len(ring)
               PROVE  ring[j].id <= ring[Len(ring)].id
    OBVIOUS
  <2>1. ring[j].id \in Nat /\ ring[Len(ring)].id \in Nat
    BY <1>1, <1>8, WindowIsNumbered
  <2>2. j < Len(ring) => ring[j].id < ring[Len(ring)].id
    BY <1>8 DEF RingOK
  <2>3. j = Len(ring) \/ j < Len(ring)
    BY <1>1
  <2> QED BY <2>1, <2>2, <2>3
<1>13. Max(ids) \in Nat /\ ring[Len(ring)].id <= Max(ids) /\ ring[Len(ring)].id \in Nat
  BY <1>9, <1>10, <1>11
<1>14. restarts = 0 => \A j \in 1..Len(ring) : ring[j].id <= Max(ids)
  <2> SUFFICES ASSUME restarts = 0, NEW j \in 1..Len(ring)
               PROVE  ring[j].id <= Max(ids)
    OBVIOUS
  <2>1. ring[j].id \in Nat
    BY <1>1, WindowIsNumbered
  <2> HIDE DEF ids
  <2> QED BY <1>12, <1>13, <2>1
<1> HIDE DEF ids
<1>15. Max(ids) \in Nat /\ (restarts = 0 => \A j \in 1..Len(ring) : ring[j].id <= Max(ids))
  BY <1>13, <1>14
<1> QED BY <1>15 DEF ids, recent

LEMMA ApplyKeeps ==
  ASSUME Inv, Apply
  PROVE  Inv'
<1>1. UNCHANGED <<ring, arrivals, streamId, restarts, incident, detCursor, verdict>>
  BY DEF Apply, streamVars
<1>2. RingOK' /\ VerdictOK'
  BY <1>1 DEF Inv, RingOK, VerdictOK, Sound, InOrder, After
<1>3. RestOK'
  <2>1. acted' \in 0..Actions
    <3>1. acted \in 0..Actions /\ acted < Actions /\ acted' = acted + 1 /\ Actions \in Nat
      BY DEF Inv, RestOK, Apply, VerificationAssumption
    <3> QED BY <3>1
  <2>2. expired' = expired \/ expired' = FALSE
    BY DEF Apply
  <2> QED BY <1>1, <2>1, <2>2 DEF Inv, RestOK
<1>4. CASE UNCHANGED <<active, verifyCursor, expired>>
  BY <1>1, <1>2, <1>3, <1>4 DEF Inv, ActiveOK, Sound, InOrder, After
<1>5. CASE ~UNCHANGED <<active, verifyCursor, expired>>
  <2> DEFINE recent == Tail_(ring, BaselineWindows)
             anchor == Max({w.id : w \in Range(recent)})
  <2>1. /\ Len(recent) = BaselineWindows /\ verifyCursor' = 0
        /\ active' = [Idle EXCEPT !.anchor = anchor, !.since = arrivals,
                                  !.relaunched = restarts > 0,
                                  !.before = Summarise(recent), !.running = TRUE]
    BY <1>5 DEF Apply
  <2>2. anchor \in Nat /\ (restarts = 0 => \A j \in 1..Len(ring) : ring[j].id <= anchor)
    BY <2>1, AnchorIsNewest DEF Inv
  <2>3. Summarise(recent) \in [Services -> Ranks \cup {Unseen}]
    <3>1. recent \in Seq(Windows)
      BY TailIsSuffix DEF Inv, RingOK, VerificationAssumption
    <3>2. \A s \in Services : Summarise(recent)[s] \in Ranks \cup {Unseen}
      BY <3>1, SummariseSeen
    <3>3. Summarise(recent) = [s \in Services |-> Summarise(recent)[s]]
      BY DEF Summarise
    <3> QED BY <3>2, <3>3
  <2> HIDE DEF anchor, recent
  <2>4. /\ active'.anchor = anchor /\ active'.since = arrivals
        /\ active'.before = Summarise(recent) /\ active'.running = TRUE
        /\ active'.observed = <<>> /\ active'.sustained = 0 /\ active'.gaps = 0
        /\ active'.verdict = "none" /\ active'.relaunched = (restarts > 0)
    BY <2>1 DEF Idle
  <2>5. active' \in Verification
    <3>1. active' = [anchor |-> anchor, since |-> arrivals,
                     relaunched |-> restarts > 0, before |-> Summarise(recent),
                     observed |-> <<>>, sustained |-> 0, gaps |-> 0, verdict |-> "none",
                     running |-> TRUE]
      BY <2>1 DEF Idle
    <3>2. arrivals \in Nat
      BY DEF Inv, RingOK
    <3> QED BY <2>2, <2>3, <3>1, <3>2 DEF Verification
  <2>6. Sound(active') /\ After(active') /\ InOrder(active')
    BY <2>4, <2>5 DEF Sound, InOrder, After, Unbroken, VerificationAssumption
  <2>7. arrivals \in Nat /\ streamId \in Nat /\ \A j \in 1..Len(ring) : ring[j].id \in Nat
    <3>1. \A j \in 1..Len(ring) : ring[j] \in Windows
      BY DEF Inv, RingOK
    <3> QED BY <3>1, WindowIsNumbered DEF Inv, RingOK
  <2>8. ActiveOK'
    <3>1. /\ active'.since <= arrivals' /\ verifyCursor' \in Nat
          /\ active'.before \in [Services -> Ranks \cup {Unseen}]
      BY <1>1, <2>1, <2>3, <2>4, <2>7
    <3>2. verifyCursor' <= streamId' /\ Len(active'.observed) = 0
      BY <1>1, <2>1, <2>4, <2>7
    <3>3. ASSUME ~active'.relaunched
          PROVE  \A j \in 1..Len(ring') : ~(ring'[j].id > active'.anchor)
      <4>1. ring' = ring /\ active'.anchor = anchor /\ restarts = 0
        <5>1. ~(restarts > 0)
          BY <2>4, <3>3
        <5> QED BY <1>1, <2>4, <5>1 DEF Inv, RingOK
      <4>2. \A j \in 1..Len(ring) : ~(ring[j].id > anchor)
        BY <2>2, <2>7, <4>1
      <4> QED BY <4>1, <4>2
    <3> QED BY <2>4, <2>6, <3>1, <3>2, <3>3 DEF ActiveOK, Sound, InOrder
  <2> QED BY <1>2, <1>3, <2>8 DEF Inv
<1> QED BY <1>4, <1>5

\* A deadline that has passed makes it INCONCLUSIVE, and changes nothing else.
LEMMA ConcludedIsSound ==
  ASSUME NEW v, Sound(v), NEW u, u = Concluded(v)
  PROVE  /\ Sound(u) /\ Frame(u) = Frame(v) /\ u.observed = v.observed
         /\ u.verdict = "none" => u = v
         /\ (After(v) => After(u)) /\ (InOrder(v) => InOrder(u))
<1>1. v \in Verification
  BY DEF Sound
<1>2. CASE v.verdict = "none" /\ expired
  <2>1. u = [v EXCEPT !.verdict = "INCONCLUSIVE"]
    BY <1>2 DEF Concluded
  <2>2. /\ u \in Verification /\ Frame(u) = Frame(v)
        /\ u.observed = v.observed /\ u.gaps = v.gaps /\ u.sustained = v.sustained
        /\ u.verdict = "INCONCLUSIVE" /\ u.before = v.before /\ u.since = v.since
        /\ u.relaunched = v.relaunched
    BY <1>1, <2>1 DEF Verification, Verdicts, Frame
  <2> QED BY <2>2 DEF Sound, InOrder, After
<1>3. CASE ~(v.verdict = "none" /\ expired)
  BY <1>3 DEF Concluded
<1> QED BY <1>2, <1>3

LEMMA PumpKeeps ==
  ASSUME RingOK, ActiveOK, VerdictOK, Pump, active.running,
         UNCHANGED <<ring, arrivals, streamId, restarts>>
  PROVE  ActiveOK' /\ VerdictOK'
<1> DEFINE new   == Since(verifyCursor)
           seen  == Observe(active, new)
           final == Concluded(seen)
           after == CursorAfter(new, verifyCursor)
<1>1. /\ verifyCursor' = after
      /\ \/ final.verdict = "none" /\ active' = final /\ verdict' = verdict
         \/ final.verdict # "none" /\ active' = Idle /\ verdict' = final
  BY DEF Pump
<1>2. Kept(seen, new, Len(ring))
  BY ObserveKeeps
<1>3. verifyCursor \in Nat /\ after \in Nat /\ streamId \in Nat
  BY CursorMoves DEF ActiveOK, RingOK
<1>4. ASSUME restarts = 0
      PROVE  /\ after <= streamId
             /\ new # {} => after = streamId /\ streamId # 0
  BY <1>3, <1>4, CursorMoves DEF ActiveOK
<1>5. new = {} => after = verifyCursor
  BY DEF CursorAfter
<1> HIDE DEF new, seen, after
<1>6. /\ Sound(final) /\ After(final) /\ Frame(final) = Frame(active) /\ final.observed = seen.observed
      /\ final.verdict = "none" => final = seen
      /\ restarts = 0 => InOrder(final)
  <2>1. Sound(seen) /\ After(seen) /\ Frame(seen) = Frame(active) /\ (restarts = 0 => InOrder(seen))
    BY <1>2 DEF Kept
  <2> QED BY <2>1, ConcludedIsSound
<1> HIDE DEF final
<1>7. /\ final.since = active.since /\ final.before = active.before
      /\ final.anchor = active.anchor /\ final.running = TRUE
      /\ final.relaunched = active.relaunched
  <2>1. active.running \in BOOLEAN
    BY DEF ActiveOK, Sound, Verification
  <2> QED BY <1>6, <2>1 DEF Frame
<1>8. CASE final.verdict = "none"
  <2>1. active' = final /\ verdict' = verdict
    BY <1>1, <1>8
  <2>2. /\ Sound(active') /\ active'.verdict = "none" /\ (~active'.running => active' = Idle)
        /\ active'.running => active'.before \in [Services -> Ranks \cup {Unseen}]
        /\ active'.since <= arrivals' /\ verifyCursor' \in Nat /\ After(active')
        /\ ~active'.relaunched =>
             \A j \in 1..Len(ring') : ring'[j].id > active'.anchor => active'.since < ring'[j].n
    BY <1>1, <1>3, <1>6, <1>7, <1>8, <2>1 DEF ActiveOK
  <2>3. ASSUME restarts' = 0
        PROVE  /\ InOrder(active') /\ verifyCursor' <= streamId'
               /\ verifyCursor' = 0 => active'.observed = <<>>
               /\ \A i \in 1..Len(active'.observed) : active'.observed[i].n <= arrivals'
               /\ \A j \in 1..Len(ring'), i \in 1..Len(active'.observed) :
                    ring'[j].id > verifyCursor' => active'.observed[i].n < ring'[j].n
    <3>1. /\ active' = seen /\ verifyCursor' = after /\ restarts = 0 /\ InOrder(active')
          /\ ring' = ring /\ arrivals' = arrivals /\ streamId' = streamId
      BY <1>1, <1>6, <1>8, <2>1, <2>3
    <3>2. \A i \in 1..Len(seen.observed) : seen.observed[i].n <= arrivals
      BY <1>2, <3>1 DEF Kept
    <3>4. CASE new = {}
      <4>1. seen = active /\ after = verifyCursor
        BY <1>2, <1>5, <3>4 DEF Kept
      <4> QED BY <1>4, <1>7, <3>1, <3>2, <4>1 DEF ActiveOK
    <3>5. CASE new # {}
      <4>1. after = streamId /\ streamId # 0
        BY <1>4, <3>1, <3>5
      <4>2. \A j \in 1..Len(ring) : ring[j].id <= streamId /\ ring[j].id \in Nat
        <5>1. \A j \in 1..Len(ring) : ring[j] \in Windows
          BY DEF RingOK
        <5> QED BY <3>1, <5>1, WindowIsNumbered DEF RingOK
      <4>3. \A j \in 1..Len(ring) : ~(ring[j].id > after)
        BY <1>3, <4>1, <4>2
      <4>4. verifyCursor' <= streamId' /\ verifyCursor' # 0
        BY <1>3, <3>1, <4>1
      <4> QED BY <3>1, <3>2, <4>3, <4>4
    <3> QED BY <3>4, <3>5
  <2>4. ActiveOK'
    BY <2>2, <2>3 DEF ActiveOK, Sound
  <2>5. VerdictOK'
    BY <2>1 DEF VerdictOK, Sound, InOrder, After
  <2> QED BY <2>4, <2>5
<1>9. CASE final.verdict # "none"
  <2>1. active' = Idle /\ verdict' = final
    BY <1>1, <1>9
  <2>2. VerdictOK'
    BY <1>6, <2>1 DEF VerdictOK, Sound, InOrder, After
  <2>3. /\ Idle.verdict = "none" /\ ~Idle.running /\ Idle.since = 0 /\ Idle.observed = <<>>
        /\ Len(Idle.observed) = 0 /\ Idle.anchor = 0
    BY DEF Idle
  <2>4. ActiveOK'
    <3>1. Sound(active') /\ After(active') /\ InOrder(active') /\ verifyCursor' \in Nat /\ active'.since <= arrivals'
      BY <1>1, <1>3, <2>1, <2>3, IdleIsSound DEF RingOK
    <3>2. ASSUME restarts' = 0
          PROVE  verifyCursor' <= streamId'
      BY <1>1, <1>4, <3>2
    <3>3. \A j \in 1..Len(ring') : active'.since < ring'[j].n
      <4>1. \A j \in 1..Len(ring) : ring[j].n > 0
        <5>1. \A j \in 1..Len(ring) : ring[j] \in Windows
          BY DEF RingOK
        <5> QED BY <5>1 DEF Windows
      <4> QED BY <1>1, <2>1, <2>3, <4>1
    <3> QED BY <2>1, <2>3, <3>1, <3>2, <3>3 DEF ActiveOK, Sound, InOrder, After
  <2> QED BY <2>2, <2>4
<1> QED BY <1>8, <1>9

LEMMA TickKeeps ==
  ASSUME Inv, Tick
  PROVE  Inv'
<1>1. /\ UNCHANGED <<ring, arrivals, streamId, restarts, acted, expired>>
      /\ incident' \in {incident, TRUE} /\ detCursor' = CursorAfter(Since(detCursor), detCursor)
  BY DEF Tick, streamVars
<1>2. RingOK' /\ RingOK
  BY <1>1 DEF Inv, RingOK
<1>3. RestOK'
  <2>1. detCursor' \in Nat
    BY <1>1, <1>2, CursorMoves DEF Inv, RestOK
  <2> QED BY <1>1, <2>1 DEF Inv, RestOK
<1>4. CASE UNCHANGED <<active, verifyCursor, verdict>>
  BY <1>1, <1>2, <1>3, <1>4 DEF Inv, ActiveOK, VerdictOK, Sound, InOrder, After
<1>5. CASE active.running /\ Pump
  BY <1>1, <1>2, <1>3, <1>5, PumpKeeps DEF Inv
<1> QED BY <1>4, <1>5 DEF Tick

LEMMA ResetKeeps ==
  ASSUME Inv, Reset
  PROVE  Inv'
<1>1. /\ ring' = <<>> /\ incident' = FALSE /\ detCursor' = 0 /\ acted' = 0
      /\ active' = Idle /\ verifyCursor' = 0 /\ expired' = FALSE /\ verdict' = Idle
      /\ UNCHANGED <<arrivals, streamId, restarts>>
  BY DEF Reset
<1>2. RingOK'
  BY <1>1 DEF Inv, RingOK, VerificationAssumption
<1>3. /\ Idle.verdict = "none" /\ ~Idle.running /\ Idle.since = 0 /\ Idle.observed = <<>>
      /\ Len(Idle.observed) = 0
  BY DEF Idle
<1>4. ActiveOK' /\ VerdictOK'
  <2>1. Sound(active') /\ InOrder(active') /\ Sound(verdict') /\ InOrder(verdict')
    BY <1>1, IdleIsSound
  <2>2. /\ Len(ring') = 0 /\ active'.since <= arrivals' /\ verifyCursor' <= streamId'
        /\ verifyCursor' \in Nat
    BY <1>1, <1>3 DEF Inv, RingOK
  <2> QED BY <1>1, <1>3, <2>1, <2>2 DEF ActiveOK, VerdictOK, Sound, InOrder, After
<1>5. RestOK'
  <2>1. 0 \in 0..Actions
    BY DEF VerificationAssumption
  <2> QED BY <1>1, <2>1 DEF RestOK
<1> QED BY <1>2, <1>4, <1>5 DEF Inv

LEMMA InitHolds == Init => Inv
<1> SUFFICES ASSUME Init PROVE Inv
  OBVIOUS
<1>1. RingOK
  BY DEF Init, RingOK, VerificationAssumption
<1>2. /\ Idle.verdict = "none" /\ ~Idle.running /\ Idle.since = 0 /\ Idle.observed = <<>>
      /\ Len(Idle.observed) = 0
  BY DEF Idle
<1>3. ActiveOK /\ VerdictOK
  BY <1>2, IdleIsSound DEF Init, ActiveOK, VerdictOK
<1>4. RestOK
  <2>1. 0 \in 0..Actions
    BY DEF VerificationAssumption
  <2> QED BY <2>1 DEF Init, RestOK
<1> QED BY <1>1, <1>3, <1>4 DEF Inv

LEMMA NextKeeps == Inv /\ [Next]_vars => Inv'
<1> SUFFICES ASSUME Inv, [Next]_vars PROVE Inv'
  OBVIOUS
<1>1. arrivals \in Nat /\ streamId \in Nat /\ restarts \in Nat
  BY DEF Inv, RingOK
<1>2. CASE Arrive
  <2>1. PICK skipped \in 0..MaxGap : Push(streamId + 1 + skipped)
    BY <1>2 DEF Arrive
  <2>2. streamId + 1 + skipped \in Nat \ {0} /\ streamId < streamId + 1 + skipped
    BY <1>1 DEF VerificationAssumption
  <2>3. /\ restarts' = restarts
        /\ UNCHANGED <<incident, detCursor, acted, active, verifyCursor, expired, verdict>>
    BY <1>2 DEF Arrive
  <2> QED BY <1>1, <2>1, <2>2, <2>3, DeliveryKeeps
<1>3. CASE Restart
  <2>1. /\ Push(1) /\ restarts' \in Nat /\ restarts' # 0
        /\ UNCHANGED <<incident, detCursor, acted, active, verifyCursor, expired, verdict>>
    BY <1>1, <1>3 DEF Restart
  <2>2. 1 \in Nat \ {0}
    OBVIOUS
  <2> QED BY <2>1, <2>2, DeliveryKeeps
<1>4. CASE Apply
  BY <1>4, ApplyKeeps
<1>5. CASE DeadlinePasses
  <2>1. /\ UNCHANGED <<ring, arrivals, streamId, restarts, incident, detCursor, acted, active,
                       verifyCursor, verdict>>
        /\ expired' = TRUE
    BY <1>5 DEF DeadlinePasses, streamVars
  <2> QED BY <2>1 DEF Inv, RingOK, ActiveOK, VerdictOK, RestOK, Sound, InOrder, After
<1>6. CASE Tick
  BY <1>6, TickKeeps
<1>7. CASE Reset
  BY <1>7, ResetKeeps
<1>8. CASE UNCHANGED vars
  BY <1>8 DEF vars, streamVars, Inv, RingOK, ActiveOK, VerdictOK, RestOK, Sound, InOrder, After
<1> QED BY <1>2, <1>3, <1>4, <1>5, <1>6, <1>7, <1>8 DEF Next

LEMMA Invariant == Spec => []Inv
BY InitHolds, NextKeeps, PTL DEF Spec

-----------------------------------------------------------------------------
(* The theorems *)

\* Every variable stays in its domain, and the ring within its size.
THEOREM TypeCorrect == Spec => []TypeOK
<1>1. Inv => TypeOK
  <2> SUFFICES ASSUME Inv PROVE TypeOK
    OBVIOUS
  <2>1. ring \in Seq(Windows) /\ Len(ring) <= RingSize /\ streamId \in Nat
    BY DEF Inv, RingOK
  <2>2. /\ active \in Verification /\ verdict \in Verification /\ verifyCursor \in Nat
        /\ Len(active.observed) < VerifyWindows
    BY DEF Inv, ActiveOK, VerdictOK, Sound
  <2>3. detCursor \in Nat /\ {incident, expired} \subseteq BOOLEAN /\ acted \in 0..Actions
    BY DEF Inv, RestOK
  <2> QED BY <2>1, <2>2, <2>3 DEF TypeOK
<1> QED BY Invariant, <1>1, PTL

\* Whatever the stream loses, an action is blamed only on a full budget of windows
\* whose ids follow one another; the first of them need not follow the anchor.
THEOREM BlameIsUnbrokenAlways == Spec => []BlameIsUnbroken
<1>1. Inv => BlameIsUnbroken
  BY DEF Inv, VerdictOK, Sound, Unbroken, BlameIsUnbroken
<1> QED BY Invariant, <1>1, PTL

\* Unless the stream was relaunched before the action, what is observed was delivered
\* after it, whatever is relaunched and replayed later.
THEOREM EvidenceAlways == Spec => []EvidenceFollowsAction
<1>1. Inv => EvidenceFollowsAction
  <2> SUFFICES ASSUME Inv, NEW v \in {active, verdict}, ~v.relaunched, NEW w \in Range(v.observed)
               PROVE  w.n > v.since
    BY DEF EvidenceFollowsAction
  <2>1. After(v) /\ Sound(v)
    BY DEF Inv, ActiveOK, VerdictOK
  <2>2. v.since \in Nat /\ v.observed \in Seq(Windows)
    BY <2>1 DEF Sound, Verification
  <2>3. PICK i \in 1..Len(v.observed) : w = v.observed[i]
    BY <2>2 DEF Range
  <2>4. w \in Windows
    BY <2>2, <2>3
  <2> QED BY <2>1, <2>2, <2>3, <2>4, WindowIsNumbered DEF After
<1> QED BY Invariant, <1>1, PTL

\* Until a relaunch, RECOVERED rests on SustainWindows distinct windows that show each
\* service predicted to recover healthy, and never otherwise.
THEOREM RecoveredAlways == Spec => []RecoveredIsSustained
<1>1. Inv => RecoveredIsSustained
  <2> DEFINE tail == Tail_(verdict.observed, SustainWindows)
  <2> SUFFICES ASSUME Inv, restarts = 0, verdict.verdict = "RECOVERED"
               PROVE  /\ Cardinality({w.n : w \in Range(tail)}) = SustainWindows
                      /\ \A s \in Recovers :
                           /\ \A w \in Range(tail) : w.svc[s] \in {0, Unseen}
                           /\ \E w \in Range(tail) : w.svc[s] = 0
    BY DEF RecoveredIsSustained
  <2>1. /\ verdict.observed \in Seq(Windows) /\ Len(verdict.observed) \in Nat
        /\ SustainWindows <= Len(verdict.observed) /\ SustainWindows \in Nat
        /\ Classify(verdict.before, Summarise(tail)) = "RECOVERED" /\ InOrder(verdict)
    BY DEF Inv, VerdictOK, Sound, Verification, VerificationAssumption
  <2>2. /\ tail \in Seq(Windows) /\ Len(tail) = SustainWindows
        /\ \A i \in 1..Len(tail) :
             tail[i] = verdict.observed[Len(verdict.observed) - Len(tail) + i]
    <3>1. /\ tail \in Seq(Windows)
          /\ Len(tail) = IF Len(verdict.observed) > SustainWindows THEN SustainWindows
                         ELSE Len(verdict.observed)
          /\ \A i \in 1..Len(tail) :
               tail[i] = verdict.observed[Len(verdict.observed) - Len(tail) + i]
      BY <2>1, TailIsSuffix
    <3> HIDE DEF tail
    <3>2. Len(tail) = SustainWindows
      BY <2>1, <3>1
    <3> QED BY <3>1, <3>2
  <2> HIDE DEF tail
  <2>3. Range(tail) = {tail[i] : i \in 1..Len(tail)}
    <3>1. DOMAIN tail = 1..Len(tail)
      BY <2>2
    <3> QED BY <3>1 DEF Range
  <2>4. ASSUME NEW s \in Recovers
        PROVE  /\ \A w \in Range(tail) : w.svc[s] \in {0, Unseen}
               /\ \E w \in Range(tail) : w.svc[s] = 0
    <3>1. Summarise(tail)[s] = 0 /\ s \in Services
      BY <2>1, RecoveredMeansHealthy DEF VerificationAssumption
    <3>2. /\ \E i \in 1..Len(tail) : tail[i].svc[s] = 0
          /\ \A i \in 1..Len(tail) : tail[i].svc[s] \in {0, Unseen}
      BY <2>2, <3>1, SummariseSeen
    <3> QED BY <2>3, <3>2
  <2>5. \A i, j \in 1..Len(tail) : tail[i].n = tail[j].n => i = j
    <3>1. PICK d \in Nat : d = Len(verdict.observed) - Len(tail)
      <4>1. Len(verdict.observed) - Len(tail) \in Nat
        BY <2>1, <2>2
      <4> QED BY <4>1
    <3>2. ASSUME NEW i \in 1..Len(tail), NEW j \in 1..Len(tail), i < j
          PROVE  tail[i].n < tail[j].n
      <4>1. d + i \in 1..Len(verdict.observed) /\ d + j \in 1..Len(verdict.observed) /\ d + i < d + j
        <5>1. PICK m \in Nat, k \in Nat : m = Len(verdict.observed) /\ k = Len(tail)
          BY <2>1, <2>2
        <5>2. i \in 1..k /\ j \in 1..k /\ d = m - k
          BY <3>1, <5>1
        <5>3. d + i \in 1..m /\ d + j \in 1..m /\ d + i < d + j
          BY <3>2, <5>2
        <5> QED BY <5>1, <5>3
      <4>2. tail[i] = verdict.observed[d + i] /\ tail[j] = verdict.observed[d + j]
        BY <2>2, <3>1
      <4> QED BY <2>1, <4>1, <4>2 DEF InOrder
    <3>3. ASSUME NEW i \in 1..Len(tail)
          PROVE  tail[i].n \in Nat
      <4>1. tail[i] \in Windows
        BY <2>2
      <4> QED BY <4>1, WindowIsNumbered
    <3>4. \A i, j \in 1..Len(tail) : i = j \/ i < j \/ j < i
      BY <2>1, <2>2
    <3>5. \A i, j \in 1..Len(tail) : i < j => tail[i].n # tail[j].n
      BY <3>2, <3>3
    <3> QED BY <3>4, <3>5
  <2>6. Cardinality({w.n : w \in Range(tail)}) = SustainWindows
    <3> DEFINE f == [i \in 1..Len(tail) |-> tail[i].n]
    <3>1. /\ f = [i \in 1..Len(tail) |-> f[i]] /\ Len(tail) \in Nat
          /\ \A i, j \in 1..Len(tail) : f[i] = f[j] => i = j
      BY <2>1, <2>2, <2>5
    <3>2. Range(f) = {w.n : w \in Range(tail)}
      BY <2>3 DEF Range
    <3> HIDE DEF f
    <3>3. Cardinality(Range(f)) = Len(tail)
      BY <3>1, RangeIsFinite
    <3> QED BY <2>2, <3>2, <3>3
  <2> QED BY <2>4, <2>6
<1> QED BY Invariant, <1>1, PTL

=============================================================================
