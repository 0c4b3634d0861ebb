--------------------------- MODULE Semaphore_proofs ---------------------------
(***************************************************************************)
(* For every set of queries and every pool and queue size: the semaphore's   *)
(* permits are conserved, none lies idle while a query waits, the oldest     *)
(* waiter is served first, and it implements the abstract pool of PermitPool. *)
(***************************************************************************)
EXTENDS Semaphore, FiniteSetTheorems, SequenceTheorems, TLAPS

USE DEF Queued, Phases

\* The invariant is inductive as it stands: NoIdlePermit is what keeps a
\* release from lowering inUse with somebody waiting, and QueueIsExact is what
\* makes the head of the queue a query that waits.
Inv == TypeOK /\ QueueIsExact /\ PermitsConserved /\ NoIdlePermit

-----------------------------------------------------------------------------
\* Changing the phase of one query adds it to one set and takes it from another.
LEMMA InFinite ==
  ASSUME SemaphoreAssumption
  PROVE  \A p : IsFiniteSet(In(p)) /\ Cardinality(In(p)) \in Nat
<1>1. \A p : In(p) \subseteq Queries
  BY DEF In
<1> QED BY <1>1, FS_Subset, FS_CardinalityType DEF SemaphoreAssumption

\* The effect on the queue of waiters.splice(k, 1).
LEMMA SpliceRemoves ==
  ASSUME waiters \in Seq(Queries), NEW k \in 1..Len(waiters),
         \A i, j \in 1..Len(waiters) : waiters[i] = waiters[j] => i = j
  PROVE  /\ Without(k) \in Seq(Queries)
         /\ Len(Without(k)) = Len(waiters) - 1
         /\ \A i \in 1..Len(waiters) - 1 :
              Without(k)[i] = IF i < k THEN waiters[i] ELSE waiters[i + 1]
         /\ {Without(k)[i] : i \in 1..Len(waiters) - 1} = Queued \ {waiters[k]}
<1> DEFINE n == Len(waiters) - 1
<1>1. n \in Nat /\ Len(waiters) \in Nat /\ k \in Nat /\ k >= 1 /\ k <= n + 1
  OBVIOUS
<1>2. \A i \in 1..n : /\ i \in 1..Len(waiters) /\ i + 1 \in 1..Len(waiters)
                      /\ Without(k)[i] = IF i < k THEN waiters[i] ELSE waiters[i + 1]
  BY <1>1 DEF Without
<1>3. \A i \in 1..Len(waiters) : waiters[i] \in Queries
  OBVIOUS
<1>4. Without(k) \in [1..n -> Queries]
  BY <1>1, <1>2, <1>3 DEF Without
<1>5. Without(k) \in Seq(Queries) /\ Len(Without(k)) = n
  <2>1. Without(k) \in Seq(Queries)
    BY <1>1, <1>4, SeqDef
  <2>2. DOMAIN Without(k) = 1..n /\ DOMAIN Without(k) = 1..Len(Without(k))
    BY <1>4, <2>1, LenProperties
  <2>3. Len(Without(k)) \in Nat
    BY <2>1
  <2> QED BY <2>1, <2>2, <2>3, <1>1
<1>6. ASSUME NEW x
      PROVE  (\E i \in 1..n : Without(k)[i] = x)
               <=> (\E j \in 1..Len(waiters) : waiters[j] = x /\ j # k)
  <2>1. ASSUME NEW i \in 1..n, Without(k)[i] = x
        PROVE  \E j \in 1..Len(waiters) : waiters[j] = x /\ j # k
    <3>1. CASE i < k
      BY <3>1, <2>1, <1>2
    <3>2. CASE ~(i < k)
      <4>1. i + 1 # k /\ i + 1 \in 1..Len(waiters) /\ waiters[i + 1] = x
        BY <3>2, <2>1, <1>1, <1>2
      <4> QED BY <4>1
    <3> QED BY <3>1, <3>2
  <2>2. ASSUME NEW j \in 1..Len(waiters), waiters[j] = x, j # k
        PROVE  \E i \in 1..n : Without(k)[i] = x
    <3>1. CASE j < k
      <4>1. j \in 1..n
        BY <3>1, <1>1
      <4> QED BY <4>1, <3>1, <2>2, <1>2
    <3>2. CASE j > k
      <4>1. j - 1 \in 1..n /\ ~(j - 1 < k) /\ (j - 1) + 1 = j
        BY <3>2, <1>1
      <4> QED BY <4>1, <2>2, <1>2
    <3> QED BY <3>1, <3>2, <2>2, <1>1
  <2> QED BY <2>1, <2>2
<1>7. {Without(k)[i] : i \in 1..n} = Queued \ {waiters[k]}
  <2>1. \A x : x \in Queued \ {waiters[k]}
                <=> \E j \in 1..Len(waiters) : waiters[j] = x /\ j # k
    OBVIOUS
  <2>2. \A x : x \in {Without(k)[i] : i \in 1..n} <=> \E i \in 1..n : Without(k)[i] = x
    OBVIOUS
  <2> HIDE DEF n
  <2> QED BY <1>6, <2>1, <2>2
<1> QED BY <1>2, <1>5, <1>7

-----------------------------------------------------------------------------
LEMMA InvInit == SemaphoreAssumption /\ Init => Inv
<1> SUFFICES ASSUME SemaphoreAssumption, Init PROVE Inv
  OBVIOUS
<1>1. In("holding") = {} /\ In("waiting") = {}
  BY DEF Init, In
<1>2. Cardinality(In("holding")) = 0
  BY <1>1, FS_EmptySet
<1>3. Queued = {} /\ Len(waiters) = 0
  BY DEF Init
<1> QED BY <1>1, <1>2, <1>3
        DEF Init, Inv, TypeOK, QueueIsExact, PermitsConserved, NoIdlePermit,
            SemaphoreAssumption

LEMMA InvTakePermit ==
  SemaphoreAssumption /\ Inv =>
    \A q \in Queries : phase[q] = "new" /\ TakePermit(q) => Inv'
<1> SUFFICES ASSUME SemaphoreAssumption, Inv, NEW q \in Queries,
                    phase[q] = "new", TakePermit(q)
             PROVE  Inv'
  OBVIOUS
<1>1. In("holding")' = In("holding") \cup {q} /\ In("waiting")' = In("waiting") \ {q}
  <2>1. phase \in [Queries -> Phases] /\ phase' = [phase EXCEPT ![q] = "holding"]
    BY DEF Inv, TypeOK, TakePermit
  <2> QED BY <2>1 DEF In
<1>2. q \notin In("holding") /\ q \notin In("waiting")
  BY DEF In
<1>3. Cardinality(In("holding"))' = Cardinality(In("holding")) + 1
  BY <1>1, <1>2, InFinite, FS_AddElement
<1>4. TypeOK'
  BY DEF Inv, TypeOK, TakePermit
<1>5. QueueIsExact'
  BY <1>1, <1>2 DEF Inv, QueueIsExact, TakePermit
<1>6. PermitsConserved' /\ NoIdlePermit'
  BY <1>3 DEF Inv, TypeOK, PermitsConserved, NoIdlePermit, TakePermit, SemaphoreAssumption
<1> QED BY <1>4, <1>5, <1>6 DEF Inv

LEMMA InvRefuse ==
  SemaphoreAssumption /\ Inv =>
    \A q \in Queries : phase[q] = "new" /\ Refuse(q) => Inv'
<1> SUFFICES ASSUME SemaphoreAssumption, Inv, NEW q \in Queries,
                    phase[q] = "new", Refuse(q)
             PROVE  Inv'
  OBVIOUS
<1>1. In("holding")' = In("holding") /\ In("waiting")' = In("waiting")
  <2>1. phase \in [Queries -> Phases] /\ phase' = [phase EXCEPT ![q] = "refused"]
    BY DEF Inv, TypeOK, Refuse
  <2> QED BY <2>1 DEF In
<1>2. TypeOK'
  BY DEF Inv, TypeOK, Refuse
<1> QED BY <1>1, <1>2
        DEF Inv, QueueIsExact, PermitsConserved, NoIdlePermit, Refuse

LEMMA InvEnqueue ==
  SemaphoreAssumption /\ Inv =>
    \A q \in Queries : phase[q] = "new" /\ Enqueue(q) => Inv'
<1> SUFFICES ASSUME SemaphoreAssumption, Inv, NEW q \in Queries,
                    phase[q] = "new", Enqueue(q)
             PROVE  Inv'
  OBVIOUS
<1>1. In("holding")' = In("holding") /\ In("waiting")' = In("waiting") \cup {q}
  <2>1. phase \in [Queries -> Phases] /\ phase' = [phase EXCEPT ![q] = "waiting"]
    BY DEF Inv, TypeOK, Enqueue
  <2> QED BY <2>1 DEF In
<1>2. q \notin In("waiting") /\ q \notin Queued
  BY DEF In, Inv, QueueIsExact
<1>3. /\ waiters' = Append(waiters, q) /\ waiters' \in Seq(Queries)
      /\ Len(waiters') = Len(waiters) + 1 /\ waiters'[Len(waiters) + 1] = q
      /\ \A i \in 1..Len(waiters) : waiters'[i] = waiters[i]
  BY DEF Enqueue, Inv, TypeOK
<1>4. Len(waiters) \in Nat /\ Len(waiters) < QueueMax
  BY DEF Enqueue, QueueFull, Inv, TypeOK, SemaphoreAssumption
<1>5. TypeOK'
  <2>1. Cardinality({r \in Queries : order[r] # 0}) + 1 \in Nat
    BY FS_Subset, FS_CardinalityType DEF SemaphoreAssumption
  <2> QED BY <1>3, <2>1 DEF Inv, TypeOK, Enqueue, counters
<1>6. Queued' = Queued \cup {q}
  BY <1>3, <1>4
<1>7. \A i, j \in 1..Len(waiters') : waiters'[i] = waiters'[j] => i = j
  <2> TAKE i, j \in 1..Len(waiters')
  <2>1. i \in 1..Len(waiters) \/ i = Len(waiters) + 1
    BY <1>3, <1>4
  <2>2. j \in 1..Len(waiters) \/ j = Len(waiters) + 1
    BY <1>3, <1>4
  <2> QED BY <2>1, <2>2, <1>2, <1>3 DEF Inv, QueueIsExact
<1>8. QueueIsExact'
  BY <1>1, <1>3, <1>4, <1>6, <1>7 DEF Inv, QueueIsExact, SemaphoreAssumption
<1>9. PermitsConserved' /\ NoIdlePermit'
  BY <1>1 DEF Inv, TypeOK, PermitsConserved, NoIdlePermit, Enqueue, SemaphoreAssumption
<1> QED BY <1>5, <1>8, <1>9 DEF Inv

LEMMA InvHandOver ==
  SemaphoreAssumption /\ Inv =>
    \A q \in Queries : phase[q] = "holding" /\ HandOver(q) => Inv'
<1> SUFFICES ASSUME SemaphoreAssumption, Inv, NEW q \in Queries,
                    phase[q] = "holding", HandOver(q)
             PROVE  Inv'
  OBVIOUS
<1> DEFINE h == Head(waiters)
<1>1. /\ h \in Queries /\ h = waiters[1] /\ 1 \in 1..Len(waiters)
      /\ waiters' \in Seq(Queries) /\ Len(waiters') = Len(waiters) - 1
      /\ \A i \in 1..Len(waiters') : waiters'[i] = waiters[i + 1]
      /\ Len(waiters) \in Nat
  BY HeadTailProperties, LenProperties DEF HandOver, Inv, TypeOK
<1>2. h \in In("waiting") /\ h # q /\ phase[h] = "waiting"
  BY <1>1 DEF Inv, QueueIsExact, In
<1>3. phase' = [phase EXCEPT ![q] = "done", ![h] = "holding"]
  BY DEF HandOver
<1>4. In("holding")' = (In("holding") \ {q}) \cup {h}
  BY <1>1, <1>2, <1>3 DEF Inv, TypeOK, In
<1>5. In("waiting")' = In("waiting") \ {h}
  BY <1>1, <1>2, <1>3 DEF Inv, TypeOK, In
<1>6. Cardinality(In("holding"))' = Cardinality(In("holding"))
  <2>1. q \in In("holding") /\ h \notin In("holding") \ {q}
    BY <1>2 DEF In
  <2>2. /\ IsFiniteSet(In("holding") \ {q})
        /\ Cardinality(In("holding") \ {q}) = Cardinality(In("holding")) - 1
    BY <2>1, InFinite, FS_RemoveElement
  <2>3. Cardinality((In("holding") \ {q}) \cup {h}) = Cardinality(In("holding") \ {q}) + 1
    BY <2>1, <2>2, FS_AddElement
  <2>4. Cardinality(In("holding")) \in Nat
    BY InFinite
  <2> QED BY <1>4, <2>2, <2>3, <2>4
<1>7. TypeOK'
  BY <1>1, <1>3 DEF Inv, TypeOK, HandOver
<1>8. Queued' = Queued \ {h}
  <2>1. \A x : x \in Queued' => x \in Queued /\ x # h
    <3> SUFFICES ASSUME NEW i \in 1..Len(waiters')
                 PROVE  waiters'[i] \in Queued /\ waiters'[i] # h
      OBVIOUS
    <3>1. i + 1 \in 1..Len(waiters) /\ waiters'[i] = waiters[i + 1]
      BY <1>1
    <3> QED BY <3>1, <1>1 DEF Inv, QueueIsExact
  <2>2. \A x : x \in Queued /\ x # h => x \in Queued'
    <3> SUFFICES ASSUME NEW j \in 1..Len(waiters), waiters[j] # h
                 PROVE  waiters[j] \in Queued'
      OBVIOUS
    <3>1. j - 1 \in 1..Len(waiters') /\ waiters'[j - 1] = waiters[j]
      BY <1>1
    <3> QED BY <3>1
  <2> QED BY <2>1, <2>2
<1>9. \A i, j \in 1..Len(waiters') : waiters'[i] = waiters'[j] => i = j
  <2> TAKE i, j \in 1..Len(waiters')
  <2>1. i + 1 \in 1..Len(waiters) /\ j + 1 \in 1..Len(waiters)
    BY <1>1
  <2> QED BY <1>1, <2>1 DEF Inv, QueueIsExact
<1>10. QueueIsExact'
  <2>1. Queued' = In("waiting")'
    BY <1>5, <1>8 DEF Inv, QueueIsExact
  <2>2. Len(waiters') <= QueueMax
    BY <1>1 DEF Inv, QueueIsExact, SemaphoreAssumption
  <2> QED BY <2>1, <2>2, <1>9 DEF QueueIsExact
<1>11. PermitsConserved' /\ NoIdlePermit'
  BY <1>6 DEF Inv, PermitsConserved, NoIdlePermit, HandOver
<1> QED BY <1>7, <1>10, <1>11 DEF Inv

LEMMA InvGiveBack ==
  SemaphoreAssumption /\ Inv =>
    \A q \in Queries : phase[q] = "holding" /\ GiveBack(q) => Inv'
<1> SUFFICES ASSUME SemaphoreAssumption, Inv, NEW q \in Queries,
                    phase[q] = "holding", GiveBack(q)
             PROVE  Inv'
  OBVIOUS
<1>1. In("holding")' = In("holding") \ {q} /\ In("waiting")' = In("waiting")
  <2>1. phase \in [Queries -> Phases] /\ phase' = [phase EXCEPT ![q] = "done"]
    BY DEF Inv, TypeOK, GiveBack
  <2> QED BY <2>1 DEF In
<1>2. q \in In("holding")
  BY DEF In
<1>3. /\ Cardinality(In("holding"))' = Cardinality(In("holding")) - 1
      /\ Cardinality(In("holding"))' \in Nat
  <2>1. Cardinality(In("holding") \ {q}) = Cardinality(In("holding")) - 1
    BY <1>2, InFinite, FS_RemoveElement
  <2>2. Cardinality(In("holding") \ {q}) \in Nat
    BY InFinite, FS_RemoveElement, FS_CardinalityType
  <2> QED BY <1>1, <2>1, <2>2
<1>4. TypeOK' /\ PermitsConserved' /\ NoIdlePermit'
  BY <1>3 DEF Inv, TypeOK, PermitsConserved, NoIdlePermit, GiveBack, counters,
              SemaphoreAssumption
<1>5. QueueIsExact'
  BY <1>1 DEF Inv, QueueIsExact, GiveBack
<1> QED BY <1>4, <1>5 DEF Inv

LEMMA InvTimeOut ==
  SemaphoreAssumption /\ Inv => \A q \in Queries : TimeOut(q) => Inv'
<1> SUFFICES ASSUME SemaphoreAssumption, Inv, NEW q \in Queries, TimeOut(q)
             PROVE  Inv'
  OBVIOUS
<1>1. PICK k \in 1..Len(waiters) : waiters[k] = q /\ waiters' = Without(k)
  BY DEF TimeOut, LeaveQueue
<1>2. /\ waiters' \in Seq(Queries) /\ Len(waiters') = Len(waiters) - 1
      /\ \A i \in 1..Len(waiters) - 1 :
           waiters'[i] = IF i < k THEN waiters[i] ELSE waiters[i + 1]
      /\ Queued' = Queued \ {q}
  <2>1. /\ Without(k) \in Seq(Queries)
        /\ Len(Without(k)) = Len(waiters) - 1
        /\ \A i \in 1..Len(waiters) - 1 :
             Without(k)[i] = IF i < k THEN waiters[i] ELSE waiters[i + 1]
        /\ {Without(k)[i] : i \in 1..Len(waiters) - 1} = Queued \ {waiters[k]}
    BY SpliceRemoves DEF Inv, TypeOK, QueueIsExact
  <2>2. Queued' = {Without(k)[i] : i \in 1..Len(waiters) - 1}
    BY <1>1, <2>1
  <2> QED BY <1>1, <2>1, <2>2
<1>3. phase[q] = "waiting"
  BY <1>1 DEF Inv, QueueIsExact, In
<1>4. In("holding")' = In("holding") /\ In("waiting")' = In("waiting") \ {q}
  <2>1. phase \in [Queries -> Phases] /\ phase' = [phase EXCEPT ![q] = "refused"]
    BY DEF Inv, TypeOK, TimeOut
  <2> QED BY <1>3, <2>1 DEF In
<1>5. TypeOK'
  BY <1>2 DEF Inv, TypeOK, TimeOut
<1>6. \A i, j \in 1..Len(waiters') : waiters'[i] = waiters'[j] => i = j
  <2> TAKE i, j \in 1..Len(waiters')
  <2> DEFINE at(n) == IF n < k THEN n ELSE n + 1
  <2>1. /\ at(i) \in 1..Len(waiters) /\ at(j) \in 1..Len(waiters)
        /\ waiters'[i] = waiters[at(i)] /\ waiters'[j] = waiters[at(j)]
    BY <1>2
  <2>2. at(i) = at(j) => i = j
    BY <1>2
  <2> HIDE DEF at
  <2> QED BY <2>1, <2>2 DEF Inv, QueueIsExact
<1>7. QueueIsExact'
  <2>1. Queued' = In("waiting")'
    BY <1>2, <1>4 DEF Inv, QueueIsExact
  <2>2. Len(waiters') <= QueueMax
    BY <1>2 DEF Inv, TypeOK, QueueIsExact, SemaphoreAssumption
  <2> QED BY <2>1, <2>2, <1>6 DEF QueueIsExact
<1>8. PermitsConserved' /\ NoIdlePermit'
  BY <1>1, <1>4 DEF Inv, PermitsConserved, NoIdlePermit, TimeOut
<1> QED BY <1>5, <1>7, <1>8 DEF Inv

LEMMA InvStutter ==
  Inv /\ (ResetStats \/ UNCHANGED vars) => Inv'
<1> SUFFICES ASSUME Inv, ResetStats \/ UNCHANGED vars PROVE Inv'
  OBVIOUS
<1>1. In("holding")' = In("holding") /\ In("waiting")' = In("waiting")
  BY DEF ResetStats, vars, In
<1>2. TypeOK'
  BY DEF Inv, TypeOK, ResetStats, vars, counters
<1> QED BY <1>1, <1>2
        DEF Inv, QueueIsExact, PermitsConserved, NoIdlePermit, ResetStats, vars

LEMMA InvStep ==
  SemaphoreAssumption /\ Inv /\ [Next]_vars => Inv'
BY InvTakePermit, InvRefuse, InvEnqueue, InvHandOver, InvGiveBack, InvTimeOut,
   InvStutter DEF Next, Acquire, Release

\* inUse counts the holders and stays within the pool, the queue holds exactly
\* the waiting queries, and no permit is idle while one waits, for every number
\* of queries, permits and queue slots (semaphore.js acquire, release, timer).
THEOREM PermitsSafe ==
  Spec => [](TypeOK /\ QueueIsExact /\ PermitsConserved /\ NoIdlePermit)
<1>1. Init => Inv
  BY InvInit, SemaphoreAssumption
<1>2. Inv /\ [Next]_vars => Inv'
  BY InvStep, SemaphoreAssumption
<1>3. Inv => TypeOK /\ QueueIsExact /\ PermitsConserved /\ NoIdlePermit
  BY DEF Inv
<1> QED BY <1>1, <1>2, <1>3, PTL DEF Spec

\* No permit is idle while a query waits (semaphore.js release hands it over).
THEOREM NoIdlePermitAlways == Spec => []NoIdlePermit
BY PermitsSafe, PTL

\* The counters and the queue keep their domains, whatever times out or resets.
THEOREM TypeCorrect == Spec => []TypeOK
BY PermitsSafe, PTL

-----------------------------------------------------------------------------
(* The oldest waiter is served first *)

Ranked == {r \in Queries : order[r] # 0}

\* The queue is sorted by arrival: a query that has not asked has no rank, and
\* no rank exceeds the number of ranks, so one that joins ranks above them all.
OrderInv ==
  /\ \A i, j \in 1..Len(waiters) : i < j => order[waiters[i]] < order[waiters[j]]
  /\ \A r \in Queries : phase[r] = "new" => order[r] = 0
  /\ \A r \in Queries : order[r] <= Cardinality(Ranked)

LEMMA OrderInit == SemaphoreAssumption /\ Init => OrderInv
<1> SUFFICES ASSUME SemaphoreAssumption, Init PROVE OrderInv
  OBVIOUS
<1>1. Ranked = {} /\ Cardinality(Ranked) = 0
  <2>1. Ranked = {}
    BY DEF Ranked, Init
  <2> QED BY <2>1, FS_EmptySet
<1> QED BY <1>1 DEF Init, OrderInv

\* A query that joins the queue ranks above every query that joined before.
LEMMA OrderEnqueue ==
  SemaphoreAssumption /\ Inv /\ OrderInv =>
    \A q \in Queries : phase[q] = "new" /\ Enqueue(q) => OrderInv'
<1> SUFFICES ASSUME SemaphoreAssumption, Inv, OrderInv, NEW q \in Queries,
                    phase[q] = "new", Enqueue(q)
             PROVE  OrderInv'
  OBVIOUS
<1> DEFINE c == Cardinality(Ranked)
<1>1. order[q] = 0 /\ q \notin Ranked
  BY DEF OrderInv, Ranked
<1>2. IsFiniteSet(Ranked) /\ c \in Nat
  BY FS_Subset, FS_CardinalityType DEF SemaphoreAssumption, Ranked
<1>3. order \in [Queries -> Nat] /\ order' = [order EXCEPT ![q] = c + 1]
  BY DEF Inv, TypeOK, Enqueue, Ranked
<1>4. Ranked' = Ranked \cup {q}
  BY <1>2, <1>3 DEF Ranked
<1>5. Cardinality(Ranked)' = c + 1
  BY <1>1, <1>2, <1>4, FS_AddElement
<1>6. /\ Len(waiters) \in Nat /\ Len(waiters') = Len(waiters) + 1
      /\ waiters'[Len(waiters) + 1] = q
      /\ \A i \in 1..Len(waiters) :
           waiters'[i] = waiters[i] /\ waiters[i] \in Queries /\ waiters[i] # q
  <2>1. q \notin Queued
    BY DEF In, Inv, QueueIsExact
  <2> QED BY <2>1 DEF Enqueue, Inv, TypeOK
<1> HIDE DEF c
<1>7. \A r \in Queries : r # q => order'[r] = order[r] /\ order[r] \in Nat /\ order[r] <= c
  BY <1>3 DEF OrderInv, c
<1>8. ASSUME NEW i \in 1..Len(waiters'), NEW j \in 1..Len(waiters'), i < j
      PROVE  order'[waiters'[i]] < order'[waiters'[j]]
  <2>1. i \in 1..Len(waiters)
    BY <1>6, <1>8
  <2>2. CASE j \in 1..Len(waiters)
    <3>1. order[waiters[i]] < order[waiters[j]]
      BY <2>1, <2>2, <1>8 DEF OrderInv
    <3> QED BY <3>1, <2>1, <2>2, <1>6, <1>7
  <2>3. CASE j = Len(waiters) + 1
    <3>1. order'[waiters'[j]] = c + 1
      BY <2>3, <1>3, <1>6
    <3>2. order'[waiters'[i]] \in Nat /\ order'[waiters'[i]] <= c
      BY <2>1, <1>6, <1>7
    <3> QED BY <3>1, <3>2, <1>2
  <2> QED BY <2>2, <2>3, <1>6
<1>9. \A r \in Queries : phase'[r] = "new" => order'[r] = 0
  BY <1>7 DEF OrderInv, Enqueue, Inv, TypeOK
<1>10. \A r \in Queries : order'[r] <= c + 1
  BY <1>2, <1>3, <1>7
<1> QED BY <1>5, <1>8, <1>9, <1>10 DEF OrderInv

\* A queue that loses its head or any other entry stays sorted.
LEMMA OrderLeaves ==
  SemaphoreAssumption /\ Inv /\ OrderInv =>
    \A q \in Queries : (phase[q] = "holding" /\ HandOver(q)) \/ TimeOut(q) => OrderInv'
<1> SUFFICES ASSUME SemaphoreAssumption, Inv, OrderInv, NEW q \in Queries,
                    (phase[q] = "holding" /\ HandOver(q)) \/ TimeOut(q)
             PROVE  OrderInv'
  OBVIOUS
<1>1. order' = order /\ Ranked' = Ranked
  BY DEF HandOver, TimeOut, Ranked
<1>2. \A r \in Queries : phase'[r] = "new" => phase[r] = "new"
  BY DEF HandOver, TimeOut, Inv, TypeOK
<1>3. \A i, j \in 1..Len(waiters') : i < j => order[waiters'[i]] < order[waiters'[j]]
  <2>1. CASE HandOver(q)
    <3>1. /\ Len(waiters) \in Nat /\ Len(waiters') = Len(waiters) - 1
          /\ \A i \in 1..Len(waiters') : waiters'[i] = waiters[i + 1]
      BY <2>1, HeadTailProperties, LenProperties DEF HandOver, Inv, TypeOK
    <3> TAKE i, j \in 1..Len(waiters')
    <3> HAVE i < j
    <3>2. i + 1 \in 1..Len(waiters) /\ j + 1 \in 1..Len(waiters) /\ i + 1 < j + 1
      BY <3>1
    <3>3. order[waiters[i + 1]] < order[waiters[j + 1]]
      BY <3>2 DEF OrderInv
    <3> QED BY <3>1, <3>3
  <2>2. CASE TimeOut(q)
    <3>1. PICK k \in 1..Len(waiters) : waiters' = Without(k)
      BY <2>2 DEF TimeOut, LeaveQueue
    <3>2. /\ Len(waiters) \in Nat /\ Len(waiters') = Len(waiters) - 1
          /\ \A i \in 1..Len(waiters) - 1 :
               waiters'[i] = IF i < k THEN waiters[i] ELSE waiters[i + 1]
      <4>1. waiters \in Seq(Queries) /\ Len(waiters) \in Nat
        BY DEF Inv, TypeOK
      <4>2. \A i, j \in 1..Len(waiters) : waiters[i] = waiters[j] => i = j
        BY DEF Inv, QueueIsExact
      <4>3. /\ Len(Without(k)) = Len(waiters) - 1
            /\ \A i \in 1..Len(waiters) - 1 :
                 Without(k)[i] = IF i < k THEN waiters[i] ELSE waiters[i + 1]
        BY <4>1, <4>2, SpliceRemoves
      <4> QED BY <3>1, <4>1, <4>3
    <3> DEFINE at(n) == IF n < k THEN n ELSE n + 1
    <3> TAKE i, j \in 1..Len(waiters')
    <3> HAVE i < j
    <3>3. /\ at(i) \in 1..Len(waiters) /\ at(j) \in 1..Len(waiters) /\ at(i) < at(j)
          /\ waiters'[i] = waiters[at(i)] /\ waiters'[j] = waiters[at(j)]
      BY <3>2
    <3> HIDE DEF at
    <3>4. order[waiters[at(i)]] < order[waiters[at(j)]]
      BY <3>3 DEF OrderInv
    <3> QED BY <3>3, <3>4
  <2> QED BY <2>1, <2>2
<1> QED BY <1>1, <1>2, <1>3 DEF OrderInv

LEMMA OrderStep ==
  SemaphoreAssumption /\ Inv /\ OrderInv /\ [Next]_vars => OrderInv'
<1> SUFFICES ASSUME SemaphoreAssumption, Inv, OrderInv, [Next]_vars PROVE OrderInv'
  OBVIOUS
<1>1. ASSUME waiters' = waiters, order' = order,
             \A r \in Queries : phase'[r] = "new" => phase[r] = "new"
      PROVE  OrderInv'
  <2>1. Ranked' = Ranked
    BY <1>1 DEF Ranked
  <2> QED BY <1>1, <2>1 DEF OrderInv
<1>2. ASSUME NEW q \in Queries, Acquire(q) PROVE OrderInv'
  <2>1. CASE TakePermit(q)
    BY <2>1, <1>1 DEF TakePermit, Inv, TypeOK
  <2>2. CASE Refuse(q)
    BY <2>2, <1>1 DEF Refuse, Inv, TypeOK
  <2> QED BY <1>2, <2>1, <2>2, OrderEnqueue DEF Acquire
<1>3. ASSUME NEW q \in Queries, Release(q) PROVE OrderInv'
  <2>1. CASE GiveBack(q)
    BY <2>1, <1>1 DEF GiveBack, Inv, TypeOK
  <2> QED BY <1>3, <2>1, OrderLeaves DEF Release
<1>4. CASE ResetStats \/ UNCHANGED vars
  BY <1>4, <1>1 DEF ResetStats, vars
<1> QED BY <1>2, <1>3, <1>4, OrderLeaves DEF Next

\* Only a hand-over lets a waiting query hold a permit, and it serves the head.
LEMMA HeadIsServed ==
  SemaphoreAssumption /\ Inv /\ OrderInv /\ [Next]_vars =>
    \A q, r \in In("waiting") :
      phase'[r] = "holding" /\ q # r => order[r] < order[q]
<1> SUFFICES ASSUME SemaphoreAssumption, Inv, OrderInv, [Next]_vars,
                    NEW q \in In("waiting"), NEW r \in In("waiting"),
                    phase'[r] = "holding", q # r
             PROVE  order[r] < order[q]
  OBVIOUS
<1>1. /\ q \in Queries /\ r \in Queries /\ phase[r] = "waiting"
      /\ phase \in [Queries -> Phases]
  BY DEF In, Inv, TypeOK
<1>2. \E p \in Queries : phase[p] = "holding" /\ HandOver(p)
  <2>1. \A p \in Queries : phase[p] = "new" => ~TakePermit(p) /\ ~Refuse(p) /\ ~Enqueue(p)
    BY <1>1 DEF TakePermit, Refuse, Enqueue
  <2>2. \A p \in Queries : phase[p] = "holding" => ~GiveBack(p)
    BY <1>1 DEF GiveBack
  <2>3. \A p \in Queries : ~TimeOut(p)
    BY <1>1 DEF TimeOut
  <2>4. ~ResetStats /\ ~UNCHANGED vars
    BY <1>1 DEF ResetStats, vars
  <2> QED BY <2>1, <2>2, <2>3, <2>4 DEF Next, Acquire, Release
<1>3. r = waiters[1] /\ 1 \in 1..Len(waiters)
  <2>1. PICK p \in Queries : phase[p] = "holding" /\ HandOver(p)
    BY <1>2
  <2>2. Head(waiters) = waiters[1] /\ 1 \in 1..Len(waiters)
    BY <2>1, HeadTailProperties, LenProperties DEF HandOver, Inv, TypeOK
  <2>3. phase' = [phase EXCEPT ![p] = "done", ![Head(waiters)] = "holding"]
    BY <2>1 DEF HandOver
  <2>4. r = Head(waiters)
    BY <1>1, <2>1, <2>3
  <2> QED BY <2>2, <2>4
<1>4. PICK j \in 1..Len(waiters) : waiters[j] = q
  BY DEF Inv, QueueIsExact
<1>5. 1 < j
  BY <1>3, <1>4
<1> QED BY <1>3, <1>4, <1>5 DEF OrderInv

\* Whatever joins, times out or is refused, a freed permit goes to the query
\* that has waited longest (semaphore.js release shifts the oldest waiter).
THEOREM OldestFirstAlways == Spec => OldestFirst
<1>1. Init => Inv /\ OrderInv
  BY InvInit, OrderInit, SemaphoreAssumption
<1>2. Inv /\ OrderInv /\ [Next]_vars => Inv' /\ OrderInv'
  BY InvStep, OrderStep, SemaphoreAssumption
<1>3. Inv /\ OrderInv /\ [Next]_vars =>
        [\A q, r \in In("waiting") :
           phase'[r] = "holding" /\ q # r => order[r] < order[q]]_vars
  BY HeadIsServed, SemaphoreAssumption
<1> QED BY <1>1, <1>2, <1>3, PTL DEF Spec, OldestFirst

-----------------------------------------------------------------------------
(* Refinement *)

gone == In("done") \cup In("refused")

\* The two modules count with the same operator.
LEMMA SameCardinality == \A S : Pool!Cardinality(S) = Cardinality(S)
BY Zenon DEF Pool!Cardinality, Cardinality

LEMMA PoolInit == Init => Pool!Init
BY DEF Init, Pool!Init, In

\* One step of the semaphore is one step of the abstract pool or none.
LEMMA PoolStep ==
  SemaphoreAssumption /\ Inv /\ Inv' /\ [Next]_vars => [Pool!Next]_(Pool!pool)
<1> SUFFICES ASSUME SemaphoreAssumption, Inv, Inv', [Next]_vars
             PROVE  Pool!Next \/ UNCHANGED Pool!pool
  OBVIOUS
<1>1. Cardinality(In("holding")') <= Size
  BY DEF Inv, PermitsConserved
<1>2. Pool!WorkConserving'
  <2>1. In("waiting")' # {} => waiters' # <<>>
    BY DEF Inv, QueueIsExact
  <2> QED BY <2>1, SameCardinality
          DEF Inv, NoIdlePermit, PermitsConserved, Pool!WorkConserving
<1>3. ASSUME NEW q \in Queries, Acquire(q)
      PROVE  Pool!Ask(q)
  <2>1. phase[q] = "new" /\ q \notin In("holding") \cup In("waiting") \cup gone
    <3>1. phase[q] = "new"
      BY <1>3 DEF Acquire
    <3> QED BY <3>1 DEF In, gone
  <2>2. CASE TakePermit(q)
    <3>1. /\ In("holding")' = In("holding") \cup {q} /\ In("waiting")' = In("waiting")
          /\ In("done")' = In("done") /\ In("refused")' = In("refused")
      BY <2>1, <2>2 DEF Inv, TypeOK, TakePermit, In
    <3> QED BY <2>1, <3>1 DEF Pool!Ask, gone
  <2>3. CASE Refuse(q)
    <3>1. /\ In("holding")' = In("holding") /\ In("waiting")' = In("waiting")
          /\ In("done")' = In("done") /\ In("refused")' = In("refused") \cup {q}
      BY <2>1, <2>3 DEF Inv, TypeOK, Refuse, In
    <3> QED BY <2>1, <3>1 DEF Pool!Ask, gone
  <2>4. CASE Enqueue(q)
    <3>1. /\ In("holding")' = In("holding") /\ In("waiting")' = In("waiting") \cup {q}
          /\ In("done")' = In("done") /\ In("refused")' = In("refused")
      BY <2>1, <2>4 DEF Inv, TypeOK, Enqueue, In
    <3> QED BY <2>1, <3>1 DEF Pool!Ask, gone
  <2> QED BY <1>3, <2>2, <2>3, <2>4 DEF Acquire
<1>4. ASSUME NEW q \in Queries, Release(q)
      PROVE  Pool!Finish(q)
  <2>1. q \in In("holding") /\ phase[q] = "holding"
    BY <1>4 DEF Release, In
  <2>2. CASE HandOver(q)
    <3> DEFINE h == Head(waiters)
    <3>1. h \in Queries /\ h = waiters[1] /\ 1 \in 1..Len(waiters)
      BY <2>2, HeadTailProperties, LenProperties DEF HandOver, Inv, TypeOK
    <3>2. h \in In("waiting") /\ h # q /\ phase[h] = "waiting"
      BY <2>1, <3>1 DEF Inv, QueueIsExact, In
    <3>3. phase' = [phase EXCEPT ![q] = "done", ![h] = "holding"]
      BY <2>2 DEF HandOver
    <3>4. /\ In("holding")' = (In("holding") \ {q}) \cup {h}
          /\ In("waiting")' = In("waiting") \ {h}
          /\ In("done")' = In("done") \cup {q} /\ In("refused")' = In("refused")
      BY <2>1, <3>1, <3>2, <3>3 DEF Inv, TypeOK, In
    <3> HIDE DEF h
    <3> QED BY <2>1, <3>2, <3>4 DEF Pool!Finish, gone
  <2>3. CASE GiveBack(q)
    <3>1. /\ In("holding")' = In("holding") \ {q} /\ In("waiting")' = In("waiting")
          /\ In("done")' = In("done") \cup {q} /\ In("refused")' = In("refused")
      BY <2>1, <2>3 DEF Inv, TypeOK, GiveBack, In
    <3> QED BY <2>1, <3>1 DEF Pool!Finish, gone
  <2> QED BY <1>4, <2>2, <2>3 DEF Release
<1>5. ASSUME NEW q \in Queries, TimeOut(q)
      PROVE  Pool!GiveUp(q)
  <2>1. q \in In("waiting") /\ phase[q] = "waiting"
    BY <1>5 DEF TimeOut, Inv, QueueIsExact, In
  <2>2. /\ In("holding")' = In("holding") /\ In("waiting")' = In("waiting") \ {q}
        /\ In("done")' = In("done") /\ In("refused")' = In("refused") \cup {q}
    BY <2>1, <1>5 DEF Inv, TypeOK, TimeOut, In
  <2> QED BY <2>1, <2>2 DEF Pool!GiveUp, gone
<1>6. ASSUME ResetStats \/ UNCHANGED vars
      PROVE  UNCHANGED Pool!pool
  BY <1>6 DEF ResetStats, vars, Pool!pool, In
<1>7. CASE \E q \in Queries : Acquire(q) \/ Release(q) \/ TimeOut(q)
  <2>1. \E q \in Queries : Pool!Ask(q) \/ Pool!Finish(q) \/ Pool!GiveUp(q)
    BY <1>3, <1>4, <1>5, <1>7
  <2> QED BY <1>1, <1>2, <2>1, SameCardinality DEF Pool!Next
<1> QED BY <1>6, <1>7 DEF Next

\* Every behaviour of the semaphore is one of the abstract pool: at most Size
\* queries hold a permit and a free permit is never kept from a waiting query.
THEOREM ImplementsPool == Spec => PoolSpec
<1>1. Init => Inv /\ Pool!Init
  BY InvInit, PoolInit, SemaphoreAssumption
<1>2. Inv /\ [Next]_vars => Inv'
  BY InvStep, SemaphoreAssumption
<1>3. Inv /\ Inv' /\ [Next]_vars => [Pool!Next]_(Pool!pool)
  BY PoolStep, SemaphoreAssumption
<1> QED BY <1>1, <1>2, <1>3, PTL DEF Spec, PoolSpec, Pool!Spec

=============================================================================
