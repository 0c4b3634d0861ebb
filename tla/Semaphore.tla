------------------------------ MODULE Semaphore ------------------------------
(***************************************************************************)
(* The bounded semaphore of packages/util/semaphore.js, as the datastore's   *)
(* POST /query uses it (services/datastore/index.js): acquire, hold the      *)
(* permit for the service interval, release. Every query of the mesh shares  *)
(* this one pool. A resolved promise resumes its handler before any other    *)
(* event, so a query handed a permit holds it in the same step.              *)
(***************************************************************************)
EXTENDS Integers, Sequences, FiniteSets

CONSTANTS
  Queries,  \* queries that arrive; each asks once
  Size,     \* permits
  QueueMax  \* most queries that may wait

ASSUME SemaphoreAssumption ==
  IsFiniteSet(Queries) /\ Size \in Nat \ {0} /\ QueueMax \in Nat

VARIABLES
  inUse,    \* permits taken
  waiters,  \* waiting queries, oldest first
  phase,    \* where each query's handler is
  granted, rejected, timedOut,  \* the counters stats() reports
  order     \* history: when each query began to wait, 0 if it has not

counters == <<granted, rejected, timedOut>>
vars == <<inUse, waiters, phase, counters, order>>

Phases  == {"new", "waiting", "holding", "done", "refused"}
In(p)   == {q \in Queries : phase[q] = p}
Queued  == {waiters[i] : i \in 1..Len(waiters)}

Init ==
  /\ inUse = 0 /\ waiters = <<>> /\ phase = [q \in Queries |-> "new"]
  /\ granted = 0 /\ rejected = 0 /\ timedOut = 0
  /\ order = [q \in Queries |-> 0]

-----------------------------------------------------------------------------
TakePermit(q) ==
  /\ inUse < Size /\ inUse' = inUse + 1
  /\ phase' = [phase EXCEPT ![q] = "holding"]
  /\ granted' = granted + 1
  /\ UNCHANGED <<waiters, rejected, timedOut, order>>

QueueFull == Len(waiters) >= QueueMax

Refuse(q) ==
  /\ inUse >= Size /\ QueueFull
  /\ phase' = [phase EXCEPT ![q] = "refused"]
  /\ rejected' = rejected + 1
  /\ UNCHANGED <<inUse, waiters, granted, timedOut, order>>

\* order counts the queries that have waited before.
Enqueue(q) ==
  /\ inUse >= Size /\ ~QueueFull
  /\ waiters' = Append(waiters, q)
  /\ phase' = [phase EXCEPT ![q] = "waiting"]
  /\ order' = [order EXCEPT ![q] = Cardinality({r \in Queries : order[r] # 0}) + 1]
  /\ UNCHANGED <<inUse, counters>>

Acquire(q) ==
  /\ phase[q] = "new"
  /\ TakePermit(q) \/ Refuse(q) \/ Enqueue(q)

-----------------------------------------------------------------------------
\* Mutant: the newest waiter is served first.
HandOverNewest(q) ==
  /\ waiters # <<>> /\ waiters' = SubSeq(waiters, 1, Len(waiters) - 1)
  /\ phase' = [phase EXCEPT ![q] = "done", ![waiters[Len(waiters)]] = "holding"]
  /\ granted' = granted + 1
  /\ UNCHANGED <<inUse, rejected, timedOut, order>>

\* Mutant: the permit is handed over and given back.
HandOverTwice(q) ==
  /\ waiters # <<>> /\ waiters' = Tail(waiters) /\ inUse' = inUse - 1
  /\ phase' = [phase EXCEPT ![q] = "done", ![Head(waiters)] = "holding"]
  /\ granted' = granted + 1
  /\ UNCHANGED <<rejected, timedOut, order>>

\* The permit goes straight to the oldest waiter; inUse does not move.
HandOver(q) ==
  /\ waiters # <<>> /\ waiters' = Tail(waiters)
  /\ phase' = [phase EXCEPT ![q] = "done", ![Head(waiters)] = "holding"]
  /\ granted' = granted + 1
  /\ UNCHANGED <<inUse, rejected, timedOut, order>>

\* Mutant: waiters are left for the next acquire to serve.
GiveBackAlways(q) ==
  /\ inUse' = inUse - 1 /\ phase' = [phase EXCEPT ![q] = "done"]
  /\ UNCHANGED <<waiters, counters, order>>

GiveBack(q) ==
  /\ waiters = <<>> /\ inUse' = inUse - 1
  /\ phase' = [phase EXCEPT ![q] = "done"]
  /\ UNCHANGED <<waiters, counters, order>>

\* The finally block of POST /query, when the service interval is over.
Release(q) == phase[q] = "holding" /\ (HandOver(q) \/ GiveBack(q))

-----------------------------------------------------------------------------
\* waiters.splice(k, 1)
Without(k) == [i \in 1..Len(waiters) - 1 |-> IF i < k THEN waiters[i] ELSE waiters[i + 1]]

LeaveQueue(k) == waiters' = Without(k)

\* The waiter's timer fires; a grant would have cleared it.
TimeOut(q) ==
  /\ \E k \in 1..Len(waiters) : waiters[k] = q /\ LeaveQueue(k)
  /\ phase' = [phase EXCEPT ![q] = "refused"]
  /\ timedOut' = timedOut + 1
  /\ UNCHANGED <<inUse, granted, rejected, order>>

\* POST /chaos/reset and POST /admin/restart clear the counters, not the pool.
ResetStats ==
  /\ granted' = 0 /\ rejected' = 0 /\ timedOut' = 0
  /\ UNCHANGED <<inUse, waiters, phase, order>>

Next == \/ \E q \in Queries : Acquire(q) \/ Release(q) \/ TimeOut(q)
        \/ ResetStats

Spec == Init /\ [][Next]_vars

\* A service interval always ends. Timeouts are not relied on.
FairSpec == Spec /\ \A q \in Queries : WF_vars(Release(q))

-----------------------------------------------------------------------------
\* Every variable stays in its domain.
TypeOK ==
  /\ inUse \in Nat /\ waiters \in Seq(Queries)
  /\ phase \in [Queries -> Phases] /\ order \in [Queries -> Nat]
  /\ granted \in Nat /\ rejected \in Nat /\ timedOut \in Nat

\* The queue holds exactly the queries that wait, each once, within its bound.
QueueIsExact ==
  /\ Queued = In("waiting") /\ Len(waiters) <= QueueMax
  /\ \A i, j \in 1..Len(waiters) : waiters[i] = waiters[j] => i = j

\* inUse counts the queries that hold a permit and never exceeds the pool: no
\* permit is leaked or granted twice over hand-overs, timeouts and refusals.
PermitsConserved == inUse = Cardinality(In("holding")) /\ inUse <= Size

\* Nobody waits while a permit is free.
NoIdlePermit == waiters # <<>> => inUse = Size

\* A permit handed over goes to the query that has waited longest.
OldestFirst ==
  [][\A q, r \in In("waiting") :
       phase'[r] = "holding" /\ q # r => order[r] < order[q]]_vars

\* A query that waits is settled even if no timer ever fires.
WaitersAreServed ==
  \A q \in Queries : phase[q] = "waiting" ~> phase[q] # "waiting"

\* The semaphore keeps the abstract pool's promise.
Pool == INSTANCE PermitPool WITH
          holding <- In("holding"), waiting <- In("waiting"),
          gone <- In("done") \cup In("refused")
PoolSpec == Pool!Spec

=============================================================================
