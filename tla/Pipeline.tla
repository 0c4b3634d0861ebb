------------------------------- MODULE Pipeline -------------------------------
(***************************************************************************)
(* The telemetry pipeline end to end: the emitters of the services, the posts *)
(* that carry their batches, which may be lost, late or answered in vain, and  *)
(* the collector.                                                            *)
(***************************************************************************)
EXTENDS Collector, Emitter

CONSTANTS
  BodyMax,            \* events a request body may carry (8 MB in the code)
  MaxEvents,          \* bound: events a service enqueues
  MaxNow,             \* bound: the clock
  MaxPosts,           \* bound: posts of a service
  MaxDisturbances     \* bound: services started again and POST /chaos/reset requests

ASSUME PipelineAssumption ==
  /\ IsFiniteSet(Services)
  /\ {QueueMax, DedupLru, DrainMax, RingCap, BatchMax, BodyMax, MaxNow} \subseteq Nat \ {0}
  /\ {Lag, Lateness, MaxEvents, MaxPosts, MaxDisturbances} \subseteq Nat
  /\ ShedThresholds \in [1..3 -> Nat]

VARIABLES
  wire,    \* posts on their way to the collector
  replies, \* acknowledgements on their way back
  lives,   \* history: how often each service was started again
  events,  \* bounded: events each service enqueued, over all its lives
  posts,   \* bounded: posts each service sent, over all its lives
  resets   \* POST /chaos/reset requests so far

vars == <<now, collectorVars, emitters, wire, replies, lives, events, posts, resets>>

Disturbances == resets + SumFunction(lives)

Init ==
  /\ now = 1 /\ CollectorInit /\ EmitterInit
  /\ wire = {} /\ replies = {} /\ resets = 0
  /\ lives = [s \in Services |-> 0] /\ events = lives /\ posts = lives

-----------------------------------------------------------------------------
Produce(s) ==
  /\ events[s] < MaxEvents /\ events' = [events EXCEPT ![s] = @ + 1]
  /\ Request(s, now, lives[s]) \/ Snapshot(s, now, lives[s])
  /\ UNCHANGED <<now, collectorVars, wire, replies, lives, posts, resets>>

Send(s) ==
  /\ posts[s] < MaxPosts /\ posts' = [posts EXCEPT ![s] = @ + 1]
  /\ Flush(s)
  /\ LET em == emitters'[s]
     IN wire' = wire \cup IF em.posting = <<>> THEN {}
                          ELSE {[svc |-> s, life |-> lives[s], post |-> em.post,
                                 events |-> em.posting]}
  /\ UNCHANGED <<now, collectorVars, replies, lives, events, resets>>

\* POST /ingest. The posts of one service travel on connections of their own: any of
\* them may be next. A body past the limit never reaches the handler, and what
\* answers it does not parse: that is a Fail.
Receive(m) ==
  /\ Len(m.events) <= BodyMax
  /\ wire' = wire \ {m} /\ Ingest(m.events)
  /\ replies' = replies \cup {[svc |-> m.svc, life |-> m.life, post |-> m.post,
                               level |-> ShedLevel(queues')]}
  /\ UNCHANGED <<now, emitters, lives, events, posts, resets>>

Awaited(r) ==
  /\ r.life = lives[r.svc] /\ r.post = emitters[r.svc].post
  /\ emitters[r.svc].posting # <<>>

\* An answer nobody waits for any more changes nothing.
Answer(r) ==
  /\ replies' = replies \ {r}
  /\ \/ Awaited(r) /\ Acknowledged(r.svc, r.level)
     \/ ~Awaited(r) /\ UNCHANGED emitters
  /\ UNCHANGED <<now, collectorVars, wire, lives, events, posts, resets>>

\* Refused, too large, cut off or past the 1000 ms deadline: the request may still arrive,
\* or never will, or its answer comes too late.
Fail(s) ==
  /\ emitters[s].posting # <<>> /\ PostFails(s)
  /\ LET current == {m \in wire : m.svc = s /\ m.post = emitters[s].post /\ m.life = lives[s]}
     IN wire' \in {wire, wire \ current}
  /\ UNCHANGED <<now, collectorVars, replies, lives, events, posts, resets>>

ClockTick ==
  /\ now < MaxNow /\ now' = now + 1
  /\ UNCHANGED <<collectorVars, emitters, wire, replies, lives, events, posts, resets>>

Tick ==
  /\ CollectorTick
  /\ UNCHANGED <<now, emitters, wire, replies, lives, events, posts, resets>>

\* POST /chaos/reset; a collector that is started again begins the same way.
Reset ==
  /\ Disturbances < MaxDisturbances /\ resets' = resets + 1 /\ CollectorReset
  /\ UNCHANGED <<now, emitters, wire, replies, lives, events, posts>>

Restart(s) ==
  /\ Disturbances < MaxDisturbances /\ lives' = [lives EXCEPT ![s] = @ + 1]
  /\ ServiceRestart(s)
  /\ UNCHANGED <<now, collectorVars, wire, replies, events, posts, resets>>

Next ==
  \/ \E s \in Services : Produce(s) \/ Send(s) \/ Fail(s) \/ Restart(s)
  \/ \E m \in wire : Receive(m)
  \/ \E r \in replies : Answer(r)
  \/ ClockTick \/ Tick \/ Reset

Spec == Init /\ [][Next]_vars

-----------------------------------------------------------------------------
TypeOK ==
  /\ now \in 1..MaxNow
  /\ resets \in Nat /\ lives \in [Services -> Nat] /\ Disturbances <= MaxDisturbances
  /\ Depth(queues) <= QueueMax /\ \A p \in Priorities : \A e \in ToSet(queues[p]) : e.pri = p
  /\ Len(seen) <= DedupLru /\ IsInjective(seen)
  /\ dropped \in [Priorities -> Nat] /\ late \in Nat
  /\ maxEventTime \in 0..MaxNow /\ lastClosedId \in 0..MaxNow
  /\ \A e \in ToSet(store) : lastClosedId < e.t /\ e.t <= maxEventTime
  /\ \A s \in Services :
       /\ emitters[s].shed \in 0..3 /\ emitters[s].seq \in 0..MaxEvents
       /\ Len(emitters[s].rings[1]) <= RingCap /\ emitters[s].rings[2] = <<>>
       /\ \A p \in Priorities : \A e \in ToSet(emitters[s].rings[p]) : e.pri = p

Undisturbed == Disturbances = 0

\* The requests published for s.
Total(s) ==
  LET sum[i \in 0..Len(published)] ==
        IF i = 0 THEN 0 ELSE sum[i - 1] + published[i].in[s]
  IN sum[Len(published)]

\* Over lost, late, repeated and overtaken posts, shed samples and full queues, the
\* requests published for a service add up to the count in its newest snapshot that
\* reached a window, while the collector is not reset and the service not started
\* again (counterDelta and "counts are exact at every shed level").
CountsAreExact ==
  Undisturbed =>
    \A s \in Services :
      LET counts == {e.count : e \in {x \in ToSet(aggregated) : x.svc = s /\ x.pri = 0}}
      IN Total(s) = Max({0} \cup counts)

\* A replayed batch changes nothing: the collector never holds an event twice
\* (Dedup.filter over the emitter's retries).
ReplayChangesNothing ==
  resets = 0 => IsInjective(InOrder(queues) \o store \o aggregated)

\* Admission gives up a snapshot only when its whole queue is snapshots (admit).
SnapshotsGoLast ==
  [][dropped'[0] > dropped[0] => Len(queues'[0]) = QueueMax]_vars

Unsent(em) == em.retained \o em.posting \o InOrder(em.rings)

\* Every event a service numbered is somewhere, or some counter says it was given up:
\* nothing is lost unnoticed (enqueue, flush, admit, add).
NothingVanishes ==
  Undisturbed =>
    LET em(s) == emitters[s]
        Held  == ToSet(InOrder(queues) \o store \o aggregated)
                   \cup UNION {ToSet(Unsent(em(s))) : s \in Services}
        GivenUp == SumFunction(dropped) + late
                   + SumFunction([s \in Services |-> em(s).localDrops + em(s).shedDrops])
    IN SumFunction([s \in Services |-> em(s).seq]) <= Cardinality(Held) + GivenUp

=============================================================================
