------------------------------- MODULE Collector -------------------------------
(***************************************************************************)
(* The collector's way from an ingested batch to published windows: dedup    *)
(* (collector/dedup.js), admission (collector/admission.js), event-time       *)
(* windows (collector/windows.js), counter differences (aggregate.js), and    *)
(* the 250 ms tick that drives them (collector/server.js). Time is counted in *)
(* windows. Pipeline composes it with the emitters.                           *)
(***************************************************************************)
EXTENDS Telemetry

CONSTANTS
  QueueMax,       \* events the admission queues hold
  ShedThresholds, \* queue depths at which shed levels 1, 2 and 3 begin
  DedupLru,       \* keys the dedup remembers
  DrainMax,       \* events one tick takes out of the queues
  Lag,            \* windows the watermark stays behind event time
  Lateness        \* windows a window stays open after its end

VARIABLES
  now,          \* the wall clock
  seen,         \* dedup keys, least recently used first
  queues,       \* admission queue of each priority
  dropped,      \* events admission dropped, per priority
  store,        \* events in open windows, in order of arrival
  maxEventTime, \* newest event time stored
  lastClosedId, \* newest window closed, 0 for none
  late,         \* events refused as late
  lastCounters, \* last snapshot of each service, 0 for none
  published,    \* history: windows published since the last reset
  aggregated    \* history: the events in them, window by window

collectorVars == <<seen, queues, dropped, store, maxEventTime, lastClosedId, late,
                   lastCounters, published, aggregated>>

Key(e) == <<e.svc, e.seq>>

CollectorInit ==
  /\ seen = <<>> /\ queues = NoEvents /\ store = <<>>
  /\ dropped = [p \in Priorities |-> 0] /\ late = 0
  /\ maxEventTime = 0 /\ lastClosedId = 0
  /\ lastCounters = [s \in Services |-> 0] /\ published = <<>> /\ aggregated = <<>>

-----------------------------------------------------------------------------
(* dedup.js and admission.js *)

\* A key that is met again becomes the most recent; the oldest is forgotten.
Remember(keys, key) ==
  LET renewed == Append(Kept(keys, ToSet(keys) \ {key}), key)
  IN IF Len(renewed) > DedupLru THEN Tail(renewed) ELSE renewed

\* Mutant: no dedup.
SeenNever(keys, e) == FALSE

Seen(keys, e) == Key(e) \in ToSet(keys)

\* Mutant: at the cap the arriving event is refused whatever it is.
AdmitByArrival(a, e) ==
  IF Depth(a.queues) < QueueMax
  THEN [a EXCEPT !.queues[e.pri] = Append(@, e)]
  ELSE [a EXCEPT !.dropped[e.pri] = @ + 1]

\* Mutant: snapshots are admitted beyond the cap.
AdmitSnapshots(a, e) ==
  IF Depth(a.queues) < QueueMax \/ e.pri = 0
  THEN [a EXCEPT !.queues[e.pri] = Append(@, e)]
  ELSE [a EXCEPT !.dropped[e.pri] = @ + 1]

\* Mutant: the displaced event is not counted.
AdmitUncounted(a, e) ==
  LET v == Victim(a.queues)
  IN CASE Depth(a.queues) < QueueMax -> [a EXCEPT !.queues[e.pri] = Append(@, e)]
       [] Depth(a.queues) >= QueueMax /\ v <= e.pri -> [a EXCEPT !.dropped[e.pri] = @ + 1]
       [] Depth(a.queues) >= QueueMax /\ v > e.pri ->
            [a EXCEPT !.queues[v] = Tail(@), !.queues[e.pri] = Append(@, e)]

\* admit, for one event: at the cap it displaces the oldest event of the least
\* important queue, when that is less important than itself, or is refused. A
\* snapshot is refused only by a queue full of snapshots.
AdmitOne(a, e) ==
  LET v == Victim(a.queues)
  IN CASE Depth(a.queues) < QueueMax -> [a EXCEPT !.queues[e.pri] = Append(@, e)]
       [] Depth(a.queues) >= QueueMax /\ v <= e.pri -> [a EXCEPT !.dropped[e.pri] = @ + 1]
       [] Depth(a.queues) >= QueueMax /\ v > e.pri ->
            [a EXCEPT !.queues[v] = Tail(@), !.dropped[v] = @ + 1,
                      !.queues[e.pri] = Append(@, e)]

\* depthToShedLevel, at the depth the batch leaves behind.
ShedLevel(qs) == Cardinality({i \in 1..3 : Depth(qs) >= ShedThresholds[i]})

\* One event of a batch: renewed when it was seen, admitted when it was not. The code
\* filters the whole batch first, which makes no difference to either.
IngestOne(c, e) ==
  LET keys == Remember(c.seen, Key(e))
  IN IF Seen(c.seen, e) THEN [c EXCEPT !.seen = keys] ELSE [AdmitOne(c, e) EXCEPT !.seen = keys]

\* The same; TLC evaluates c once.
IngestNext(c, e) == CHOOSE r \in {IngestOne(x, e) : x \in {c}} : TRUE

Ingested(events) ==
  LET after[i \in 0..Len(events)] ==
        IF i = 0 THEN [seen |-> seen, queues |-> queues, dropped |-> dropped]
        ELSE IngestNext(after[i - 1], events[i])
  IN after[Len(events)]

\* POST /ingest. Always acknowledged; the level in the acknowledgement is ShedLevel.
Ingest(events) ==
  LET after == Ingested(events)
  IN /\ seen' = after.seen /\ queues' = after.queues /\ dropped' = after.dropped
     /\ UNCHANGED <<store, maxEventTime, lastClosedId, late, lastCounters, published,
                    aggregated>>

-----------------------------------------------------------------------------
(* windows.js, aggregate.js and the tick of server.js *)

\* drain takes the most important events first.
Drained == TakeFirst(queues, DrainMax)

IsLate(e) == e.t <= lastClosedId

\* advanceWatermark: the windows that end Lateness before the watermark.
Closable(events, watermark) ==
  {e.t : e \in {x \in ToSet(events) : x.t + 1 + Lateness <= watermark}}

\* Mutant: every snapshot counts in full.
CounterDeltaNone(previous, current) == current

\* A counter that went backwards belongs to a service that restarted.
CounterDelta(previous, current) == IF current < previous THEN current ELSE current - previous

\* build, for one event of a window: a snapshot is differenced.
Aggregate(acc, e) ==
  LET Moved(counts, n) == IF e.pri = 0 THEN [counts EXCEPT ![e.svc] = n] ELSE counts
  IN [in     |-> Moved(acc.in, acc.in[e.svc] + CounterDelta(acc.last[e.svc], e.count)),
      last   |-> Moved(acc.last, e.count),
      events |-> Append(acc.events, e)]

AggregateNext(acc, e) == CHOOSE r \in {Aggregate(x, e) : x \in {acc}} : TRUE

\* build, for one window: its events in order of arrival.
Build(acc, id, events) ==
  LET after[i \in 0..Len(events)] ==
        IF i = 0
        THEN [in |-> [s \in Services |-> 0], last |-> acc.last, events |-> acc.events]
        ELSE IF events[i].t = id THEN AggregateNext(after[i - 1], events[i]) ELSE after[i - 1]
      built == after[Len(events)]
  IN [last |-> built.last, events |-> built.events,
      windows |-> Append(acc.windows, [id |-> id, in |-> built.in])]

BuildNext(acc, id, events) == CHOOSE r \in {Build(x, id, events) : x \in {acc}} : TRUE

\* The windows of ids, oldest first.
Published(ids, events, newest) ==
  LET after[id \in 0..newest] ==
        IF id = 0 THEN [last |-> lastCounters, windows |-> published, events |-> aggregated]
        ELSE IF id \in ids THEN BuildNext(after[id - 1], id, events) ELSE after[id - 1]
  IN after[newest]

\* tick: drain, advance the watermark, and publish the windows it closes.
CollectorTick ==
  LET onTime    == Kept(Drained, {e \in ToSet(Drained) : ~IsLate(e)})
      events    == store \o onTime
      newest    == Max({maxEventTime} \cup {e.t : e \in ToSet(Drained)})
      watermark == Max({newest, now - Lag}) - Lag
      ids       == Closable(events, watermark)
      built     == Published(ids, events, newest)
  IN /\ queues' = LeaveRest(queues, DrainMax)
     /\ maxEventTime' = newest
     /\ late' = late + Len(Drained) - Len(onTime)
     /\ store' = Kept(events, {e \in ToSet(events) : e.t \notin ids})
     /\ lastClosedId' = Max({lastClosedId} \cup ids)
     /\ lastCounters' = built.last /\ published' = built.windows /\ aggregated' = built.events
     /\ UNCHANGED <<seen, dropped>>

\* POST /chaos/reset: everything the collector holds.
CollectorReset ==
  /\ seen' = <<>> /\ queues' = NoEvents /\ store' = <<>>
  /\ dropped' = [p \in Priorities |-> 0] /\ late' = 0
  /\ maxEventTime' = 0 /\ lastClosedId' = 0
  /\ lastCounters' = [s \in Services |-> 0] /\ published' = <<>> /\ aggregated' = <<>>

=============================================================================
