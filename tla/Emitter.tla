-------------------------------- MODULE Emitter --------------------------------
(***************************************************************************)
(* The telemetry client of every service (packages/telemetry/emitter.js):    *)
(* one ring per priority, the flush timer, the shed level the collector asks *)
(* for, and the events retained while a post has not succeeded.               *)
(* instrument.js and counters.js supply the events.                          *)
(***************************************************************************)
EXTENDS Telemetry

CONSTANTS
  RingCap, \* events a ring holds
  BatchMax \* events one flush takes out of the rings

VARIABLE emitters \* each service's emitter

\* count is the service's cumulative request counter (counters.js), posting the
\* batch in flight, <<>> for none, and post its number (batchId).
NewEmitter ==
  [seq |-> 0, count |-> 0, rings |-> NoEvents, retained |-> <<>>, posting |-> <<>>,
   post |-> 0, shed |-> 0, localDrops |-> 0, shedDrops |-> 0]

EmitterInit == emitters = [s \in Services |-> NewEmitter]

\* Mutant: a full ring displaces its own oldest event, even a snapshot.
EnqueueOverOwn(em, e) ==
  LET numbered == [em EXCEPT !.seq = @ + 1]
  IN IF Len(em.rings[e.pri]) < RingCap
     THEN [numbered EXCEPT !.rings[e.pri] = Append(@, e)]
     ELSE [numbered EXCEPT !.rings[e.pri] = Append(Tail(@), e), !.localDrops = @ + 1]

Into(rings, e) == [rings EXCEPT ![e.pri] = Append(@, e)]

\* An event is numbered, whatever becomes of it.
Numbered(em, rings, drops) ==
  [em EXCEPT !.seq = @ + 1, !.rings = rings, !.localDrops = @ + drops]

\* enqueue: a full ring displaces the oldest event of the least important ring that
\* holds any, whichever ring is full, but never a snapshot; failing that the event
\* itself is dropped.
Enqueue(em, e) ==
  LET v    == Victim(em.rings)
      room == [em.rings EXCEPT ![v] = Tail(@)]
      full == Len(em.rings[e.pri]) >= RingCap
  IN CASE ~full -> Numbered(em, Into(em.rings, e), 0)
       [] full /\ v # 0 -> Numbered(em, Into(room, e), 1)
       [] full /\ v = 0 -> Numbered(em, em.rings, 1)

Event(s, em, pri, t, life) ==
  [svc |-> s, seq |-> em.seq, pri |-> pri, t |-> t, life |-> life,
   count |-> IF pri = 0 THEN em.count ELSE 0]

\* A response is sent: the request is counted and its latency sample enqueued.
Request(s, t, life) ==
  LET em == [emitters[s] EXCEPT !.count = @ + 1]
  IN emitters' = [emitters EXCEPT ![s] = Enqueue(em, Event(s, em, 1, t, life))]

\* The snapshot timer.
Snapshot(s, t, life) ==
  LET em == emitters[s]
  IN emitters' = [emitters EXCEPT ![s] = Enqueue(em, Event(s, em, 0, t, life))]

-----------------------------------------------------------------------------
\* applyShed: what may survive of a batch at a shed level. At level 2 the samples
\* are kept at random, at a rate that comes with the level.
ShedChoices(batch, level) ==
  LET Of(p) == {e \in ToSet(batch) : e.pri = p}
  IN CASE level = 0 -> {ToSet(batch)}
       [] level = 1 -> {Of(0) \cup Of(1)}
       [] level = 2 -> {Of(0) \cup samples : samples \in SUBSET Of(1)}
       [] level = 3 -> {Of(0)}

\* flush, up to its post: what is retained goes first and is not shed again.
Flush(s) ==
  LET em    == emitters[s]
      batch == TakeFirst(em.rings, BatchMax)
  IN /\ em.posting = <<>>
     /\ batch # <<>> \/ em.retained # <<>>
     /\ \E kept \in ShedChoices(batch, em.shed) :
          LET events == em.retained \o Kept(batch, kept)
          IN emitters' = [emitters EXCEPT ![s] =
               [em EXCEPT !.rings = LeaveRest(em.rings, BatchMax), !.retained = <<>>,
                          !.posting = events,
                          !.post = @ + IF events = <<>> THEN 0 ELSE 1,
                          !.shedDrops = @ + Len(batch) - Cardinality(kept)]]

\* The acknowledgement's shed level is obeyed from the next flush on.
Acknowledged(s, level) ==
  emitters' = [emitters EXCEPT ![s].posting = <<>>, ![s].shed = level]

\* Mutant: a batch that failed is given up.
PostFailsForgotten(s) ==
  emitters' = [emitters EXCEPT ![s].posting = <<>>]

\* The post failed: its events are retained. flush has emptied the list of retained
\* batches and merged them into this one, so its bound of 20 batches never applies.
PostFails(s) ==
  emitters' = [emitters EXCEPT ![s].posting = <<>>, ![s].retained = emitters[s].posting]

\* The process is started again: everything it held is gone, seq starts at 0.
ServiceRestart(s) == emitters' = [emitters EXCEPT ![s] = NewEmitter]

=============================================================================
