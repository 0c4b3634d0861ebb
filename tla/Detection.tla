------------------------------- MODULE Detection -------------------------------
(***************************************************************************)
(* From windows to incidents: what the collector says of a service in a       *)
(* window (collector/aggregate.js), the ring and cursor through which the      *)
(* control plane reads windows (control/adapters/telemetry.js,                 *)
(* control/server.js), and the Detector's baselines, debounce and incident     *)
(* (control/agents/detector.js). Times are window numbers, rates thousandths.  *)
(***************************************************************************)
EXTENDS Integers, Sequences, FiniteSetsExt, SequencesExt

CONSTANTS
  Services,        \* services of the mesh, the collector's SERVICES
  Patterns,        \* what the mesh may do during a window
  DetectMultiple,  \* detectMultiplier
  DetectErrRate,   \* detectErrRate
  UserErrRate,     \* userFacingErrRate
  Debounce,        \* debounceWindows
  Warmup,          \* baselineWarmupWindows
  BaselineWindows, \* samples the moving average trails
  MaxArrivals,     \* bound: windows delivered, fewer than the ring holds
  MaxRelaunches    \* bound: relaunches of the stream

\* What reaches the collector of a window. silent are the services whose state it cannot
\* tell: their counters were lost, or counted no request. Latencies come from the samples,
\* 0 without any, and may be known of a silent service; calls, with their amplification,
\* come from the counters; seen is how well the window is seen.
Edges == [from : Services, to : Services, amp : Nat]

ASSUME DetectionAssumption ==
  /\ \A p \in Patterns : /\ p.silent \subseteq Services /\ p.edges \subseteq Edges
                         /\ p.p99 \in [Services -> Nat] /\ p.err \in [Services -> 0..1000]
                         /\ p.seen \in 0..1000
  /\ DetectMultiple \in Nat \ {0} /\ DetectErrRate \in Nat /\ UserErrRate \in Nat
  /\ Debounce \in Nat \ {0} /\ Warmup \in Nat \ {0} /\ BaselineWindows \in Nat \ {0}
  /\ MaxArrivals \in Nat /\ MaxRelaunches \in Nat

VARIABLES
  ring,       \* telemetry's windows, oldest first
  arrivals,   \* windows delivered so far
  streamId,   \* id the stream gave last
  onset,      \* the aggregator's firstDegradedAt, 0 for none
  relaunches, \* relaunches of the stream so far
  detector    \* the Detector: tracks, incident, cursor; and what it observed

streamVars == <<ring, arrivals, streamId, onset, relaunches>>

None == [opened |-> 0]

\* A service the detector has not seen; base is null exactly while samples = 0.
Untracked == [base |-> 0, samples |-> 0, run |-> 0, flagged |-> FALSE]
NewDetector == [tracks |-> [s \in Services |-> Untracked], incident |-> None,
                cursor |-> 0, observed |-> <<>>]

DetectionInit ==
  /\ ring = <<>> /\ arrivals = 0 /\ streamId = 0 /\ onset = [s \in Services |-> 0] /\ relaunches = 0
  /\ detector = NewDetector

-----------------------------------------------------------------------------
(* The collector and the ring *)

\* classify: silence leaves the onset alone, health clears it, and the first
\* window of at least 5% errors sets it.
OnsetAfter(p, n) ==
  [s \in Services |->
     CASE s \in p.silent                                  -> onset[s]
       [] s \notin p.silent /\ p.err[s] < 50              -> 0
       [] s \notin p.silent /\ p.err[s] >= 50             -> IF onset[s] = 0 THEN n ELSE onset[s]]

\* The error rate is counted; what was not counted is 0.
Window(p, n, id, onsets) ==
  [id    |-> id, n |-> n, seen |-> p.seen, onset |-> onsets,
   p99   |-> p.p99, edges |-> p.edges,
   err   |-> [s \in Services |-> IF s \in p.silent THEN 0 ELSE p.err[s]]]

\* A window is delivered; the source may have been relaunched, and then numbers its
\* windows from the start, as the development source does (tools/dev-windows.js:259).
\* The collector takes ids from the clock: a superset of what it can do.
Arrive(p) ==
  /\ arrivals < MaxArrivals /\ arrivals' = arrivals + 1
  /\ \/ streamId' = streamId + 1 /\ UNCHANGED relaunches
     \/ /\ relaunches < MaxRelaunches /\ relaunches' = relaunches + 1
        /\ arrivals > 0 /\ streamId' = 1
  /\ onset' = OnsetAfter(p, arrivals')
  /\ ring' = Append(ring, Window(p, arrivals', streamId', onset'))

\* Mutant: the newest window only.
SinceNewest(cursor) == {i \in 1..Len(ring) : i = Len(ring)}

\* Where in the ring the windows are that are newer than the cursor; all of it when
\* there is no cursor, or when the newest is older than it.
Since(cursor) ==
  {i \in 1..Len(ring) : cursor = 0 \/ Last(ring).id < cursor \/ ring[i].id > cursor}

-----------------------------------------------------------------------------
(* agents/detector.js *)

\* evaluate: latency against the baseline, once it is warm, or errors.
Breaches(t, p99, err) ==
  \/ t.samples >= Warmup /\ t.base > 0 /\ p99 > t.base * DetectMultiple
  \/ err > DetectErrRate

\* The moving average with weight 2 / (BaselineWindows + 1), rounded down.
Ewma(t, p99) ==
  IF t.samples = 0 THEN p99
  ELSE (2 * p99 + (BaselineWindows - 1) * t.base) \div (BaselineWindows + 1)

Learn(t, p99) == [t EXCEPT !.base = Ewma(t, p99), !.samples = @ + 1]

\* Mutant: the baseline is not frozen.
EvaluateLearning(t, p99, err) ==
  LET run == IF Breaches(t, p99, err) THEN t.run + 1 ELSE 0
  IN [Learn(t, p99) EXCEPT !.run = run, !.flagged = run >= Debounce]

\* The baseline is frozen while the service breaches.
Evaluate(t, p99, err) ==
  LET breach == Breaches(t, p99, err)
      run    == IF breach THEN t.run + 1 ELSE 0
  IN [IF breach THEN t ELSE Learn(t, p99) EXCEPT !.run = run, !.flagged = run >= Debounce]

\* The entry points: what nothing in the window's graph calls.
UserFacing(w) ==
  LET called == {e.to : e \in w.edges}
  IN IF called = {} THEN {} ELSE Services \ called

\* An incident is shown anew by every window that breaches, and stays as it was
\* shown otherwise.
Incident(d, tracks, w) ==
  LET flagged == {s \in Services : tracks[s].flagged}
      failing == {s \in UserFacing(w) : w.err[s] > UserErrRate}
  IN IF Cardinality(flagged) < 2 /\ failing = {} THEN d.incident
     ELSE [opened   |-> IF d.incident = None THEN w.n ELSE d.incident.opened,
           services |-> flagged,
           onsets   |-> [s \in flagged \cup failing |-> w.onset[s]],
           edges    |-> w.edges]

\* observe: a window with the id of the last one is taken for the same.
Observe(d, w) ==
  IF w.id = d.cursor THEN d
  ELSE LET tracks == [s \in Services |-> Evaluate(d.tracks[s], w.p99[s], w.err[s])]
       IN [tracks   |-> tracks, incident |-> Incident(d, tracks, w), cursor |-> w.id,
           observed |-> Append(d.observed, w)]

\* The same; TLC evaluates d once.
ObserveNext(d, w) == CHOOSE r \in {Observe(x, w) : x \in {d}} : TRUE

\* The tick reads every window since its cursor, oldest first.
Observed(d) ==
  LET after[i \in 0..Len(ring)] ==
        IF i = 0 THEN d
        ELSE IF i \in Since(d.cursor) THEN ObserveNext(after[i - 1], ring[i]) ELSE after[i - 1]
  IN after[Len(ring)]

-----------------------------------------------------------------------------
Tracks == [base : Nat, samples : Nat, run : Nat, flagged : BOOLEAN]

\* A flagged service is one that has breached for as long as the debounce, and
\* the candidates of an incident are abnormal services with the graph they were
\* seen in.
DetectionTypeOK ==
  /\ arrivals \in 0..MaxArrivals /\ Len(ring) <= arrivals /\ streamId \in 0..arrivals
  /\ onset \in [Services -> 0..MaxArrivals] /\ relaunches \in 0..MaxRelaunches
  /\ detector.tracks \in [Services -> Tracks]
  /\ \A s \in Services : detector.tracks[s].flagged <=> detector.tracks[s].run >= Debounce
  /\ detector.cursor \in 0..MaxArrivals
  /\ LET i == detector.incident
     IN i # None => /\ i.opened \in 1..MaxArrivals /\ i.edges \subseteq Edges
                    /\ DOMAIN i.onsets \subseteq Services /\ DOMAIN i.onsets # {}
                    /\ i.services \subseteq DOMAIN i.onsets

\* Unless the stream was relaunched, the detector observes every window exactly
\* once and in order, however its clock drifts from the stream's (server.js: it
\* "must not lose EWMA samples when the two cadences drift").
EachWindowOnce ==
  relaunches = 0 =>
    \A i \in DOMAIN detector.observed :
      detector.observed[i].n = arrivals - Len(ring) + i

\* In the i-th window observed: slow unlike in the first, failing, or neither.
Slow(seen, s, i)     == seen[i].p99[s] # seen[1].p99[s]
Failed(seen, s, i)   == seen[i].err[s] > DetectErrRate
Abnormal(seen, s, i) == Slow(seen, s, i) \/ Failed(seen, s, i)

\* What was observed of a service from a normal window on: when it is slow it is so
\* beyond the multiple, after normal windows enough. It never lacks samples, which counts
\* as latency 0, but its counters may be lost.
Plain(seen, s) ==
  /\ seen # <<>> /\ ~Failed(seen, s, 1) /\ seen[1].p99[s] > 0
  /\ \A i \in DOMAIN seen :
       Slow(seen, s, i) =>
         /\ seen[i].p99[s] > DetectMultiple * seen[1].p99[s]
         /\ Cardinality({j \in 1..i - 1 : ~Abnormal(seen, s, j)}) >= Warmup

\* A service is flagged exactly while it has been abnormal for the debounce, for
\* as long as the outage lasts (detector.js: a detector that keeps learning "talks
\* itself out of a real outage"). Not so after a window without samples.
FlagsAreRight ==
  LET seen == detector.observed
  IN \A s \in Services :
       Plain(seen, s) =>
         (detector.tracks[s].flagged <=>
            /\ Len(seen) >= Debounce
            /\ \A i \in Len(seen) - Debounce + 1..Len(seen) : Abnormal(seen, s, i))

=============================================================================
