# IncidentMind in TLA+

IncidentMind runs a small service mesh, watches it through a telemetry pipeline, and
lets a control plane find the root cause of an incident, test it with a live probe,
act on it, and verify the action. These modules model the parts of it in which order,
loss, timeouts and restarts decide whether it is correct. Every definition was
translated from the code under `src/`; `PROJECT.json` names the lines for each.

    tlc -config ActionPath.cfg MCActionPath      model-check a run
    tlapm ActionPath_proofs.tla                  check the proofs of a module

## 1. The system

| Component | State it keeps | Operations | Talks to |
|---|---|---|---|
| Control server (`control/server.js`, `state.js`) | incident, plan, probe, verdict, verification cursor and deadline | detector tick, replan, autonomy, `/approve`, `/reset`, runAction, beginVerification, pumpVerification, maybeExperiment | every agent, by calls; the console, by WebSocket |
| Supervisor | gaps per agent | run a function under a budget, retry once | called by the server around each agent |
| Detector | EWMA baselines, debounce, open incident, cursor | evaluate, observe, reset | reads the telemetry ring |
| Scorer | none | terms, ranking, posteriors, margin, of one incident | called by the tick |
| Experimenter | in-flight slot, aborted flag, probe number | shouldProbe, designProbe, run, abort, reset | admin adapter; the server publishes its results |
| Planner | none | options, gates, recommendation | called by replan |
| Executor | records, consents, in-flight slot | approve, eligible, execute, reset | admin adapter |
| Verifier | active verification, verdicts | start, observe, conclude, timeout, reset | fed by pumpVerification |
| Adapters (`control/adapters`) | window ring and cursor rule; breakers known open | accept, since, recent; admin call, probe, breaker | collector stream; admin API of the services |
| Gateway | calls in flight, probe sheds and their timers, breakers, edge counters | three routes over callUpstream, startProbe, endProbe, breaker, restart, one-second log | auth, checkout |
| Auth, checkout, payments | counters, faults | one handler each around a downstream call | datastore |
| Datastore | one bounded semaphore, statistics | query, resetStats | called by auth, payments and checkout |
| Emitter and counters (`packages/telemetry`) | three rings, retained batch, shed level, cumulative counters | enqueue, flush, applyShed, post, snapshot | posts to the collector |
| Collector | dedup LRU, admission queues, open windows, last counters, drop tallies | ingest, drain, add, advanceWatermark, build, tick, reset | acknowledges emitters; streams windows to the control plane |
| Console, load generator, tools | none that matters here | render, generate requests, start and restart processes | HTTP and WebSocket |

JavaScript runs one callback to completion, so interleaving happens only at an await
that really suspends: an HTTP call, a timer, a sleep. Everything between two such
points is one action here. What makes the system hard:

- the server reads the plan and the incident before an await and writes the plan after
  it, while ticks, approvals, resets and other answers run in between;
- a call abandoned by the supervisor keeps running, and a lost answer looks like a
  refusal;
- a probe must be undone although the control plane may have died;
- hypotheses are known by rank, and every window ranks them anew while a probe that was
  designed for the old ranking runs;
- a call the gateway gives up goes on at the upstream, while its retry is under way;
- the verifier must conclude from a stream that skips, repeats and stops;
- permits pass from query to query while waiting queries time out;
- telemetry posts are retried in growing batches while the first copy may still
  arrive, and buffers at three places overflow.

What makes each component correct:

| Component | Promise |
|---|---|
| Server, Executor, Planner | an action is sent once, alone, with consent if irreversible; the plan stays committed to it; it is settled; a verification follows an applied action |
| Verifier | a verdict rests on sustained evidence from after the action; an action is blamed only on a full budget without a hole; it concludes |
| Experimenter, gateway probe | one probe at a time, shown while it sheds, ended by its own timer, its slot freed |
| Semaphore | permits conserved, none idle while a query waits, oldest first, every waiter served |
| Emitter, collector | counts exact under shedding and loss, replays change nothing, nothing lost unnoticed, snapshots go last |
| Gateway calls | the counter exact and within the bulkhead, attempts bounded, amplification bounded, every request answered, an isolated upstream freed |
| Detector | no window counted twice or missed, flagged exactly while abnormal for the debounce |
| Scorer, Planner, probe results | a plan names a cause that the evidence on display names, and the service a probe measured |

## 2. The modules

    Telemetry <- Emitter, Collector <- Pipeline <- MCPipeline, Pipeline_proofs
    Detection, Scoring <- Planning <- Diagnosis <- MCDiagnosis, Diagnosis_proofs
    BoundedCalls <- (refined by) Mesh <- MCMesh, Mesh_proofs
    PermitPool <- (refined by) Semaphore <- MCSemaphore, Semaphore_proofs
    Experiment <- MCExperiment, Experiment_proofs
    ActionPath <- MCActionPath, ActionPath_proofs
    Verification <- MCVerification, Verification_proofs
    Induction <- Verification_proofs, Diagnosis_proofs, Pipeline_proofs

**ActionPath** models replan, maybeAutonomous, `/approve`, runAction, beginVerification
and `/reset` of the server, the Executor, the Planner's gate, and the supervisor's
budget and retry. `Tick` is one detector interval: its awaits are on settled promises.
`Launch` is runAction up to its await; `AdminReturns` is everything from the answer on;
`BudgetExpires` is the supervisor's timer, which retries on the run's own snapshot of
plan and incident while the abandoned call lives on in `calls`. `DataPlaneHandles` is
independent of whether anyone still waits. Which hypothesis is supported, and so which
options a plan has, is chosen by `PlanResults`; a `"stub"` plan is what
`{ ...null, executing }` builds. Two constants say how the operator behaves:
`OverlappingReset` and `OverlappingApprove` allow those requests while a call is out.

**Verification** models the telemetry ring and its cursors, the tick that reads it,
and the Verifier: baseline, observation, classifier, sustained recovery, span, budget,
deadline. A window is `[id, n, svc]`: the code sees `id`; `n`, the number of the arrival,
is what properties about "after the action" are stated with, as is `relaunched`, a history
component of a verification. A relaunched stream starts its ids again: so does the
development source (`tools/dev-windows.js:259`). The collector takes its ids from the clock
(`windows.js:22`), which a relaunch does not set back, so the model allows more than it
can do; `since` has a branch for it (`telemetry.js:55`).

**Experiment** models one probe from gate to result and the shed on the gateway with
its timer. `mail` holds requests on their way; a call may fail although its request
arrives (`Unanswered`). `runs` are the activations of `run` suspended on the call or
the sleep, which a reset does not cancel.

**Semaphore** models `acquire`, `release`, the waiter's timer and `resetStats` as
`POST /query` uses them. **PermitPool** is the abstract specification: queries hold,
wait or are gone, never more than `Size` hold, nobody waits while a permit is idle.
`Semaphore!Pool` is the refinement mapping.

**Mesh** models the gateway's routes over `callUpstream`, from the user that sends a
request to its answer. `Send` starts the request's calls in one step, as the route does
before its first await: breaker, the probe's coin, bulkhead, and the first attempt.
`TimesOut`, `Refused` and `Answered` end an attempt, `Retry` is the end of the backoff,
and `Leave` the `finally` block. A timed-out attempt leaves its handler at work: `left`
counts those. `Log` resets the counters under the calls in flight, and `carried`, a
history variable, remembers how many those were. **BoundedCalls** is the abstract
specification: a call is a number of attempts, at most `MaxAttempts` of them, and never
more than `Limit` calls are in progress per upstream. `Mesh!Abstract` maps a call in
flight to its attempts and every other to 0.

**Detection** models what the aggregator says of a service, the control plane's ring and
cursor, and the Detector. **Scoring** and **Planning** are the Scorer and the Planner as
operators, in thousandths. **Diagnosis** composes them: `Tick` is the detector's
interval, which observes, scores, starts a probe and replans without an await that
suspends, and `ProbeConcludes` the continuation that corrects the hypotheses and replans.
How a probe runs is Experiment's, what becomes of an issued action ActionPath's. What a
service does in a window is a member of `Patterns`, given by MCDiagnosis; whether the
unrounded margin reaches its threshold when the rounded one equals it is `slack`, chosen
freely.

**Telemetry** holds what both ends of the pipeline share: events and three priority
queues. **Emitter** models `enqueue`, `takeBatch`, `applyShed`, `flush` with its
acknowledgement or failure, and what feeds it. **Collector** models dedup, admission
with its shed level, the window store, the differencing of cumulative counters and the
tick. Time is counted in windows. **Pipeline** composes them over posts and
acknowledgements that may be lost, late or overtaken, and restarts a service
(`tools/mesh.js`) or resets the collector. `life` marks the incarnation that sent an
event; no code sees it. A body over 8 MB (`BodyMax` events) never reaches the handler.
The loops of these modules (`Kept`, `Ingested`, `Build`, `Published`) are recursive
functions, so that proofs can follow them. `TypeOK` bounds the samples' ring and not the
snapshots': a snapshot that meets its ring full displaces a sample from the other ring and
is pushed all the same, so its own ring grows past `RING_CAP` while a post is out and
samples keep arriving (`emitter.js:81-93`). An attempt to prove a bound for it failed there.

**Induction** holds what the proofs need beside the library: induction over the numbers
stated with a set, the greatest and the least element of a finite set, what a loop written as
a recursive function keeps, and sums over finite sets and their parts.

## 3. The runs

Passing runs. The bounds are in the `.cfg` files; each named bound is commented in its
module.

| Run | States | What it shows, and why the bounds suffice |
|---|---|---|
| ActionPath | 1603 | Shipped budgets (the Executor's deadline, 2500 ms, is inside its 3000 ms budget), operators that wait for the call. `CommittedWhileInFlight`, `StaysUp`, and `ExecutionSettles`. Two incidents, two approvals and a reset let one incident's action meet the next. |
| ActionPathRetry | 99290 | A budget shorter than the deadline, so that the retry runs, and approvals during the call. `AtMostOnce`, `OneChangeAtATime`, `IrreversibleNeedsConsent`, `TypeOK`. One human and one autonomous option, three approvals. |
| Verification | 9334393 | Two services, a ring of three, gaps, blind windows, one relaunch. `RecoveredIsSustained`, `EvidenceFollowsAction`, `BlameIsUnbroken`. Four arrivals fill a baseline and a whole observation budget; a relaunch during it has the ring replayed. |
| VerificationLive | 7247 | `VerificationConcludes` while the stream delivers, across a reset; `TypeOK`. |
| Diagnosis | 299303 | Five services and their six calls, six patterns (one of them with a service's counters lost, one with a service silent), one relaunch, two probes, a reset. `EachWindowOnce`, `FlagsAreRight`, `PlanIsSupported`, `PlanIsForMeasured`, `TypeOK`. Four windows are a warm baseline, a debounce, and a ranking that changes under a probe; the patterns lead to separated, ambiguous and exchanged rankings. |
| Mesh | 214728 | Two users, one slot to auth, one retry, one counted call a window, at most one handler left behind when a request is sent. `BulkheadExact`, `AmplificationIsBounded`, `CallsSpec`, `RequestsAreAnswered`, `IsolationFrees`, `TypeOK`. Two users contend for the slot, and one has calls to both upstreams. |
| Semaphore | 59132 | Five queries on two permits and two queue slots take every branch of `acquire` and `release`. `PermitsConserved`, `NoIdlePermit`, `OldestFirst`, `WaitersAreServed`, `TypeOK`, and `PoolSpec`, the refinement. |
| Experiment | 18233 | Two probes, two upstreams, one reset, restarts, death of the control plane. `OneProbeAtATime`, `ShedIsShown`, `ShedHasItsTimer`, `ShedEnds`, `SlotIsFreed`, `TypeOK`. |
| Pipeline | 643057 | One service, three events, two posts, rings, batches and queues of two, a restart or a reset. `CountsAreExact`, `ReplayChangesNothing`, `NothingVanishes`, `SnapshotsGoLast`, `TypeOK`. Every buffer overflows and every shed level above 0 occurs; services share no state but the queues. With four events (3.7 million states) or three posts (6.4 million), and shed thresholds one higher, the invariants held too. |

Runs that show a disagreement between the code and what its documentation says:

| Run | Property | What happens |
|---|---|---|
| ActionCrash | `StaysUp` | an approval refused `IN_FLIGHT` clears `executing`, the plan is replaced by null, the answer spreads it, and `plan?.options.find` throws where nobody awaits (`server.js:147`) |
| VerificationStalled | `VerificationConcludes` | without a new window the tick returns before the pump, so the deadline is never looked at (`server.js:298` against `:167`) |
| ProbeOutranked | `ProbeOutranks` | a probe matched rank 2; the next window ranks anew, and the tick plans with the old result by its rank, or without it: the plan names another service, or nothing (`server.js:310` against `planner.js:36`) |

Where a property carries a condition, the condition is a limit of the code, met while
modelling:

- `OverlappingReset = FALSE` in ActionPath: `/reset` during the admin call forgets record
  and slot, so the same option can be sent twice (`executor.js:194`), and the answer that
  comes after it writes the old action onto the new plan (`server.js:217`).
  `OverlappingApprove = FALSE`: a refused approval clears `executing` (`server.js:221`);
- an applied action gets no verdict when the Verifier is busy or short of a baseline
  (`server.js:151`);
- `resets = 0` in Experiment: a reset cancels no suspended run, so the next probe may
  overlap it, and the old run frees a slot that is not its own (`experimenter.js:212`); it
  also clears the flag `abort` has just set, and the old run may still be measured and
  shown (`experimenter.js:297`);
- `~lost`: a call whose answer is lost frees the slot while the shed is on;
- `restarts = 0` and `~v.relaunched` in Verification, and `relaunches = 0` in Diagnosis:
  ids that start again make `since` replay the ring (`telemetry.js:55`). One window may
  then be observed twice; after a relaunch before the action, windows older than it may
  have ids past the anchor and be evidence (a relaunch after it is harmless, which
  `EvidenceFollowsAction` says); and until the ids pass the cursor every tick feeds the whole ring to
  the Detector again; a new window whose id is the cursor's is skipped
  (`detector.js:101`);
- a window that cannot see a service counts toward the duration of a sustained recovery:
  `summarise` leaves it out of the evidence, not out of the tail (`verifier.js:54`).
  `RecoveredIsSustained` says what remains: none of the windows shows it unhealthy;
- `Plain` in `FlagsAreRight` asks for normal windows enough to warm the baseline before a
  slow one, and for samples: a window without any counts as latency 0, ends the debounce and
  lowers the baseline, after which normal latency may breach it. Lost counters alone do
  not: the latency is still that of the samples (`aggregate.js:134`);
- `PlanIsForMeasured` holds while the ranking is the probed one: a match is a rank;
- `carried` in `AmplificationIsBounded`: a retry is counted in the second in which it is
  made, so a second may show retries of calls that an earlier one counted, and
  `aggregate.js:31` then shows amplification 0 if it counts none of its own;
- the bulkhead bounds what the gateway awaits, not what the upstream works on: the
  handler of a timed-out attempt goes on (`service.js:86` says otherwise).
  `IsolationFrees` promises only that isolation ends it in the end;
- `planner.js:130` speaks of the busiest inbound edge; the code opens the breaker of the
  first caller by name, and the model with it;
- `Undisturbed` in Pipeline: after a collector reset the first windows report whole
  cumulative counts, and a service started again numbers its events from 0, which the
  dedup takes for replays (`dedup.js:17`) although `aggregate.js:24` provides for
  restarts;
- `flush` merges what it retains into one batch, so the bound of 20 batches never
  applies (`emitter.js:130`, "never without bound" in line 128); a batch that outgrows
  8 MB is refused for ever. The properties bound nothing there;
- a gap is not always INCONCLUSIVE (`README.md:138`): RECOVERED may be concluded over
  one (`verifier.js:246`);
- not every missing window is counted, and missing evidence may end in blame
  (`README.md:138`: "Missing windows are counted, never interpolated. Missing evidence is
  never treated as evidence of failure"). A hole is counted between two observed windows
  (`verifier.js:236`, `last &&`), so those lost between the anchor and the first observed
  one are not: with anchor 1 and windows 3, 4, 5, which the run reaches, `gaps` is 0 and
  the verdict may be PARTIAL or FAILED. `BlameIsUnbroken` says what remains: the windows
  that blame an action are a full budget and follow one another;
- `admission.js:71` says pri-0 is "never dropped, at any level"; a queue full of
  snapshots refuses the next one, and counts it. `SnapshotsGoLast` says what remains;
- windows without events are not published, although `server.js:105` of the collector
  says one is published "whether or not the window had events".

### Fairness

| Assumption | Why the code gives it |
|---|---|
| `ActionPath`: `WF(Settle)` | the admin call has its own 2500 ms deadline and always settles |
| `Verification`: `WF(Tick)`, `WF(DeadlinePasses)` | an interval timer, and the clock |
| `Verification`: `WF(Arrive)`, only in `StreamSpec` | the collector publishes once a second while events come; `VerificationConcludes` fails without it, which VerificationStalled shows |
| `Semaphore`: `WF(Release(q))` | the service interval is a timer, and `release` is in a `finally` block. No timeout is relied on |
| `Experiment`: `WF` of expiry, and of some suspended run's step | the gateway's timer fires; calls have deadlines and the sleep ends. Nothing is assumed of the gateway's handling of a request |
| `Mesh`: `WF(TimesOut(c))`, `WF(Retry(c))` | the deadline of an attempt and the backoff are timers |
| `Mesh`: `WF(Reply(u))` | a settled promise continues the route |
| `Mesh`: `WF(LeftEnds(up))` | the handlers' own calls have deadlines. No upstream need answer an attempt |
| `Pipeline`, `Diagnosis`: none | their properties are safety; a flush or a tick that never happens breaks none |

## 4. What is proved

Each theorem holds for every value of the constants allowed by the module's named
assumption. The proofs are in `*_proofs.tla`.

ActionPath:

- `TypeCorrect`: `TypeOK`. `TypeStep` has one step per action.
- `ConsentAlways`: `Spec => []IrreversibleNeedsConsent`. Not inductive alone: a retry
  sends what an earlier launch decided, and a launch trusts the gates of a plan built
  earlier. `ConsentInv` adds that no plan ever marks an irreversible option AUTONOMOUS
  (`PlansGated`), that every suspended run's snapshot is gated the same way
  (`RunsGated`), and that every consent the Executor holds was given by an operator.
- `AtMostOnceAlways`, `OneChangeAlways`: when resets wait for the call
  (`OverlappingReset = FALSE`), no action is sent twice and no two are out together, for
  any budgets and any approvals. `SerialInv` relates the histories to the Executor's
  state: every POST is either the one outstanding call, which the slot names, or has a
  record, or belongs to an incident that a reset closed; incident ids never recur.
- `CommitmentHolds`, `StaysUpAlways`: when besides the budget exceeds the deadline and
  approvals wait too (`Shipped`), the plan names what is being executed and the process
  stays up. `CommitInv` adds that a plan with a call out was built, and that a plan under
  verification carries its action: so replan never replaces either, and no plan is ever
  the stub that spreading null builds. ActionCrash shows that `Shipped` is needed.

Semaphore:

- `PermitsSafe`, `NoIdlePermitAlways`, `TypeCorrect`: `QueueIsExact`, `PermitsConserved`
  and `NoIdlePermit` are only inductive together: handing over needs the queue to hold
  exactly the waiting queries, giving back needs nobody to wait while a permit is free.
- `OldestFirstAlways`: `Spec => OldestFirst`. `OrderInv` says the queue is sorted by
  arrival and that no rank exceeds their number, so who joins ranks last, and a query that
  leaves from anywhere (a timeout) keeps it sorted.
- `ImplementsPool`: `Spec => PoolSpec`, the refinement of PermitPool, from the same
  invariant, one step per action.

Mesh:

- `TypeCorrect`, `BulkheadAlways`: `TypeOK /\ BulkheadExact` is inductive. `TypeOK` says
  that a user who awaits nothing has no call, so `Send` adds a caller and never counts
  one twice; `BulkheadExact` makes the counter positive while a call is in flight, so
  `Leave` may take one from it.
- `ImplementsBoundedCalls`: `Spec => CallsSpec`. A step of one user's calls is an
  abstract step (`OneUserMoves`), everything else a stutter.
- `AmplificationAlways`: `Spec => []AmplificationIsBounded`. Not inductive: a retry adds an
  attempt to a second whose bound may be reached. `AmpInv` counts the retries still open
  (`Ahead`) with the attempts made, so a retry only moves one from the former to the latter.

Experiment:

- `TypeCorrect`, `TimersAlways`: `ShedHasItsTimer` is inductive over `TypeOK`, since a
  probe's number is never that of no probe.
- `OneProbeAlways`: until a reset the slot names the one run there is (`OneRun`).
- `ShownAlways`: `Spec => []ShedIsShown`, from `Owned`: every request under way and every
  shed belongs to that run, and a request carried out is no longer under way. A run ends
  only when its shed has: it sleeps past the timer, which `ShedHasItsTimer` says is
  there, or its failed call, not being lost, never took effect.

Verification, from `Inv`, with one lemma for each action:

- `TypeCorrect`: `TypeOK`.
- `EvidenceAlways`: `Spec => []EvidenceFollowsAction`. Ids are all the code compares, so
  the invariant relates them to the order of delivery. Unless a relaunch came before the
  action, what the ring holds with an id past the anchor came after the action, and so it
  stays (`ActiveOK`), because what is delivered later is newer whatever its id. It holds
  when the action is applied because until a relaunch the ring is sorted by id and by
  delivery (`RingOK`).
- `RecoveredAlways`: `Spec => []RecoveredIsSustained`, over any loss. `Sound` says of a
  verification under way and of a verdict what its verdict rests on; that the windows are
  distinct needs that, until a relaunch, whatever has an id past the cursor came after
  everything observed.
- `BlameIsUnbrokenAlways`: `Spec => []BlameIsUnbroken`, for any stream. `Sound` adds that
  while no hole is counted the observed ids follow one another (each window is compared
  with the one before it), and that the budget is never exceeded, so that blame, reached
  only when it is spent, rests on exactly that many windows. It is about the windows
  observed, not about those lost before the first of them.

Diagnosis:

- `EachWindowOnceAlways`: `Spec => []EachWindowOnce`. `UpToDate` numbers the ring: until a
  relaunch what is observed is what was delivered up to the cursor, so that what the ring
  holds past the cursor is what is missing (`SinceIsUnobserved`).
- `FlagsAlways`: `Spec => []FlagsAreRight`. `Follows` says what the track of a service
  `Plain` so far holds: the run of abnormal windows and the number of normal ones,
  counted from what was observed, and a baseline equal to the normal latency, which the
  abnormal ones leave alone and the trailing average of a constant does not move.
- `PlanIsSupportedAlways`, `PlanIsForMeasuredAlways`: `PlanInv` says that a plan nobody has
  acted on rests on the hypotheses and the probe result that are on display (`Rests`), so
  a tick or a probe that changes them must plan anew in the same step, and it does.
- `TypeCorrect`: `TypeOK`, whose last parts say that the hypotheses are ranked by score, a
  score and a posterior are shares, a result names what was probed, and an option of a plan
  recovers something. `DisplayInv` adds what that needs: an incident has a window in the ring
  (detection sets it and a reset clears both), the hypotheses on display are a `Ranking`, two
  of them were probed (fewer are always separated), and a plan is `PlanOK`. The order is
  proved from the places (`RankedInOrder`): `Before` is a strict total order, so as many
  places as candidates, no two alike, fill `1..n`. The numbers follow from bounds of each
  term (`ExpInRange`, `ScoreInRange`) and from a posterior being a part of the sum it is
  divided by (`PosteriorsInRange`, `PartOfSum`).

Pipeline:

- `TypeCorrect`: `TypeOK`, from `TypeInv`, through the loops of a batch, a window and a
  tick (`IngestLoop`, `BuildLoop`, `PublishLoop`).
- `SnapshotsGoLastAlways`: `Spec => SnapshotsGoLast`, whatever a batch carries: along the
  loop that admits a batch a dropped snapshot means a queue full of snapshots, and it
  stays full of them to the end of the batch.
- `ReplayChangesNothingAlways`: `Spec => []ReplayChangesNothing`. `HeldApart` says that the
  collector holds no key twice, in one place or two, and that the dedup knows every key
  held. It survives a restart and a reset, so the theorem needs less than the property
  says.
- `NothingVanishesAlways`: `Spec => []NothingVanishes`. `LossInv` has two parts. What
  travels under the number of the post under way is that post (`PostInv`). And the collector
  holds every key that has `Passed`, with one more counted for each it does not
  (`Accounted`): the keys the dedup remembers, those of a post that was answered, which its
  emitter forgets as soon as it reads the answer, and those no emitter holds any more. No
  record of what was dropped is needed: a step that loses keys counts as many
  (`MissesAtMost`), and such bounds add up along the loops of a batch and a tick. A key that
  the dedup forgot may be admitted, and dropped and counted, a second time; so much the
  safer, and the theorem holds for a dedup of any size.
- `CountsAreExactAlways`: `Spec => []CountsAreExact`. A counter difference is exact only if
  the snapshots of a service reach their windows in the order they were taken, over posts
  that overtake one another. `CountInv` says so place by place: a service's snapshots
  agree in number, count and time wherever they are (`KnownInv`); an emitter holds them
  in turn (`TurnsInv`); a post carries with a snapshot every older one that the collector
  does not know yet, because a failed batch is merged in front of the next (`WireInv`); so
  what the collector admits comes after all it has admitted (`OpenInv`); and the windows
  published so far add up to the newest count in them (`WindowsInv`). What an
  acknowledgement lets go, the collector knows (`AnswersKnown`).

`ReplayChangesNothingAlways` and `CountsAreExactAlways` assume `RoomyDedup`: the keys there
can be (services times events a service may number) fit in the dedup. The run's constants
satisfy it. With a dedup of one key TLC finds both properties violated: a copy that arrives
after its keys were displaced is admitted again, and the code keeps 50000
(`tuning.json:28`). The bound on events is the model's, so what is proved of a running system
is what it does within the dedup's memory. `NothingVanishes` needs no such assumption.

Model-checked only:

- liveness (`ExecutionSettles`, `VerificationConcludes`, `WaitersAreServed`, `ShedEnds`,
  `SlotIsFreed`, `RequestsAreAnswered`, `IsolationFrees`): fairness and ENABLED are out of
  the prover's reach;
- what the runs that expect a violation refute.

## 5. What is not modelled

- **Scorer's labels and statements, Planner's rationales, the probe's measured
  magnitude:** wording, and a measurement whose outcome is chosen freely.
- **Collector's quantiles, confidence and graph decay:** statistics over the same events;
  the counter differences they rest on are in Pipeline, and a window's latency, error
  rate and amplification are inputs of Detection. Averages and exponentials are rounded
  to integers there.
- **The other services' handlers:** what auth, checkout and payments compute is work that
  ends (Mesh) or a query (Semaphore); the validators are CPU time.
- **Supervisor's gap statistics and the budgets of the agents that never suspend;**
  emitter's interval timing, edge counters and reservoir.
- **Fan-out, console, load generator's statistics, tools, contract checks:** output,
  input and validation that logs. `mesh.js restart` and the resets appear as actions.

## 6. Plan

Done: every module above, model-checked, and every safety property of a passing run
proved. What is left:

1. **Experiment with Verification:** a probe that sheds while windows are evidence for a
   verdict; whether the two overlap, and what is observed then.
2. **Diagnosis with Verification** through the ring they share, to follow one incident
   from its first window to its verdict.
3. **Proofs:** the pipeline as an implementation of an abstract counter per service, whose
   mapping `CountInv` all but states; `CountsAreExact` with a dedup that forgets, while no
   post is older than its memory.
4. Collector's edge counters and drop tallies (`server.js:129-144`) in Build.
