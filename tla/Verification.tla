----------------------------- MODULE Verification -----------------------------
(***************************************************************************)
(* From an applied action to its verdict: the ring of window aggregates     *)
(* (control/adapters/telemetry.js), the detector's tick that reads it and    *)
(* pumps the Verifier (control/server.js), and the Verifier itself           *)
(* (control/agents/verifier.js). The stream may skip window ids, restart     *)
(* them, show a service as UNKNOWN, or simply stop.                          *)
(***************************************************************************)
EXTENDS Integers, Sequences, FiniteSetsExt, SequencesExt

CONSTANTS
  Services,        \* services a window reports on
  Recovers,        \* those the plan predicts will recover
  Degrades,        \* those it accepts will get worse
  Worst,           \* ranks run from 0, HEALTHY, to Worst
  BaselineWindows, \* windows summarised before the action
  VerifyWindows,   \* observation budget
  SustainWindows,  \* how long RECOVERED must hold to end early
  MaxSpan,         \* window ids after which observation gives up
  RingSize,        \* windows the ring holds
  CanBeBlind,      \* may a window report a service as UNKNOWN?
  MaxGap,          \* most window ids a message may skip
  Actions,         \* bound: actions applied in one incident
  MaxArrivals,     \* bound: windows delivered
  MaxRestarts,     \* bound: relaunches of the stream
  MaxResets        \* bound: POST /reset requests

ASSUME VerificationAssumption ==
  /\ Recovers \subseteq Services /\ Recovers # {}
  /\ Degrades \subseteq Services
  /\ Worst \in Nat \ {0} /\ CanBeBlind \in BOOLEAN /\ MaxGap \in Nat
  /\ BaselineWindows \in Nat \ {0} /\ SustainWindows \in Nat \ {0}
  /\ SustainWindows <= VerifyWindows /\ VerifyWindows \in Nat
  /\ BaselineWindows <= RingSize /\ RingSize \in Nat /\ MaxSpan \in Nat
  /\ Actions \in Nat /\ MaxArrivals \in Nat /\ MaxRestarts \in Nat /\ MaxResets \in Nat

VARIABLES
  ring,         \* windows held, oldest first
  arrivals,     \* windows delivered so far
  streamId,     \* window id the stream delivered last
  restarts,     \* relaunches of the stream so far
  incident,     \* is an incident open?
  detCursor,    \* the Detector's lastWindowId, 0 for null
  acted,        \* actions applied in this incident
  active,       \* the Verifier's active verification
  verifyCursor, \* server.js verifyCursor, 0 for null
  expired,      \* has verifyDeadline passed?
  verdict,      \* the published verdict
  resets        \* POST /reset requests so far

streamVars == <<ring, arrivals, streamId, restarts>>
vars == <<streamVars, incident, detCursor, acted, active, verifyCursor, expired,
          verdict, resets>>

Ranks   == 0..Worst
Unseen  == Worst + 1                  \* state UNKNOWN, or service absent
Reports == [Services -> IF CanBeBlind THEN Ranks \cup {Unseen} ELSE Ranks]
Verdicts == {"RECOVERED", "PARTIAL", "FAILED", "INCONCLUSIVE"}

\* n is the arrival's number; only id is visible to the code.
Windows == [id : Nat \ {0}, n : Nat \ {0}, svc : Reports]
\* relaunched is a history component: was the stream relaunched before the action?
Idle == [anchor |-> 0, since |-> 0, relaunched |-> FALSE, before |-> <<>>,
         observed |-> <<>>, sustained |-> 0, gaps |-> 0, verdict |-> "none",
         running |-> FALSE]

-----------------------------------------------------------------------------
(* adapters/telemetry.js *)

Tail_(s, k) == SubSeq(s, IF Len(s) > k THEN Len(s) - k + 1 ELSE 1, Len(s))

\* Where in the ring the windows are that are newer than the cursor; all of it when
\* there is no cursor, or when the newest is older than it: the stream restarted.
Since(cursor) ==
  {i \in 1..Len(ring) : cursor = 0 \/ Last(ring).id < cursor \/ ring[i].id > cursor}

CursorAfter(new, cursor) == IF new = {} THEN cursor ELSE ring[Max(new)].id

-----------------------------------------------------------------------------
(* agents/verifier.js: summarise, classifyVerdict and the observation loop *)

\* Worst state seen; a window that could not see the service is left out.
Summarise(windows) ==
  [s \in Services |->
     LET seen == {w.svc[s] : w \in Range(windows)} \ {Unseen}
     IN IF seen = {} THEN Unseen ELSE Max(seen)]

Classify(before, after) ==
  LET measurable == {s \in Recovers : before[s] # Unseen /\ after[s] # Unseen}
      healthy    == {s \in measurable : after[s] = 0}
      improved   == {s \in measurable : after[s] < before[s]}
      regressed  == {s \in Services \ Degrades :
                       before[s] # Unseen /\ after[s] # Unseen /\ after[s] > before[s]}
  IN CASE measurable = {}                           -> "INCONCLUSIVE"
       [] healthy = Recovers /\ regressed = {}      -> "RECOVERED"
       [] healthy \cup improved # {}
            /\ ~(healthy = Recovers /\ regressed = {}) -> "PARTIAL"
       [] OTHER                                     -> "FAILED"

\* Mutant: the baseline's own windows are observed.
IsEvidenceAny(v, w) == TRUE

IsEvidence(v, w) == w.id > v.anchor

\* Mutant: off by one.
HeldOnce(sustained) == sustained >= SustainWindows - 1

Held(sustained) == sustained >= SustainWindows

\* Mutant: off by one.
SpentLate(observed) == Len(observed) > VerifyWindows

Spent(observed) == Len(observed) >= VerifyWindows

\* Mutant: only the latest hole is remembered.
GapsLatest(v, w) ==
  IF v.observed # <<>> /\ w.id # Last(v.observed).id + 1 THEN 1 ELSE 0

\* A hole is counted between two observed windows only: what is lost between the anchor
\* and the first observed window is not.
Gaps(v, w) ==
  v.gaps + IF v.observed # <<>> /\ w.id # Last(v.observed).id + 1 THEN 1 ELSE 0

\* The verdict when the budget is spent without a sustained recovery.
AtBudget(trial, gaps) == IF gaps > 0 THEN "INCONCLUSIVE" ELSE trial

\* One window of the observation loop, for the verification v.
ObserveOne(v, w) ==
  LET observed  == Append(v.observed, w)
      gaps      == Gaps(v, w)
      trial     == Classify(v.before, Summarise(Tail_(observed, SustainWindows)))
      sustained == IF trial = "RECOVERED" THEN v.sustained + 1 ELSE 0
      outcome   ==
        CASE Held(sustained)                          -> trial
          [] ~Held(sustained) /\ Spent(observed)      -> AtBudget(trial, gaps)
          [] ~Held(sustained) /\ ~Spent(observed)
               /\ w.id - v.anchor > MaxSpan           -> "INCONCLUSIVE"
          [] OTHER                                    -> "none"
  IN IF v.verdict # "none" \/ ~IsEvidence(v, w) THEN v
     ELSE [v EXCEPT !.observed = observed, !.gaps = gaps,
                    !.sustained = sustained, !.verdict = outcome]

\* The same; TLC evaluates v once.
ObserveNext(v, w) == CHOOSE u \in {ObserveOne(x, w) : x \in {v}} : TRUE

\* observe, over the new windows, oldest first.
Observe(v, new) ==
  LET after[i \in 0..Len(ring)] ==
        IF i = 0 THEN v
        ELSE IF i \in new THEN ObserveNext(after[i - 1], ring[i]) ELSE after[i - 1]
  IN after[Len(ring)]

-----------------------------------------------------------------------------
(* The stream *)

Push(id) ==
  \E report \in Reports :
    /\ ring' = Tail_(Append(ring, [id |-> id, n |-> arrivals + 1, svc |-> report]),
                     RingSize)
    /\ arrivals' = arrivals + 1 /\ streamId' = id

Arrive ==
  /\ arrivals < MaxArrivals
  /\ \E skipped \in 0..MaxGap : Push(streamId + 1 + skipped)
  /\ UNCHANGED <<restarts, incident, detCursor, acted, active, verifyCursor,
                 expired, verdict, resets>>

\* The source is relaunched and numbers its windows from the start, as the development
\* source does (tools/dev-windows.js:259). The collector takes ids from the clock, which
\* a relaunch does not set back: a superset of what it can do.
Restart ==
  /\ restarts < MaxRestarts /\ restarts' = restarts + 1
  /\ arrivals < MaxArrivals /\ Push(1)
  /\ UNCHANGED <<incident, detCursor, acted, active, verifyCursor, expired,
                 verdict, resets>>

-----------------------------------------------------------------------------
(* server.js *)

\* beginVerification for an action of this incident, just APPLIED. The Verifier
\* refuses while it watches another, or with too few windows for a baseline.
Apply ==
  /\ incident /\ acted < Actions /\ acted' = acted + 1
  /\ LET recent == Tail_(ring, BaselineWindows)
     IN \/ /\ active.running \/ Len(recent) < BaselineWindows
           /\ UNCHANGED <<active, verifyCursor, expired>>
        \/ /\ ~active.running /\ Len(recent) = BaselineWindows
           /\ active' = [Idle EXCEPT !.anchor = Max({w.id : w \in Range(recent)}),
                                     !.since = arrivals, !.relaunched = restarts > 0,
                                     !.before = Summarise(recent), !.running = TRUE]
           /\ verifyCursor' = 0 /\ expired' = FALSE
  /\ UNCHANGED <<streamVars, incident, detCursor, verdict, resets>>

DeadlinePasses ==
  /\ active.running /\ ~expired /\ expired' = TRUE
  /\ UNCHANGED <<streamVars, incident, detCursor, acted, active, verifyCursor,
                 verdict, resets>>

\* Past the deadline, silence is INCONCLUSIVE.
Concluded(v) ==
  IF v.verdict = "none" /\ expired THEN [v EXCEPT !.verdict = "INCONCLUSIVE"] ELSE v

\* pumpVerification, when a verification is running.
Pump ==
  LET new   == Since(verifyCursor)
      final == Concluded(Observe(active, new))
  IN /\ verifyCursor' = CursorAfter(new, verifyCursor)
     /\ \/ final.verdict = "none" /\ active' = final /\ UNCHANGED verdict
        \/ final.verdict # "none" /\ active' = Idle /\ verdict' = final

\* One detector tick. It reads what is newer than its cursor, and with nothing
\* new it ends there: no incident in hand, nothing is pumped.
Tick ==
  LET new == Since(detCursor)
  IN /\ new # {}
     /\ detCursor' = CursorAfter(new, detCursor)
     /\ incident' \in {incident, TRUE}
     /\ \/ incident' /\ active.running /\ Pump
        \/ ~(incident' /\ active.running) /\ UNCHANGED <<active, verifyCursor, verdict>>
     /\ UNCHANGED <<streamVars, acted, expired, resets>>

Reset ==
  /\ resets < MaxResets /\ resets' = resets + 1
  /\ ring' = <<>> /\ incident' = FALSE /\ detCursor' = 0 /\ acted' = 0
  /\ active' = Idle /\ verifyCursor' = 0 /\ expired' = FALSE /\ verdict' = Idle
  /\ UNCHANGED <<arrivals, streamId, restarts>>

-----------------------------------------------------------------------------
Init ==
  /\ ring = <<>> /\ arrivals = 0 /\ streamId = 0 /\ restarts = 0
  /\ incident = FALSE /\ detCursor = 0 /\ acted = 0
  /\ active = Idle /\ verifyCursor = 0 /\ expired = FALSE /\ verdict = Idle
  /\ resets = 0

Next == Arrive \/ Restart \/ Apply \/ DeadlinePasses \/ Tick \/ Reset

Spec == Init /\ [][Next]_vars

\* The interval timer fires for ever and the clock advances; the stream may stop.
ClockSpec  == Spec /\ WF_vars(Tick) /\ WF_vars(DeadlinePasses)
\* Besides, the collector keeps delivering a window a second.
StreamSpec == ClockSpec /\ WF_vars(Arrive)

-----------------------------------------------------------------------------
Verification == [anchor : Nat, since : Nat, relaunched : BOOLEAN,
                 before : [Services -> Ranks \cup {Unseen}] \cup {<<>>},
                 observed : Seq(Windows), sustained : Nat, gaps : Nat,
                 verdict : Verdicts \cup {"none"}, running : BOOLEAN]

\* Every variable stays in its domain and the ring within its size.
TypeOK ==
  /\ ring \in Seq(Windows) /\ Len(ring) <= RingSize
  /\ active \in Verification /\ verdict \in Verification
  /\ Len(active.observed) < VerifyWindows
  /\ detCursor \in Nat /\ verifyCursor \in Nat /\ streamId \in Nat
  /\ {incident, expired} \subseteq BOOLEAN /\ acted \in 0..Actions

\* RECOVERED rests on SustainWindows consecutive observed windows, all distinct,
\* none of which shows a service predicted to recover as unhealthy, and which show
\* each of them healthy (verifier.js observe: "only once it has held"). A window
\* that cannot see the service counts toward the duration all the same: summarise
\* drops it from the evidence, not from the tail. A relaunched stream makes the
\* adapter replay its ring, and one window may then count twice.
RecoveredIsSustained ==
  restarts = 0 /\ verdict.verdict = "RECOVERED" =>
    LET tail == Tail_(verdict.observed, SustainWindows)
    IN /\ Cardinality({w.n : w \in Range(tail)}) = SustainWindows
       /\ \A s \in Recovers :
            /\ \A w \in Range(tail) : w.svc[s] \in {0, Unseen}
            /\ \E w \in Range(tail) : w.svc[s] = 0

\* Only windows delivered after the action are evidence about it (verifier.js observe:
\* "pre-action, not evidence"), even when the stream is relaunched while they are
\* observed and the adapter replays its whole ring. When it was relaunched before the
\* action this fails: the anchor is an id, and older windows may have greater ones.
EvidenceFollowsAction ==
  \A v \in {active, verdict} :
    ~v.relaunched => \A w \in Range(v.observed) : w.n > v.since

\* An action is blamed only on a full budget of windows whose ids follow one another:
\* no hole between two of them, however many the stream had and whatever was replayed
\* (verifier.js observe: "A hole in the stream is a hole in the evidence"). It says
\* nothing of windows lost between the anchor and the first one observed, which
\* the code does not count: after them an action is blamed all the same.
BlameIsUnbroken ==
  verdict.verdict \in {"FAILED", "PARTIAL"} =>
    /\ Len(verdict.observed) = VerifyWindows
    /\ \A i \in 2..VerifyWindows :
         verdict.observed[i].id = verdict.observed[i - 1].id + 1

\* A verification ends in a verdict or a reset if the stream goes on for as long
\* as the observation budget (server.js pumpVerification: "a stalled stream ends
\* as INCONCLUSIVE rather than hanging forever", which asks for more).
VerificationConcludes ==
  (active.running /\ active.since + VerifyWindows <= MaxArrivals) ~> ~active.running

=============================================================================
