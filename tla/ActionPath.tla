------------------------------ MODULE ActionPath ------------------------------
(***************************************************************************)
(* The control plane's only path to a production change: the plan held in   *)
(* control/state.js, the approval gate and runAction of control/server.js,  *)
(* the Executor's gates and its one admin call (agents/executor.js), the     *)
(* supervisor's budget and single retry (supervisor.js), the hand-over to    *)
(* the Verifier, and POST /reset.                                            *)
(*                                                                           *)
(* JavaScript runs each callback to completion, and an await on a promise    *)
(* that is already settled lets no other request, timer or response in, so   *)
(* one action of this module is everything that happens between two events   *)
(* from outside: a tick, an HTTP request, an admin response, a timer.        *)
(***************************************************************************)
EXTENDS Naturals

CONSTANTS
  Options,            \* option ids the Planner can produce, OPT-<type>-<target>
  Reversible,         \* those whose action can be undone: the isolate options
  Rank,               \* DIRECTNESS order, ties broken by target
  None,               \* no option
  BaselineWindows,    \* windows the Verifier needs before the action
  AdminTimeoutMs,     \* the Executor's deadline on its admin call
  ExecutorBudgetMs,   \* the supervisor's budget for one Executor attempt
  OverlappingReset,   \* may POST /reset arrive while an admin call is out?
  OverlappingApprove, \* may POST /approve arrive while an admin call is out?
  MaxIncidents,       \* bound: incidents opened
  MaxApproves,        \* bound: approvals that pass the first gate
  MaxResets           \* bound: POST /reset requests

ASSUME ActionAssumption ==
  /\ Reversible \subseteq Options
  /\ None \notin Options
  /\ Rank \in [Options -> Nat]
  /\ BaselineWindows \in Nat \ {0}
  /\ AdminTimeoutMs \in Nat /\ ExecutorBudgetMs \in Nat
  /\ OverlappingReset \in BOOLEAN /\ OverlappingApprove \in BOOLEAN
  /\ MaxIncidents \in Nat /\ MaxApproves \in Nat /\ MaxResets \in Nat

VARIABLES
  up,           \* FALSE once an unhandled rejection has ended the process
  incident,     \* id of the open incident, 0 when there is none
  lastIncident, \* incident ids follow the stream's window ids and never recur
  windows,      \* usable windows in the telemetry ring, up to BaselineWindows
  plan,         \* state.plan
  verdict,      \* identity of the verification state.verdict answers
  executed,     \* the Executor's action records, one per incident and option
  approvals,    \* the Executor's consents, <<incident, option>>
  inFlight,     \* option the Executor believes it is executing
  verifying,    \* the Verifier's active verification
  completed,    \* verifications that have a verdict
  runs,         \* runAction activations suspended on supervisor.run
  calls,        \* admin calls the Executor awaits
  handled,      \* POSTs the data plane has carried out
  posts,        \* history: every POST /admin/* the Executor has issued
  lastPost,     \* history: how many those are
  consents,     \* history: every <<incident, option>> an operator approved
  approves,     \* POST /approve requests accepted so far
  resets        \* POST /reset requests so far

stateVars    == <<incident, plan, verdict>>
executorVars == <<executed, approvals, inFlight>>
verifierVars == <<verifying, completed>>
operatorVars == <<consents, approves, resets>>
requestVars  == <<runs, calls, posts, lastPost>>
vars == <<up, lastIncident, windows, stateVars, executorVars, verifierVars,
          requestVars, handled, operatorVars>>

Incidents  == 1..MaxIncidents
Autonomies == {"ABSENT", "BLOCKED", "HUMAN", "AUTONOMOUS"}
Gates      == [Options -> Autonomies]
NoOptions  == [o \in Options |-> "ABSENT"]

Records  == [inc : Incidents, opt : Options, outcome : {"APPLIED", "EXECUTION_FAILED"}]
NoRecord == [inc |-> 0, opt |-> None, outcome |-> "NONE"]

\* A verification is named by the incident it was started under and the action.
Keys  == [under : Incidents, inc : Incidents, opt : Options]
NoKey == [under |-> 0, inc |-> 0, opt |-> None]

\* "stub" is an object without options: what { ...plan, executing: null } builds
\* when the plan it spreads has been reset to null.
Plans == [kind : {"none", "built", "stub"}, options : Gates,
          executing : Options \cup {None}, action : Records \cup {NoRecord},
          verification : BOOLEAN]
NoPlan == [kind |-> "none", options |-> NoOptions, executing |-> None,
           action |-> NoRecord, verification |-> FALSE]
Spread(p) == [p EXCEPT !.kind = IF p.kind = "none" THEN "stub" ELSE p.kind]

-----------------------------------------------------------------------------
(* The Planner: what one call of build may return *)

\* Mutant: confidence alone decides.
GateByConfidence(offered, confident) ==
  [o \in Options |-> IF o \notin offered THEN "ABSENT"
                     ELSE IF ~confident THEN "BLOCKED" ELSE "AUTONOMOUS"]

\* planner.js gate: below the confidence floor every action is BLOCKED; above
\* it an irreversible action is HUMAN and a reversible one AUTONOMOUS.
Gate(offered, confident) ==
  [o \in Options |-> IF o \notin offered THEN "ABSENT"
                     ELSE IF ~confident THEN "BLOCKED"
                     ELSE IF o \in Reversible THEN "AUTONOMOUS" ELSE "HUMAN"]

BuiltPlan(offered, confident) ==
  [NoPlan EXCEPT !.kind = "built", !.options = Gate(offered, confident)]

\* No supported root cause gives null; a plan always offers at least a restart.
PlanResults ==
  {NoPlan} \cup {BuiltPlan(offered, confident) :
                   offered \in (SUBSET Options) \ {{}}, confident \in BOOLEAN}

Executable(p, o) == p.options[o] \in {"HUMAN", "AUTONOMOUS"}

\* The most direct option that is not blocked.
Recommended(p, o) ==
  /\ Executable(p, o)
  /\ \A q \in Options : Executable(p, q) => Rank[o] <= Rank[q]

-----------------------------------------------------------------------------
(* The Executor *)

Done(i, o) == \E r \in executed : r.inc = i /\ r.opt = o

\* Mutant: the IN_FLIGHT gate is missing.
EligibleDespiteInFlight(i, p, o, consent) ==
  /\ i # 0 /\ Executable(p, o) /\ ~Done(i, o)
  /\ p.options[o] = "HUMAN" => <<i, o>> \in consent

Eligible(i, p, o, consent) ==
  /\ i # 0
  /\ Executable(p, o)
  /\ ~Done(i, o)
  /\ inFlight = None
  /\ p.options[o] = "HUMAN" => <<i, o>> \in consent

NextPost == lastPost + 1

\* execute up to the await of the admin call.
Issue(i, o) ==
  /\ inFlight' = o /\ lastPost' = NextPost
  /\ posts' = posts \cup {[post |-> NextPost, inc |-> i, opt |-> o]}
  /\ calls' = calls \cup {[post |-> NextPost, inc |-> i, opt |-> o]}

\* runAction up to its await: the run keeps the incident and the plan it read.
Launch(p, o, why) ==
  /\ Issue(incident', o)
  /\ plan' = [p EXCEPT !.executing = o]
  /\ runs' = runs \cup {[post |-> NextPost, inc |-> incident', opt |-> o,
                         options |-> p.options, why |-> why, attempt |-> 1]}

-----------------------------------------------------------------------------
(* The detector's tick: open or refresh the incident, pump the Verifier, replan *)

\* Mutant: the ring is not bounded.
WindowArrivesUnbounded ==
  /\ up /\ windows' = windows + 1
  /\ UNCHANGED <<up, lastIncident, stateVars, executorVars, verifierVars,
                 requestVars, handled, operatorVars>>

\* A window reaches the telemetry ring; the count stops where it stops mattering.
WindowArrives ==
  /\ up /\ windows < BaselineWindows
  /\ windows' = windows + 1
  /\ UNCHANGED <<up, lastIncident, stateVars, executorVars, verifierVars,
                 requestVars, handled, operatorVars>>

OpenOrRefresh ==
  \/ /\ incident = 0 /\ lastIncident < MaxIncidents
     /\ incident' = lastIncident + 1 /\ lastIncident' = lastIncident + 1
  \/ incident # 0 /\ UNCHANGED <<incident, lastIncident>>

\* pumpVerification: p is the plan it leaves behind.
Pump(p) ==
  \/ /\ verifying = NoKey /\ p = plan
     /\ UNCHANGED <<verifierVars, verdict>>
  \/ /\ verifying # NoKey /\ p = [Spread(plan) EXCEPT !.verification = TRUE]
     /\ UNCHANGED <<verifierVars, verdict>>
  \/ /\ verifying # NoKey /\ p = [Spread(plan) EXCEPT !.verification = FALSE]
     /\ verdict' = verifying /\ verifying' = NoKey
     /\ completed' = completed \cup {verifying}

\* Mutant: a plan being executed is not committed.
CommittedByAction(p) == p.action # NoRecord \/ p.verification

Committed(p) == p.action # NoRecord \/ p.executing # None \/ p.verification

\* replan on top of plan p, then maybeAutonomous on the plan just built.
Replan(p) ==
  \/ /\ Committed(p) /\ plan' = p
     /\ UNCHANGED <<executorVars, requestVars>>
  \/ /\ ~Committed(p)
     /\ \E built \in PlanResults :
          LET auto == {o \in Options : /\ Recommended(built, o)
                                       /\ built.options[o] = "AUTONOMOUS"
                                       /\ Eligible(incident', built, o, approvals)}
          IN \/ /\ auto = {} /\ plan' = built
                /\ UNCHANGED <<executorVars, requestVars>>
             \/ /\ \E o \in auto : Launch(built, o, "autonomy gate")
                /\ UNCHANGED <<executed, approvals>>

Tick ==
  /\ up /\ windows > 0
  /\ OpenOrRefresh
  /\ \E p \in {plan, [Spread(plan) EXCEPT !.verification = TRUE],
                     [Spread(plan) EXCEPT !.verification = FALSE]} :
        Pump(p) /\ Replan(p)
  /\ UNCHANGED <<up, windows, handled, operatorVars>>

\* The continuation of a probe replans outside the tick.
ReplanAfterProbe ==
  /\ up /\ incident # 0
  /\ UNCHANGED incident
  /\ Replan(plan)
  /\ UNCHANGED <<up, lastIncident, windows, verdict, verifierVars, handled,
                 operatorVars>>

-----------------------------------------------------------------------------
(* POST /approve *)

Approve(o) ==
  /\ up /\ approves < MaxApproves /\ approves' = approves + 1
  /\ OverlappingApprove \/ calls = {}
  /\ incident # 0 /\ plan.kind = "built"
  /\ Executable(plan, o)
  /\ approvals' = approvals \cup {<<incident, o>>}
  /\ consents' = consents \cup {<<incident, o>>}
  /\ UNCHANGED <<incident, executed>>
  /\ \/ /\ Eligible(incident, plan, o, approvals')
        /\ Launch(plan, o, "approved by operator")
     \/ /\ Done(incident, o)                       \* the record is returned
        /\ UNCHANGED <<plan, inFlight, requestVars>>
     \/ /\ ~Done(incident, o) /\ inFlight # None   \* refused: IN_FLIGHT
        /\ plan' = [plan EXCEPT !.executing = None]
        /\ UNCHANGED <<inFlight, requestVars>>
  /\ UNCHANGED <<up, lastIncident, windows, verdict, verifierVars, handled, resets>>

-----------------------------------------------------------------------------
(* The admin call, its answer, and the supervisor's budget *)

\* The data plane carries the request out, whether or not anyone still waits.
DataPlaneHandles(n) ==
  /\ \E p \in posts : p.post = n
  /\ n \notin handled /\ handled' = handled \cup {n}
  /\ UNCHANGED <<up, lastIncident, windows, stateVars, executorVars,
                 verifierVars, requestVars, operatorVars>>

\* Mutant: the executing marker survives the record.
SettledStillExecuting(rec) == [Spread(plan) EXCEPT !.action = rec]

\* The plan runAction writes once the record exists.
Settled(rec) == [Spread(plan) EXCEPT !.executing = None, !.action = rec]

\* beginVerification for a record just written to plan p by a run started why.
BeginVerification(p, rec, why) ==
  LET key == [under |-> incident, inc |-> rec.inc, opt |-> rec.opt]
      startable == /\ incident # 0 /\ key \notin completed
                   /\ verifying = NoKey /\ windows = BaselineWindows
  IN \/ /\ rec.outcome # "APPLIED" /\ plan' = p
        /\ UNCHANGED <<up, verdict, verifierVars>>
     \* plan?.options.find on a stub throws: a request handler answers 500, but
     \* nobody awaits the tick's replan, and the rejection ends the process.
     \/ /\ rec.outcome = "APPLIED" /\ p.kind = "stub" /\ plan' = p
        /\ up' = (why = "approved by operator")
        /\ UNCHANGED <<verdict, verifierVars>>
     \/ /\ rec.outcome = "APPLIED" /\ p.kind # "stub" /\ ~startable /\ plan' = p
        /\ UNCHANGED <<up, verdict, verifierVars>>
     \* The plan no longer holds the option: nothing was predicted to recover.
     \/ /\ rec.outcome = "APPLIED" /\ p.kind # "stub" /\ startable
        /\ p.options[rec.opt] = "ABSENT" /\ plan' = p
        /\ verdict' = key /\ completed' = completed \cup {key}
        /\ UNCHANGED <<up, verifying>>
     \/ /\ rec.outcome = "APPLIED" /\ p.kind # "stub" /\ startable
        /\ p.options[rec.opt] # "ABSENT"
        /\ plan' = [p EXCEPT !.verification = TRUE] /\ verifying' = key
        /\ UNCHANGED <<up, verdict, completed>>

\* The call settles: a 2xx only if the data plane acted, a failure (refusal,
\* lost response, deadline) in any case. Only the run still waiting on this
\* attempt publishes the record.
AdminReturns(c, outcome) ==
  /\ up /\ c \in calls
  /\ outcome = "APPLIED" => c.post \in handled
  /\ calls' = calls \ {c} /\ inFlight' = None
  /\ LET rec == [inc |-> c.inc, opt |-> c.opt, outcome |-> outcome]
     IN /\ executed' = {r \in executed : ~(r.inc = c.inc /\ r.opt = c.opt)} \cup {rec}
        /\ \/ \E r \in runs :
                /\ r.post = c.post /\ runs' = runs \ {r}
                /\ BeginVerification(Settled(rec), rec, r.why)
           \/ /\ \A r \in runs : r.post # c.post
              /\ UNCHANGED <<runs, plan, up, verdict, verifierVars>>
  /\ UNCHANGED <<incident, lastIncident, windows, approvals, posts, lastPost, handled,
                 operatorVars>>

\* The supervisor's timer beats the call: one retry on the run's own snapshot,
\* then EXECUTION_FAILED. The abandoned attempt keeps running.
BudgetExpires(r) ==
  LET snapshot == [NoPlan EXCEPT !.options = r.options]
      mayRetry == r.attempt = 1 /\ Eligible(r.inc, snapshot, r.opt, approvals)
  IN
  /\ up /\ r \in runs /\ AdminTimeoutMs >= ExecutorBudgetMs
  /\ \/ /\ mayRetry /\ Issue(r.inc, r.opt)
        /\ plan' = [Spread(plan) EXCEPT !.executing = r.opt]
        /\ runs' = (runs \ {r}) \cup {[r EXCEPT !.attempt = 2, !.post = NextPost]}
     \/ /\ r.attempt = 1 /\ Done(r.inc, r.opt) /\ runs' = runs \ {r}
        /\ UNCHANGED <<plan, inFlight, calls, posts, lastPost>>
     \/ /\ r.attempt = 1 /\ ~mayRetry /\ ~Done(r.inc, r.opt) /\ runs' = runs \ {r}
        /\ plan' = [Spread(plan) EXCEPT !.executing = None]
        /\ UNCHANGED <<inFlight, calls, posts, lastPost>>
     \/ /\ r.attempt = 2 /\ runs' = runs \ {r}
        /\ plan' = Settled([inc |-> r.inc, opt |-> r.opt,
                            outcome |-> "EXECUTION_FAILED"])
        /\ UNCHANGED <<inFlight, calls, posts, lastPost>>
  /\ UNCHANGED <<up, incident, lastIncident, windows, verdict, executed, approvals,
                 verifierVars, handled, operatorVars>>

-----------------------------------------------------------------------------
(* POST /reset *)

\* Synchronous: it clears the state and every agent, and cancels no suspended run.
Reset ==
  /\ up /\ resets < MaxResets /\ resets' = resets + 1
  /\ OverlappingReset \/ calls = {}
  /\ incident' = 0 /\ plan' = NoPlan /\ verdict' = NoKey /\ windows' = 0
  /\ executed' = {} /\ approvals' = {} /\ inFlight' = None
  /\ verifying' = NoKey /\ completed' = {}
  /\ UNCHANGED <<up, lastIncident, requestVars, handled, consents, approves>>

-----------------------------------------------------------------------------
Init ==
  /\ up = TRUE /\ incident = 0 /\ lastIncident = 0 /\ windows = 0
  /\ plan = NoPlan /\ verdict = NoKey
  /\ executed = {} /\ approvals = {} /\ inFlight = None
  /\ verifying = NoKey /\ completed = {}
  /\ runs = {} /\ calls = {} /\ posts = {} /\ lastPost = 0
  /\ handled = {} /\ consents = {} /\ approves = 0 /\ resets = 0

Settle == \E c \in calls, outcome \in {"APPLIED", "EXECUTION_FAILED"} :
            AdminReturns(c, outcome)

Next ==
  \/ WindowArrives \/ Tick \/ ReplanAfterProbe \/ Reset
  \/ \E o \in Options : Approve(o)
  \/ \E p \in posts : DataPlaneHandles(p.post)
  \/ Settle
  \/ \E r \in runs : BudgetExpires(r)

Spec == Init /\ [][Next]_vars

\* The admin call carries its own deadline, so it always settles.
FairSpec == Spec /\ WF_vars(Settle)

-----------------------------------------------------------------------------
(* What the path promises *)

Posts == [post : Nat \ {0}, inc : Incidents, opt : Options]
Runs  == [post : Nat \ {0}, inc : Incidents, opt : Options, options : Gates,
          why : {"approved by operator", "autonomy gate"}, attempt : {1, 2}]

\* Every variable stays in its domain.
TypeOK ==
  /\ up \in BOOLEAN
  /\ incident \in Incidents \cup {0} /\ lastIncident \in Incidents \cup {0}
  /\ windows \in 0..BaselineWindows
  /\ plan \in Plans /\ verdict \in Keys \cup {NoKey}
  /\ executed \subseteq Records
  /\ approvals \subseteq Incidents \X Options
  /\ inFlight \in Options \cup {None}
  /\ verifying \in Keys \cup {NoKey} /\ completed \subseteq Keys
  /\ runs \subseteq Runs /\ calls \subseteq Posts /\ posts \subseteq Posts
  /\ lastPost \in Nat /\ handled \subseteq Nat \ {0}
  /\ consents \subseteq Incidents \X Options
  /\ approves \in Nat /\ resets \in Nat

\* An execution identity is incident and option: the data plane never receives
\* the same one twice, whatever the supervisor retries or the operator resends
\* (executor.js, ALREADY_EXECUTED and IN_FLIGHT).
AtMostOnce ==
  \A p, q \in posts : p.inc = q.inc /\ p.opt = q.opt => p = q

\* An irreversible action reaches the data plane only if an operator approved
\* that option on that incident, across replans, retries and resets
\* (planner.js gate, executor.js approve and eligible).
IrreversibleNeedsConsent ==
  \A p \in posts : p.opt \notin Reversible => <<p.inc, p.opt>> \in consents

\* Two changes are never on their way to the data plane together: the
\* Executor's inFlight slot names the only outstanding call.
OneChangeAtATime ==
  /\ \A c, d \in calls : c = d
  /\ \A c \in calls : inFlight = c.opt

\* While an action is being executed the published plan says so, which is what
\* keeps replan from replacing it (server.js replan, "the plan is committed").
CommittedWhileInFlight ==
  inFlight # None => plan.executing = inFlight

\* No sequence of requests ends the process.
StaysUp == up

\* An action shown as executing is eventually shown as settled.
ExecutionSettles == (plan.executing # None) ~> (plan.executing = None)

=============================================================================
