--------------------------- MODULE ActionPath_proofs ---------------------------
(***************************************************************************)
(* Theorems about ActionPath for every value of its constants.               *)
(***************************************************************************)
EXTENDS ActionPath, TLAPS

\* A plan stays a plan under the writes the server makes to it.
LEMMA PlanWrites ==
  ASSUME NEW p \in Plans
  PROVE  /\ Spread(p) \in Plans
         /\ \A o \in Options \cup {None} : [p EXCEPT !.executing = o] \in Plans
         /\ \A b \in BOOLEAN : [p EXCEPT !.verification = b] \in Plans
         /\ \A a \in Records : [p EXCEPT !.executing = None, !.action = a] \in Plans
  BY DEF Plans, Spread

\* The planner returns a plan.
LEMMA PlanResultsAreTyped == NoPlan \in Plans /\ PlanResults \subseteq Plans
<1>1. NoPlan \in Plans
  BY DEF NoPlan, Plans, NoOptions, Gates, Autonomies
<1>2. ASSUME NEW offered \in SUBSET Options, NEW confident \in BOOLEAN
      PROVE  BuiltPlan(offered, confident) \in Plans
  <2>1. Gate(offered, confident) \in Gates
    BY DEF Gate, Gates, Autonomies
  <2>. QED
    BY <1>1, <2>1 DEF BuiltPlan, Plans
<1>. QED
  BY <1>1, <1>2 DEF PlanResults

\* Issuing a POST keeps the histories of requests in their domains.
LEMMA IssueTyped ==
  ASSUME TypeOK, NEW i \in Incidents, NEW o \in Options, Issue(i, o)
  PROVE  /\ inFlight' \in Options \cup {None}
         /\ calls' \subseteq Posts /\ posts' \subseteq Posts /\ lastPost' \in Nat
         /\ NextPost \in Nat \ {0}
  BY DEF TypeOK, Issue, NextPost, Posts

\* So does starting a run, which also leaves a plan.
LEMMA LaunchTyped ==
  ASSUME TypeOK, NEW p \in Plans, NEW o \in Options,
         NEW why \in {"approved by operator", "autonomy gate"},
         incident' \in Incidents, Launch(p, o, why)
  PROVE  /\ plan' \in Plans /\ runs' \subseteq Runs
         /\ inFlight' \in Options \cup {None}
         /\ calls' \subseteq Posts /\ posts' \subseteq Posts /\ lastPost' \in Nat
<1>1. Issue(incident', o)
  BY DEF Launch
<1>2. plan' \in Plans
  BY PlanWrites DEF Launch
<1>3. p.options \in Gates
  BY DEF Plans
<1>4. [post |-> NextPost, inc |-> incident', opt |-> o, options |-> p.options,
       why |-> why, attempt |-> 1] \in Runs
  BY <1>1, <1>3, IssueTyped DEF Runs
<1>. QED
  BY <1>1, <1>2, <1>4, IssueTyped DEF Launch, TypeOK

\* Replanning keeps the types of everything it may write.
LEMMA ReplanTyped ==
  ASSUME TypeOK, NEW p \in Plans, incident' \in Incidents, Replan(p)
  PROVE  /\ plan' \in Plans /\ runs' \subseteq Runs
         /\ executed' \subseteq Records /\ approvals' \subseteq Incidents \X Options
         /\ inFlight' \in Options \cup {None}
         /\ calls' \subseteq Posts /\ posts' \subseteq Posts /\ lastPost' \in Nat
<1>1. CASE Committed(p)
  BY <1>1 DEF Replan, TypeOK, executorVars, requestVars
<1>2. CASE ~Committed(p)
  <2>1. PICK built \in PlanResults :
          \/ plan' = built /\ UNCHANGED <<executorVars, requestVars>>
          \/ /\ \E o \in Options : Launch(built, o, "autonomy gate")
             /\ UNCHANGED <<executed, approvals>>
    BY <1>2 DEF Replan
  <2>2. built \in Plans
    BY PlanResultsAreTyped
  <2>3. CASE plan' = built /\ UNCHANGED <<executorVars, requestVars>>
    BY <2>2, <2>3 DEF TypeOK, executorVars, requestVars
  <2>4. CASE /\ \E o \in Options : Launch(built, o, "autonomy gate")
             /\ UNCHANGED <<executed, approvals>>
    BY <2>2, <2>4, LaunchTyped DEF TypeOK
  <2>. QED
    BY <2>1, <2>3, <2>4
<1>. QED
  BY <1>1, <1>2

\* Handing a record to the Verifier keeps the types of what it may write.
LEMMA BeginVerificationTyped ==
  ASSUME TypeOK, NEW p \in Plans, NEW rec \in Records,
         NEW why \in {"approved by operator", "autonomy gate"},
         BeginVerification(p, rec, why)
  PROVE  /\ up' \in BOOLEAN /\ plan' \in Plans /\ verdict' \in Keys \cup {NoKey}
         /\ verifying' \in Keys \cup {NoKey} /\ completed' \subseteq Keys
<1> DEFINE key == [under |-> incident, inc |-> rec.inc, opt |-> rec.opt]
<1>1. incident # 0 => key \in Keys
  BY DEF Keys, Records, TypeOK
<1>2. [p EXCEPT !.verification = TRUE] \in Plans
  BY DEF Plans
<1>. QED
  BY <1>1, <1>2 DEF BeginVerification, TypeOK, verifierVars

-----------------------------------------------------------------------------
(* Type correctness *)

LEMMA TypeStep == TypeOK /\ [Next]_vars => TypeOK'
<1> SUFFICES ASSUME TypeOK, [Next]_vars PROVE TypeOK'
  OBVIOUS
<1> USE ActionAssumption
<1>1. CASE WindowArrives
  BY <1>1 DEF WindowArrives, TypeOK, stateVars, executorVars, verifierVars,
              requestVars, operatorVars
<1>2. CASE Tick
  <2>1. incident' \in Incidents /\ lastIncident' \in Incidents \cup {0}
    BY <1>2 DEF Tick, OpenOrRefresh, TypeOK, Incidents
  <2>2. PICK p \in {plan, [Spread(plan) EXCEPT !.verification = TRUE],
                          [Spread(plan) EXCEPT !.verification = FALSE]} :
               Pump(p) /\ Replan(p)
    BY <1>2 DEF Tick
  <2>3. plan \in Plans
    BY DEF TypeOK
  <2>4. Spread(plan) \in Plans
    BY <2>3 DEF Plans, Spread
  <2>5. p \in Plans
    BY <2>3, <2>4 DEF Plans
  <2>6. /\ verdict' \in Keys \cup {NoKey} /\ verifying' \in Keys \cup {NoKey}
        /\ completed' \subseteq Keys
    BY <2>2 DEF Pump, TypeOK, verifierVars
  <2>. QED
    BY <1>2, <2>1, <2>2, <2>5, <2>6, ReplanTyped DEF Tick, TypeOK, operatorVars
<1>3. CASE ReplanAfterProbe
  <2>1. plan \in Plans /\ incident' \in Incidents /\ Replan(plan)
    BY <1>3 DEF ReplanAfterProbe, TypeOK
  <2>2. /\ plan' \in Plans /\ runs' \subseteq Runs
        /\ executed' \subseteq Records /\ approvals' \subseteq Incidents \X Options
        /\ inFlight' \in Options \cup {None}
        /\ calls' \subseteq Posts /\ posts' \subseteq Posts /\ lastPost' \in Nat
    BY <2>1, ReplanTyped
  <2>. QED
    BY <1>3, <2>1, <2>2
       DEF ReplanAfterProbe, TypeOK, verifierVars, operatorVars
<1>4. CASE Reset
  BY <1>4, PlanResultsAreTyped DEF Reset, TypeOK, requestVars
<1>5. ASSUME NEW o \in Options, Approve(o) PROVE TypeOK'
  <2>1. /\ incident \in Incidents /\ incident' = incident /\ plan \in Plans
    BY <1>5 DEF Approve, TypeOK
  <2>2. /\ approvals' \subseteq Incidents \X Options
        /\ consents' \subseteq Incidents \X Options
        /\ approves' \in Nat /\ executed' = executed
    <3>1. /\ approvals' = approvals \cup {<<incident, o>>}
          /\ consents' = consents \cup {<<incident, o>>}
          /\ approves' = approves + 1 /\ executed' = executed
      BY <1>5 DEF Approve
    <3>2. <<incident, o>> \in Incidents \X Options
      BY <2>1
    <3>. QED
      BY <3>1, <3>2 DEF TypeOK
  <2>3. /\ plan' \in Plans /\ runs' \subseteq Runs
        /\ inFlight' \in Options \cup {None}
        /\ calls' \subseteq Posts /\ posts' \subseteq Posts /\ lastPost' \in Nat
    <3>1. CASE Launch(plan, o, "approved by operator")
      BY <2>1, <3>1, LaunchTyped
    <3>2. CASE UNCHANGED <<plan, inFlight, requestVars>>
      BY <3>2 DEF TypeOK, requestVars
    <3>3. CASE plan' = [plan EXCEPT !.executing = None]
               /\ UNCHANGED <<inFlight, requestVars>>
      <4>1. plan' \in Plans
        BY <2>1, <3>3 DEF Plans
      <4>. QED
        BY <3>3, <4>1 DEF TypeOK, requestVars
    <3>. QED
      BY <1>5, <3>1, <3>2, <3>3 DEF Approve
  <2>. QED
    BY <1>5, <2>1, <2>2, <2>3 DEF Approve, TypeOK, verifierVars
<1>6. ASSUME NEW q \in posts, DataPlaneHandles(q.post) PROVE TypeOK'
  <2>1. q.post \in Nat \ {0}
    BY DEF TypeOK, Posts
  <2>. QED
    BY <1>6, <2>1 DEF DataPlaneHandles, TypeOK, stateVars, executorVars,
                      verifierVars, requestVars, operatorVars
<1>7. ASSUME NEW c \in calls, NEW outcome \in {"APPLIED", "EXECUTION_FAILED"},
             AdminReturns(c, outcome)
      PROVE  TypeOK'
  <2> DEFINE rec == [inc |-> c.inc, opt |-> c.opt, outcome |-> outcome]
  <2>1. rec \in Records
    BY DEF TypeOK, Posts, Records
  <2>2. Settled(rec) \in Plans
    <3>1. plan \in Plans
      BY DEF TypeOK
    <3>2. Spread(plan) \in Plans
      BY <3>1 DEF Plans, Spread
    <3>. QED
      BY <2>1, <3>2 DEF Settled, Plans
  <2>3. executed' \subseteq Records /\ calls' \subseteq Posts /\ inFlight' = None
    BY <1>7, <2>1 DEF AdminReturns, TypeOK
  <2>4. /\ up' \in BOOLEAN /\ plan' \in Plans /\ verdict' \in Keys \cup {NoKey}
        /\ verifying' \in Keys \cup {NoKey} /\ completed' \subseteq Keys
        /\ runs' \subseteq Runs
    <3>1. CASE UNCHANGED <<runs, plan, up, verdict, verifierVars>>
      BY <3>1 DEF TypeOK, verifierVars
    <3>2. ASSUME NEW r \in runs, runs' = runs \ {r},
                 BeginVerification(Settled(rec), rec, r.why)
          PROVE  /\ up' \in BOOLEAN /\ plan' \in Plans /\ runs' \subseteq Runs
                 /\ verdict' \in Keys \cup {NoKey}
                 /\ verifying' \in Keys \cup {NoKey} /\ completed' \subseteq Keys
      <4>1. r.why \in {"approved by operator", "autonomy gate"}
        BY DEF TypeOK, Runs
      <4>2. /\ up' \in BOOLEAN /\ plan' \in Plans /\ verdict' \in Keys \cup {NoKey}
            /\ verifying' \in Keys \cup {NoKey} /\ completed' \subseteq Keys
        <5> HIDE DEF rec
        <5>. QED
          BY <2>1, <2>2, <3>2, <4>1, BeginVerificationTyped
      <4>3. runs' \subseteq Runs
        BY <3>2 DEF TypeOK
      <4>. QED
        BY <4>2, <4>3
    <3>. QED
      BY <1>7, <3>1, <3>2 DEF AdminReturns
  <2>. QED
    BY <1>7, <2>3, <2>4 DEF AdminReturns, TypeOK, operatorVars
<1>8. ASSUME NEW r \in runs, BudgetExpires(r) PROVE TypeOK'
  <2>1. r \in Runs /\ plan \in Plans
    BY DEF TypeOK
  <2>2. Spread(plan) \in Plans
    BY <2>1 DEF Plans, Spread
  <2>3. [inc |-> r.inc, opt |-> r.opt, outcome |-> "EXECUTION_FAILED"] \in Records
    BY <2>1 DEF Runs, Records
  <2>4. /\ plan' \in Plans /\ runs' \subseteq Runs
        /\ inFlight' \in Options \cup {None}
        /\ calls' \subseteq Posts /\ posts' \subseteq Posts /\ lastPost' \in Nat
    <3>1. CASE /\ Issue(r.inc, r.opt)
               /\ plan' = [Spread(plan) EXCEPT !.executing = r.opt]
               /\ runs' = (runs \ {r}) \cup {[r EXCEPT !.attempt = 2, !.post = NextPost]}
      <4>1. r.inc \in Incidents /\ r.opt \in Options
        BY <2>1 DEF Runs
      <4>2. /\ inFlight' \in Options \cup {None} /\ lastPost' \in Nat
            /\ calls' \subseteq Posts /\ posts' \subseteq Posts
            /\ NextPost \in Nat \ {0}
        BY <3>1, <4>1, IssueTyped
      <4>3. [r EXCEPT !.attempt = 2, !.post = NextPost] \in Runs
        BY <2>1, <4>2 DEF Runs
      <4>4. plan' \in Plans
        BY <2>2, <3>1, <4>1 DEF Plans
      <4>. QED
        BY <3>1, <4>2, <4>3, <4>4 DEF TypeOK
    <3>2. CASE runs' = runs \ {r} /\ UNCHANGED <<plan, inFlight, calls, posts, lastPost>>
      BY <3>2 DEF TypeOK
    <3>3. CASE /\ runs' = runs \ {r}
               /\ plan' = [Spread(plan) EXCEPT !.executing = None]
               /\ UNCHANGED <<inFlight, calls, posts, lastPost>>
      <4>1. plan' \in Plans
        BY <2>2, <3>3 DEF Plans
      <4>. QED
        BY <3>3, <4>1 DEF TypeOK
    <3>4. CASE /\ runs' = runs \ {r}
               /\ plan' = Settled([inc |-> r.inc, opt |-> r.opt,
                                   outcome |-> "EXECUTION_FAILED"])
               /\ UNCHANGED <<inFlight, calls, posts, lastPost>>
      <4>1. plan' \in Plans
        BY <2>2, <2>3, <3>4 DEF Plans, Settled
      <4>. QED
        BY <3>4, <4>1 DEF TypeOK
    <3>. QED
      BY <1>8, <3>1, <3>2, <3>3, <3>4 DEF BudgetExpires
  <2>. QED
    BY <1>8, <2>4 DEF BudgetExpires, TypeOK, verifierVars, operatorVars
<1>9. CASE UNCHANGED vars
  BY <1>9 DEF TypeOK, vars, stateVars, executorVars, verifierVars, requestVars,
              operatorVars
<1>. QED
  BY <1>1, <1>2, <1>3, <1>4, <1>5, <1>6, <1>7, <1>8, <1>9 DEF Next, Settle

\* The state of the control plane's action path keeps its shape in every
\* behaviour, whatever resets, approvals and timers overlap.
THEOREM TypeCorrect == Spec => []TypeOK
<1>1. Init => TypeOK
  BY ActionAssumption, PlanResultsAreTyped
     DEF Init, TypeOK, Incidents, Posts, Runs
<1>. QED
  BY <1>1, TypeStep, PTL DEF Spec

-----------------------------------------------------------------------------
(* Consent *)

\* IrreversibleNeedsConsent is not inductive: it rests on every plan, and every
\* plan a suspended run has kept for its retry, never marking an irreversible
\* option AUTONOMOUS, and on every recorded approval having been given.
PlansGated == \A o \in Options \ Reversible : plan.options[o] # "AUTONOMOUS"
RunsGated  == \A r \in runs : r.opt \notin Reversible => r.options[r.opt] # "AUTONOMOUS"
ConsentInv == /\ PlansGated /\ RunsGated
              /\ approvals \subseteq consents
              /\ IrreversibleNeedsConsent

\* No plan the Planner returns lets an irreversible option act by itself.
LEMMA PlannerNeverAutonomous ==
  \A built \in PlanResults, o \in Options \ Reversible : built.options[o] # "AUTONOMOUS"
<1>1. \A o \in Options : NoPlan.options[o] = "ABSENT"
  BY DEF NoPlan, NoOptions
<1>2. ASSUME NEW offered \in SUBSET Options, NEW confident \in BOOLEAN,
             NEW o \in Options \ Reversible
      PROVE  BuiltPlan(offered, confident).options[o] # "AUTONOMOUS"
  <2>1. BuiltPlan(offered, confident).options = Gate(offered, confident)
    BY DEF BuiltPlan, NoPlan
  <2>2. Gate(offered, confident)[o] # "AUTONOMOUS"
    BY DEF Gate
  <2>. QED
    BY <2>1, <2>2
<1> TAKE built \in PlanResults, o \in Options \ Reversible
<1>3. CASE built = NoPlan
  BY <1>1, <1>3
<1>4. CASE built # NoPlan
  <2>1. PICK offered \in SUBSET Options, confident \in BOOLEAN :
          built = BuiltPlan(offered, confident)
    BY <1>4 DEF PlanResults
  <2>. QED
    BY <1>2, <2>1
<1>. QED
  BY <1>3, <1>4

\* The server's writes to a plan leave its options alone.
LEMMA WritesKeepOptions ==
  ASSUME NEW p \in Plans
  PROVE  /\ Spread(p).options = p.options
         /\ \A o : [p EXCEPT !.executing = o].options = p.options
         /\ \A b : [p EXCEPT !.verification = b].options = p.options
         /\ \A a : [p EXCEPT !.executing = None, !.action = a].options = p.options
  BY DEF Plans, Spread

\* A POST that passed the gates of a plan which leaves irreversible options to
\* humans is consented to, once the approvals it was judged by are.
LEMMA IssueConsented ==
  ASSUME IrreversibleNeedsConsent, consents \subseteq consents',
         NEW i \in Incidents, NEW o \in Options, NEW p, NEW given,
         given \subseteq consents', Issue(i, o), Eligible(i, p, o, given),
         o \notin Reversible => p.options[o] # "AUTONOMOUS"
  PROVE  IrreversibleNeedsConsent'
  BY DEF IrreversibleNeedsConsent, Issue, Eligible, Executable

\* A run started from a gated plan keeps the runs and the plan gated.
LEMMA LaunchGated ==
  ASSUME RunsGated, NEW p \in Plans, NEW o \in Options, NEW why, Launch(p, o, why),
         \A q \in Options \ Reversible : p.options[q] # "AUTONOMOUS"
  PROVE  PlansGated' /\ RunsGated'
<1>1. plan'.options = p.options
  BY WritesKeepOptions DEF Launch
<1>2. RunsGated'
  BY DEF Launch, RunsGated
<1>. QED
  BY <1>1, <1>2 DEF PlansGated

\* Replanning only issues what the autonomy gate lets through.
LEMMA ReplanConsented ==
  ASSUME TypeOK, ConsentInv, NEW p \in Plans, incident' \in Incidents, Replan(p),
         p.options = plan.options, consents' = consents
  PROVE  ConsentInv'
<1>1. CASE plan' = p /\ UNCHANGED <<executorVars, requestVars>>
  BY <1>1 DEF ConsentInv, PlansGated, RunsGated, executorVars, requestVars,
              IrreversibleNeedsConsent
<1>2. ASSUME NEW built \in PlanResults, plan' = built,
             UNCHANGED <<executorVars, requestVars>>
      PROVE  ConsentInv'
  BY <1>2, PlannerNeverAutonomous
     DEF ConsentInv, PlansGated, RunsGated, executorVars, requestVars,
         IrreversibleNeedsConsent
<1>3. ASSUME NEW built \in PlanResults, NEW o \in Options,
             Eligible(incident', built, o, approvals),
             Launch(built, o, "autonomy gate"), UNCHANGED <<executed, approvals>>
      PROVE  ConsentInv'
  <2>1. \A q \in Options \ Reversible : built.options[q] # "AUTONOMOUS"
    BY PlannerNeverAutonomous
  <2>2. PlansGated' /\ RunsGated'
    BY <1>3, <2>1, LaunchGated, PlanResultsAreTyped DEF ConsentInv
  <2>3. Issue(incident', o) /\ approvals \subseteq consents'
    BY <1>3 DEF Launch, ConsentInv
  <2>4. IrreversibleNeedsConsent'
    BY <1>3, <2>1, <2>3, IssueConsented DEF ConsentInv
  <2>. QED
    BY <1>3, <2>2, <2>4 DEF ConsentInv
<1>. QED
  BY <1>1, <1>2, <1>3 DEF Replan

LEMMA ConsentStep == TypeOK /\ ConsentInv /\ [Next]_vars => ConsentInv'
<1> SUFFICES ASSUME TypeOK, ConsentInv, [Next]_vars PROVE ConsentInv'
  OBVIOUS
<1>0. plan \in Plans /\ Spread(plan) \in Plans /\ Spread(plan).options = plan.options
  BY PlanWrites, WritesKeepOptions DEF TypeOK
<1>1. CASE WindowArrives
  BY <1>1 DEF WindowArrives, ConsentInv, PlansGated, RunsGated, stateVars,
              IrreversibleNeedsConsent, executorVars, requestVars, operatorVars
<1>2. CASE Tick
  <2>1. PICK p \in {plan, [Spread(plan) EXCEPT !.verification = TRUE],
                          [Spread(plan) EXCEPT !.verification = FALSE]} : Replan(p)
    BY <1>2 DEF Tick
  <2>2. p \in Plans /\ p.options = plan.options
    BY <1>0 DEF Plans
  <2>3. incident' \in Incidents /\ consents' = consents
    BY <1>2, ActionAssumption DEF Tick, OpenOrRefresh, TypeOK, Incidents, operatorVars
  <2>. QED
    BY <2>1, <2>2, <2>3, ReplanConsented
<1>3. CASE ReplanAfterProbe
  <2>1. incident' \in Incidents /\ consents' = consents /\ Replan(plan)
    BY <1>3 DEF ReplanAfterProbe, TypeOK, operatorVars
  <2>. QED
    BY <1>0, <2>1, ReplanConsented
<1>4. CASE Reset
  BY <1>4 DEF Reset, ConsentInv, PlansGated, RunsGated, NoPlan, NoOptions,
              requestVars, IrreversibleNeedsConsent
<1>5. ASSUME NEW o \in Options, Approve(o) PROVE ConsentInv'
  <2>1. /\ approvals' \subseteq consents' /\ consents \subseteq consents'
        /\ incident \in Incidents /\ incident' = incident
    BY <1>5 DEF Approve, ConsentInv, TypeOK
  <2>2. CASE Eligible(incident, plan, o, approvals') /\ Launch(plan, o, "approved by operator")
    <3>1. PlansGated' /\ RunsGated'
      BY <1>0, <2>2, LaunchGated DEF ConsentInv, PlansGated
    <3>2. Issue(incident, o)
      BY <2>1, <2>2 DEF Launch
    <3>3. IrreversibleNeedsConsent'
      BY <2>1, <2>2, <3>2, IssueConsented DEF ConsentInv, PlansGated
    <3>. QED
      BY <2>1, <3>1, <3>3 DEF ConsentInv
  <2>3. CASE plan'.options = plan.options /\ UNCHANGED requestVars
    BY <2>1, <2>3 DEF ConsentInv, PlansGated, RunsGated, requestVars,
                      IrreversibleNeedsConsent
  <2>4. [plan EXCEPT !.executing = None].options = plan.options
    BY <1>0, WritesKeepOptions
  <2>5. \/ Eligible(incident, plan, o, approvals') /\ Launch(plan, o, "approved by operator")
        \/ plan' = plan /\ UNCHANGED requestVars
        \/ plan' = [plan EXCEPT !.executing = None] /\ UNCHANGED requestVars
    BY <1>5 DEF Approve
  <2>. QED
    BY <2>2, <2>3, <2>4, <2>5
<1>6. ASSUME NEW q \in posts, DataPlaneHandles(q.post) PROVE ConsentInv'
  BY <1>6 DEF DataPlaneHandles, ConsentInv, PlansGated, RunsGated, stateVars,
              IrreversibleNeedsConsent, executorVars, requestVars, operatorVars
<1>7. ASSUME NEW c \in calls, NEW outcome \in {"APPLIED", "EXECUTION_FAILED"},
             AdminReturns(c, outcome)
      PROVE  ConsentInv'
  <2> DEFINE rec == [inc |-> c.inc, opt |-> c.opt, outcome |-> outcome]
  <2>1. Settled(rec) \in Plans /\ Settled(rec).options = plan.options
    <3>1. rec \in Records
      BY DEF TypeOK, Posts, Records
    <3>. QED
      BY <1>0, <3>1 DEF Settled, Plans
  <2>2. plan'.options = plan.options
    <3>1. CASE plan' = plan
      BY <3>1
    <3>2. CASE \E r \in runs : BeginVerification(Settled(rec), rec, r.why)
      <4>1. \/ plan' = Settled(rec)
            \/ plan' = [Settled(rec) EXCEPT !.verification = TRUE]
        BY <3>2 DEF BeginVerification
      <4> HIDE DEF rec
      <4>2. [Settled(rec) EXCEPT !.verification = TRUE].options = Settled(rec).options
        BY <2>1, WritesKeepOptions
      <4>. QED
        BY <2>1, <4>1, <4>2
    <3>. QED
      BY <1>7, <3>1, <3>2 DEF AdminReturns
  <2>3. runs' \subseteq runs /\ posts' = posts /\ UNCHANGED <<approvals, consents>>
    BY <1>7 DEF AdminReturns, operatorVars
  <2>. QED
    BY <2>2, <2>3 DEF ConsentInv, PlansGated, RunsGated, IrreversibleNeedsConsent
<1>8. ASSUME NEW r \in runs, BudgetExpires(r) PROVE ConsentInv'
  <2>1. /\ consents' = consents /\ approvals' = approvals
        /\ r \in Runs
    BY <1>8 DEF BudgetExpires, operatorVars, TypeOK
  <2>2. plan'.options = plan.options
    <3> DEFINE failed == [inc |-> r.inc, opt |-> r.opt, outcome |-> "EXECUTION_FAILED"]
    <3>1. \/ plan' = plan
          \/ plan' = [Spread(plan) EXCEPT !.executing = r.opt]
          \/ plan' = [Spread(plan) EXCEPT !.executing = None]
          \/ plan' = [Spread(plan) EXCEPT !.executing = None, !.action = failed]
      BY <1>8 DEF BudgetExpires, Settled
    <3> HIDE DEF failed
    <3>2. /\ [Spread(plan) EXCEPT !.executing = r.opt].options = plan.options
          /\ [Spread(plan) EXCEPT !.executing = None].options = plan.options
          /\ [Spread(plan) EXCEPT !.executing = None, !.action = failed].options
               = plan.options
      BY <1>0 DEF Plans
    <3>. QED
      BY <3>1, <3>2
  <2>3. CASE runs' \subseteq runs /\ posts' = posts
    BY <2>1, <2>2, <2>3 DEF ConsentInv, PlansGated, RunsGated, IrreversibleNeedsConsent
  <2>4. CASE /\ Eligible(r.inc, [NoPlan EXCEPT !.options = r.options], r.opt, approvals)
             /\ Issue(r.inc, r.opt)
             /\ runs' = (runs \ {r}) \cup {[r EXCEPT !.attempt = 2, !.post = NextPost]}
    <3> DEFINE snapshot == [NoPlan EXCEPT !.options = r.options]
    <3>1. snapshot.options = r.options
      BY DEF NoPlan
    <3>2. r.opt \notin Reversible => r.options[r.opt] # "AUTONOMOUS"
      BY DEF ConsentInv, RunsGated
    <3>3. r.inc \in Incidents /\ r.opt \in Options
      BY <2>1 DEF Runs
    <3>4. IrreversibleNeedsConsent'
      <4> HIDE DEF snapshot
      <4>1. Eligible(r.inc, snapshot, r.opt, approvals)
        BY <2>4 DEF snapshot
      <4>2. approvals \subseteq consents' /\ consents \subseteq consents'
        BY <2>1 DEF ConsentInv
      <4>. QED
        BY <2>4, <3>1, <3>2, <3>3, <4>1, <4>2, IssueConsented DEF ConsentInv
    <3>5. RunsGated'
      <4>1. \A s \in runs' : s \in runs \/ (s.opt = r.opt /\ s.options = r.options)
        BY <2>1, <2>4 DEF Runs
      <4>. QED
        BY <3>2, <4>1 DEF ConsentInv, RunsGated
    <3>. QED
      BY <2>1, <2>2, <3>4, <3>5 DEF ConsentInv, PlansGated
  <2>. QED
    BY <1>8, <2>3, <2>4 DEF BudgetExpires
<1>9. CASE UNCHANGED vars
  BY <1>9 DEF vars, ConsentInv, PlansGated, RunsGated, stateVars,
              IrreversibleNeedsConsent, executorVars, requestVars, operatorVars
<1>. QED
  BY <1>1, <1>2, <1>3, <1>4, <1>5, <1>6, <1>7, <1>8, <1>9 DEF Next, Settle

\* No rollback or restart ever reaches the data plane unless an operator has
\* approved that option on that incident, even when resets overlap suspended
\* executions and the supervisor retries them.
THEOREM ConsentAlways == Spec => []IrreversibleNeedsConsent
<1>1. Init => ConsentInv
  BY DEF Init, ConsentInv, PlansGated, RunsGated, NoPlan, NoOptions,
         IrreversibleNeedsConsent
<1>2. TypeOK /\ ConsentInv /\ [Next]_vars => ConsentInv'
  BY ConsentStep
<1>3. ConsentInv => IrreversibleNeedsConsent
  BY DEF ConsentInv
<1>. QED
  BY <1>1, <1>2, <1>3, TypeCorrect, PTL DEF Spec

-----------------------------------------------------------------------------
(* At most once *)

\* AtMostOnce rests on the serial use of the inFlight slot: a run exists only
\* while its call does, there is one call at a time, and every POST made for
\* the open incident is that call or has its record. Post and incident numbers
\* only grow, so no later POST or incident repeats an earlier one's.
Attributed(p) ==
  /\ p.post <= lastPost /\ p.inc <= lastIncident
  /\ p.inc = incident => p \in calls \/ Done(p.inc, p.opt)

SerialInv ==
  /\ OneChangeAtATime
  /\ inFlight # None => calls # {}
  /\ \A r, s \in runs : r = s
  /\ \A r \in runs : \E c \in calls : c.post = r.post
  /\ calls \subseteq posts
  /\ incident \in {0, lastIncident}
  /\ \A p \in posts : Attributed(p)
  /\ AtMostOnce

\* With the slot free nothing is outstanding.
LEMMA FreeSlot ==
  ASSUME TypeOK, SerialInv, inFlight = None
  PROVE  calls = {} /\ runs = {}
<1>1. calls = {}
  <2>1. \A c \in calls : c.opt \in Options
    BY DEF TypeOK, Posts
  <2>. QED
    BY <2>1, ActionAssumption DEF SerialInv, OneChangeAtATime
<1>. QED
  BY <1>1 DEF SerialInv

\* Launching for an incident that has no record of the option, with the slot
\* free, adds the first POST of that identity.
LEMMA LaunchSerial ==
  ASSUME TypeOK, SerialInv, inFlight = None,
         NEW p, NEW o \in Options, NEW why, Launch(p, o, why),
         incident' \in Incidents, ~Done(incident', o),
         executed' = executed, incident' = lastIncident',
         \/ UNCHANGED <<incident, lastIncident>>
         \/ incident' = lastIncident + 1
  PROVE  SerialInv'
<1> DEFINE new == [post |-> NextPost, inc |-> incident', opt |-> o]
<1>1. calls = {} /\ runs = {}
  BY FreeSlot
<1>2. /\ inFlight' = o /\ lastPost' = lastPost + 1
      /\ posts' = posts \cup {new} /\ calls' = {new}
      /\ runs' = {[post |-> NextPost, inc |-> incident', opt |-> o,
                   options |-> p.options, why |-> why, attempt |-> 1]}
      /\ NextPost = lastPost + 1
  BY <1>1 DEF Launch, Issue, NextPost
<1>3. lastPost \in Nat /\ lastIncident \in Nat /\ incident' \in Nat
  BY ActionAssumption DEF TypeOK, Incidents
<1>4. \A q \in posts : /\ q.post \in Nat /\ q.inc \in Nat
                       /\ q.post <= lastPost /\ q.inc <= lastIncident
  BY DEF SerialInv, Attributed, TypeOK, Posts, Incidents
<1>5. \A q \in posts : q.inc = incident' => Done(q.inc, q.opt)
  BY <1>1, <1>3, <1>4 DEF SerialInv, Attributed
<1>6. \A q \in posts' : Attributed(q)'
  <2>1. \A i, j : Done(i, j)' <=> Done(i, j)
    BY DEF Done
  <2>. QED
    BY <1>2, <1>3, <1>4, <1>5, <2>1 DEF Attributed
<1>7. AtMostOnce'
  <2>1. \A q \in posts : ~(q.inc = incident' /\ q.opt = o)
    BY <1>5
  <2>. QED
    BY <1>2, <2>1 DEF AtMostOnce, SerialInv
<1>8. OneChangeAtATime' /\ calls' \subseteq posts' /\ incident' \in {0, lastIncident'}
  BY <1>2 DEF OneChangeAtATime
<1>9. /\ \A r, s \in runs' : r = s
      /\ \A r \in runs' : \E c \in calls' : c.post = r.post
      /\ calls' # {}
  BY <1>2
<1>. QED
  BY <1>6, <1>7, <1>8, <1>9 DEF SerialInv

\* Steps that leave the requests, the slot and the records alone.
LEMMA IdleSerial ==
  ASSUME TypeOK, SerialInv, incident' \in Incidents, incident' = lastIncident',
         \/ UNCHANGED <<incident, lastIncident>>
         \/ incident' = lastIncident + 1,
         UNCHANGED <<requestVars, inFlight, executed>>
  PROVE  SerialInv'
<1>1. lastIncident \in Nat /\ \A q \in posts : q.inc \in Nat /\ q.inc <= lastIncident
  BY ActionAssumption DEF TypeOK, Incidents, SerialInv, Attributed, Posts
<1>2. \A i, j : Done(i, j)' <=> Done(i, j)
  BY DEF Done
<1>3. \A q \in posts' : Attributed(q)'
  BY <1>1, <1>2 DEF Attributed, SerialInv, requestVars
<1>. QED
  BY <1>3 DEF SerialInv, OneChangeAtATime, AtMostOnce, requestVars

LEMMA ReplanSerial ==
  ASSUME TypeOK, SerialInv, NEW p, Replan(p),
         incident' \in Incidents, incident' = lastIncident',
         \/ UNCHANGED <<incident, lastIncident>>
         \/ incident' = lastIncident + 1
  PROVE  SerialInv'
<1>1. CASE UNCHANGED <<executorVars, requestVars>>
  BY <1>1, IdleSerial DEF executorVars
<1>2. ASSUME NEW built \in PlanResults, NEW o \in Options,
             Eligible(incident', built, o, approvals),
             Launch(built, o, "autonomy gate"), UNCHANGED <<executed, approvals>>
      PROVE  SerialInv'
  <2>1. inFlight = None /\ ~Done(incident', o) /\ executed' = executed
    BY <1>2 DEF Eligible
  <2>. QED
    BY <1>2, <2>1, LaunchSerial
<1>. QED
  BY <1>1, <1>2 DEF Replan

\* One step preserves SerialInv as long as no reset overlaps an admin call.
LEMMA SerialStep ==
  OverlappingReset = FALSE => (TypeOK /\ SerialInv /\ [Next]_vars => SerialInv')
<1> SUFFICES ASSUME OverlappingReset = FALSE, TypeOK, SerialInv, [Next]_vars
             PROVE  SerialInv'
  OBVIOUS
<1>1. CASE WindowArrives \/ (\E q \in posts : DataPlaneHandles(q.post)) \/ UNCHANGED vars
  <2>1. UNCHANGED <<incident, lastIncident, requestVars, inFlight, executed>>
    BY <1>1 DEF WindowArrives, DataPlaneHandles, vars, stateVars, executorVars
  <2>2. \A i, j : Done(i, j)' <=> Done(i, j)
    BY <2>1 DEF Done
  <2>. QED
    BY <2>1, <2>2 DEF SerialInv, OneChangeAtATime, AtMostOnce, Attributed, requestVars
<1>2. CASE Tick
  <2>1. /\ incident' \in Incidents /\ incident' = lastIncident'
        /\ \/ UNCHANGED <<incident, lastIncident>>
           \/ incident' = lastIncident + 1
    BY <1>2, ActionAssumption DEF Tick, OpenOrRefresh, TypeOK, Incidents, SerialInv
  <2>2. \E p : Replan(p)
    BY <1>2 DEF Tick
  <2>. QED
    BY <2>1, <2>2, ReplanSerial
<1>3. CASE ReplanAfterProbe
  <2>1. /\ incident' \in Incidents /\ incident' = lastIncident'
        /\ UNCHANGED <<incident, lastIncident>> /\ Replan(plan)
    BY <1>3 DEF ReplanAfterProbe, TypeOK, SerialInv
  <2>. QED
    BY <2>1, ReplanSerial
<1>4. CASE Reset
  <2>1. calls = {} /\ incident' = 0 /\ inFlight' = None /\ lastIncident' = lastIncident
        /\ UNCHANGED requestVars
    BY <1>4 DEF Reset
  <2>2. runs = {}
    BY <2>1 DEF SerialInv
  <2>3. \A q \in posts' : Attributed(q)'
    <3>1. \A q \in posts : q.inc # 0
      BY DEF TypeOK, Posts, Incidents
    <3>. QED
      BY <2>1, <3>1 DEF Attributed, SerialInv, requestVars
  <2>. QED
    BY <2>1, <2>2, <2>3 DEF SerialInv, OneChangeAtATime, AtMostOnce, requestVars
<1>5. ASSUME NEW o \in Options, Approve(o) PROVE SerialInv'
  <2>1. /\ incident' \in Incidents /\ incident' = lastIncident'
        /\ UNCHANGED <<incident, lastIncident, executed>>
    BY <1>5 DEF Approve, TypeOK, SerialInv
  <2>2. CASE Eligible(incident, plan, o, approvals') /\ Launch(plan, o, "approved by operator")
    <3>1. inFlight = None /\ ~Done(incident', o)
      BY <2>1, <2>2 DEF Eligible
    <3>. QED
      BY <2>1, <2>2, <3>1, LaunchSerial
  <2>3. CASE UNCHANGED <<inFlight, requestVars>>
    BY <2>1, <2>3, IdleSerial
  <2>. QED
    BY <1>5, <2>2, <2>3 DEF Approve
<1>6. ASSUME NEW c \in calls, NEW outcome \in {"APPLIED", "EXECUTION_FAILED"},
             AdminReturns(c, outcome)
      PROVE  SerialInv'
  <2>1. calls = {c}
    BY DEF SerialInv, OneChangeAtATime
  <2>2. calls' = {} /\ inFlight' = None
        /\ UNCHANGED <<incident, lastIncident, posts, lastPost>>
    BY <1>6, <2>1 DEF AdminReturns
  <2>3. runs' = {}
    <3>1. \A r \in runs : r.post = c.post
      BY <2>1 DEF SerialInv
    <3>. QED
      BY <1>6, <3>1 DEF AdminReturns, SerialInv
  <2>4. \A q \in posts : q \in calls \/ Done(q.inc, q.opt) => Done(q.inc, q.opt)'
    <3> DEFINE rec == [inc |-> c.inc, opt |-> c.opt, outcome |-> outcome]
    <3>1. executed' = {r \in executed : ~(r.inc = c.inc /\ r.opt = c.opt)} \cup {rec}
      BY <1>6 DEF AdminReturns
    <3>2. rec.inc = c.inc /\ rec.opt = c.opt
      OBVIOUS
    <3> HIDE DEF rec
    <3>. QED
      BY <2>1, <3>1, <3>2 DEF Done
  <2>5. \A q \in posts' : Attributed(q)'
    BY <2>2, <2>4 DEF Attributed, SerialInv
  <2>. QED
    BY <2>2, <2>3, <2>5 DEF SerialInv, OneChangeAtATime, AtMostOnce
<1>7. ASSUME NEW r \in runs, BudgetExpires(r) PROVE SerialInv'
  <2>1. runs' = runs \ {r} /\ UNCHANGED <<inFlight, calls, posts, lastPost>>
    <3>1. inFlight # None
      BY FreeSlot
    <3>. QED
      BY <1>7, <3>1 DEF BudgetExpires, Eligible
  <2>2. UNCHANGED <<incident, lastIncident, executed>>
    BY <1>7 DEF BudgetExpires
  <2>3. \A i, j : Done(i, j)' <=> Done(i, j)
    BY <2>2 DEF Done
  <2>. QED
    BY <2>1, <2>2, <2>3 DEF SerialInv, OneChangeAtATime, AtMostOnce, Attributed
<1>. QED
  BY <1>1, <1>2, <1>3, <1>4, <1>5, <1>6, <1>7 DEF Next, Settle

\* As long as no reset overlaps an admin call, the data plane receives each
\* incident-and-option at most once and only one change at a time, whatever
\* the operator resends and however often the supervisor's retry fires.
THEOREM AtMostOnceAlways ==
  OverlappingReset = FALSE /\ Spec => [](AtMostOnce /\ OneChangeAtATime)
<1> DEFINE Quiet == OverlappingReset = FALSE
<1>1. Init => SerialInv
  BY DEF Init, SerialInv, OneChangeAtATime, AtMostOnce
<1>2. Quiet /\ TypeOK /\ SerialInv /\ [Next]_vars => SerialInv'
  BY SerialStep
<1>3. SerialInv => AtMostOnce /\ OneChangeAtATime
  BY DEF SerialInv
<1>4. Quiet => Quiet'
  OBVIOUS
<1>. QED
  <2> HIDE DEF Quiet
  <2>1. Quiet /\ Spec => [](AtMostOnce /\ OneChangeAtATime)
    BY <1>1, <1>2, <1>3, <1>4, TypeCorrect, PTL DEF Spec
  <2>. QED
    BY <2>1 DEF Quiet

\* As long as no reset overlaps an admin call, no two changes are on their way to
\* the data plane together, and the Executor's slot names the one that is.
THEOREM OneChangeAlways == OverlappingReset = FALSE /\ Spec => []OneChangeAtATime
<1> DEFINE Quiet == OverlappingReset = FALSE
<1>1. Quiet /\ Spec => [](AtMostOnce /\ OneChangeAtATime)
  BY AtMostOnceAlways
<1> HIDE DEF Quiet
<1>2. Quiet /\ Spec => []OneChangeAtATime
  BY <1>1, PTL
<1> QED BY <1>2 DEF Quiet

-----------------------------------------------------------------------------
(* Commitment *)

\* With the shipped budgets, and operators who wait for a call, the plan that a
\* call's run publishes into is the one it was launched from: the slot is taken
\* exactly while a call is out, a plan under verification carries its action, and
\* so replan leaves both alone. What keeps the process up is that a plan with a
\* call out is never null, which spreading would turn into a stub.
Shipped == /\ OverlappingReset = FALSE /\ OverlappingApprove = FALSE
           /\ AdminTimeoutMs < ExecutorBudgetMs

CommitInv ==
  /\ up /\ plan.kind # "stub"
  /\ calls # {} => plan.kind = "built"
  /\ verifying # NoKey => plan.kind = "built" /\ plan.action # NoRecord
  /\ inFlight # None => calls # {} /\ plan.executing = inFlight

\* A slot that is free leaves no call out.
LEMMA FreeSlotNoCall ==
  ASSUME TypeOK, OneChangeAtATime, inFlight = None
  PROVE  calls = {}
BY ActionAssumption DEF TypeOK, OneChangeAtATime, Posts

\* A plan with an option that may be executed was built.
LEMMA ExecutableIsBuilt ==
  ASSUME NEW built \in PlanResults, NEW o \in Options, Executable(built, o)
  PROVE  built.kind = "built"
<1>1. built # NoPlan
  BY DEF Executable, NoPlan, NoOptions
<1>2. PICK offered \in SUBSET Options, confident \in BOOLEAN :
        built = BuiltPlan(offered, confident)
  BY <1>1 DEF PlanResults
<1> QED BY <1>2 DEF BuiltPlan, NoPlan

LEMMA LaunchCommits ==
  ASSUME CommitInv, NEW p \in Plans, p.kind = "built", NEW o \in Options, NEW why,
         Launch(p, o, why), up' = up, verifying' = verifying,
         verifying # NoKey => p.action # NoRecord
  PROVE  CommitInv'
<1>1. plan'.kind = "built" /\ plan'.executing = o /\ plan'.action = p.action
  BY DEF Launch, Plans
<1>2. inFlight' = o /\ calls' # {}
  BY DEF Launch, Issue
<1>3. up'
  BY Zenon DEF CommitInv
<1> QED BY <1>1, <1>2, <1>3 DEF CommitInv

LEMMA ReplanCommits ==
  ASSUME TypeOK, OneChangeAtATime, CommitInv, NEW p \in Plans, Replan(p), up' = up,
         p.kind = plan.kind, p.executing = plan.executing, p.action = plan.action,
         verifying' \in {verifying, NoKey}
  PROVE  CommitInv'
<1>1. CASE plan' = p /\ UNCHANGED <<executorVars, requestVars>>
  BY <1>1 DEF CommitInv, executorVars, requestVars
<1>2. CASE ~Committed(p)
  <2>1. p.executing = None /\ p.action = NoRecord
    BY <1>2 DEF Committed
  <2>2. inFlight = None /\ calls = {} /\ verifying = NoKey
    BY <2>1, FreeSlotNoCall DEF CommitInv
  <2>3. ASSUME NEW built \in PlanResults, plan' = built,
               UNCHANGED <<executorVars, requestVars>>
        PROVE  CommitInv'
    <3>1. built.kind # "stub"
      <4>1. CASE built = NoPlan
        BY <4>1 DEF NoPlan
      <4>2. CASE built # NoPlan
        <5>1. PICK offered \in SUBSET Options, confident \in BOOLEAN :
                built = BuiltPlan(offered, confident)
          BY <4>2 DEF PlanResults
        <5> QED BY <5>1 DEF BuiltPlan, NoPlan
      <4> QED BY <4>1, <4>2
    <3> QED BY <2>2, <2>3, <3>1 DEF CommitInv, executorVars, requestVars
  <2>4. ASSUME NEW built \in PlanResults, NEW o \in Options, Executable(built, o),
               Launch(built, o, "autonomy gate")
        PROVE  CommitInv'
    <3>1. built \in Plans /\ built.kind = "built"
      BY <2>4, PlanResultsAreTyped, ExecutableIsBuilt
    <3>2. verifying' = verifying
      BY <2>2
    <3> QED BY <2>2, <2>4, <3>1, <3>2, LaunchCommits
  <2> QED BY <1>2, <2>3, <2>4 DEF Replan, Recommended
<1> QED BY <1>1, <1>2 DEF Replan

LEMMA CommitStep ==
  Shipped /\ TypeOK /\ OneChangeAtATime /\ CommitInv /\ [Next]_vars => CommitInv'
<1> SUFFICES ASSUME Shipped, TypeOK, OneChangeAtATime, CommitInv, [Next]_vars
             PROVE  CommitInv'
  OBVIOUS
<1>0. plan \in Plans
  BY DEF TypeOK
<1>1. CASE WindowArrives \/ UNCHANGED vars
  BY <1>1 DEF WindowArrives, vars, CommitInv, stateVars, executorVars, verifierVars,
              requestVars, operatorVars
<1>2. CASE Tick
  <2>1. PICK p \in {plan, [Spread(plan) EXCEPT !.verification = TRUE],
                          [Spread(plan) EXCEPT !.verification = FALSE]} :
               Pump(p) /\ Replan(p)
    BY <1>2 DEF Tick
  <2>2. p \in Plans /\ p.executing = plan.executing /\ p.action = plan.action
    <3>1. /\ Spread(plan) \in Plans
          /\ Spread(plan).executing = plan.executing /\ Spread(plan).action = plan.action
      BY <1>0 DEF Plans, Spread
    <3>2. ASSUME NEW b \in BOOLEAN, p = [Spread(plan) EXCEPT !.verification = b]
          PROVE  /\ p \in Plans
                 /\ p.executing = plan.executing /\ p.action = plan.action
      BY <3>1, <3>2 DEF Plans
    <3> QED BY <1>0, <2>1, <3>2
  <2>3. p.kind = plan.kind
    <3>1. CASE p = plan
      BY <3>1
    <3>2. CASE verifying # NoKey
      BY <1>0, <2>1, <3>2 DEF CommitInv, Plans, Spread
    <3> QED BY <2>1, <3>1, <3>2 DEF Pump
  <2>4. verifying' \in {verifying, NoKey} /\ up' = up
    BY <1>2, <2>1 DEF Pump, Tick, verifierVars
  <2> QED BY <2>1, <2>2, <2>3, <2>4, ReplanCommits
<1>3. CASE ReplanAfterProbe
  <2>1. Replan(plan) /\ up' = up /\ verifying' = verifying
    BY <1>3 DEF ReplanAfterProbe, verifierVars
  <2> QED BY <1>0, <2>1, ReplanCommits
<1>4. CASE Reset
  <2>1. calls' = {} /\ inFlight' = None /\ verifying' = NoKey /\ plan' = NoPlan /\ up' = up
    BY <1>4 DEF Reset, Shipped, requestVars
  <2> QED BY <2>1 DEF CommitInv, NoPlan
<1>5. ASSUME NEW o \in Options, Approve(o)
      PROVE  CommitInv'
  <2>1. calls = {} /\ plan.kind = "built" /\ up' = up /\ verifying' = verifying
    BY <1>5 DEF Approve, Shipped, verifierVars
  <2>2. CASE Launch(plan, o, "approved by operator")
    BY <1>0, <2>1, <2>2, LaunchCommits DEF CommitInv
  <2>3. CASE UNCHANGED <<plan, inFlight, requestVars>>
    BY <2>1, <2>3 DEF CommitInv, requestVars
  <2>4. CASE inFlight # None
    BY <2>1, <2>4 DEF CommitInv
  <2> QED BY <1>5, <2>2, <2>3, <2>4 DEF Approve
<1>6. ASSUME NEW n, DataPlaneHandles(n)
      PROVE  CommitInv'
  BY <1>6 DEF DataPlaneHandles, CommitInv, stateVars, executorVars, verifierVars,
              requestVars
<1>7. ASSUME NEW c \in calls, NEW outcome \in {"APPLIED", "EXECUTION_FAILED"},
             AdminReturns(c, outcome)
      PROVE  CommitInv'
  <2> DEFINE rec == [inc |-> c.inc, opt |-> c.opt, outcome |-> outcome]
  <2>1. calls' = {} /\ inFlight' = None
    BY <1>7 DEF AdminReturns, OneChangeAtATime
  <2>2. plan.kind = "built"
    BY DEF CommitInv
  <2>3. CASE UNCHANGED <<runs, plan, up, verdict, verifierVars>>
    BY <2>1, <2>2, <2>3 DEF CommitInv, verifierVars
  <2>4. ASSUME NEW r \in runs, BeginVerification(Settled(rec), rec, r.why)
        PROVE  CommitInv'
    <3>1. Settled(rec).kind = "built" /\ Settled(rec).action = rec
          /\ [Settled(rec) EXCEPT !.verification = TRUE].kind = "built"
          /\ [Settled(rec) EXCEPT !.verification = TRUE].action = rec
      BY <1>0, <2>2 DEF Settled, Spread, Plans
    <3>2. rec # NoRecord
      BY DEF NoRecord
    <3>3. plan' \in {Settled(rec), [Settled(rec) EXCEPT !.verification = TRUE]} /\ up' = up
      <4> HIDE DEF rec
      <4> QED BY <2>4, <3>1 DEF BeginVerification
    <3> HIDE DEF rec
    <3> QED BY <2>1, <3>1, <3>2, <3>3 DEF CommitInv
  <2> QED BY <1>7, <2>3, <2>4 DEF AdminReturns
<1>8. ASSUME NEW r \in runs, BudgetExpires(r)
      PROVE  CommitInv'
  BY <1>8, ActionAssumption DEF BudgetExpires, Shipped
<1> QED
  BY <1>1, <1>2, <1>3, <1>4, <1>5, <1>6, <1>7, <1>8 DEF Next, Settle

\* Init establishes CommitInv and every step keeps it.
LEMMA CommitAlways == Shipped /\ Spec => []CommitInv
<1> DEFINE Quiet == OverlappingReset = FALSE
<1>1. Init => CommitInv
  BY DEF Init, CommitInv, NoPlan
<1>2. Shipped /\ TypeOK /\ OneChangeAtATime /\ CommitInv /\ [Next]_vars => CommitInv'
  BY CommitStep
<1>3. Shipped => Quiet /\ Shipped'
  BY DEF Shipped
<1>4. Quiet /\ Spec => []OneChangeAtATime
  BY OneChangeAlways
<1> HIDE DEF Quiet
<1> QED BY <1>1, <1>2, <1>3, <1>4, TypeCorrect, PTL DEF Spec

\* With the shipped budgets and operators who wait for the call, the plan says
\* what is being executed as long as it is, so that replan never replaces it
\* (server.js replan, "the plan is committed").
THEOREM CommitmentHolds == Shipped /\ Spec => []CommittedWhileInFlight
<1>1. CommitInv => CommittedWhileInFlight
  BY DEF CommitInv, CommittedWhileInFlight
<1> QED BY <1>1, CommitAlways, PTL

\* Under the same conditions no sequence of requests ends the process.
THEOREM StaysUpAlways == Shipped /\ Spec => []StaysUp
<1>1. CommitInv => StaysUp
  BY DEF CommitInv, StaysUp
<1> QED BY <1>1, CommitAlways, PTL

=============================================================================
