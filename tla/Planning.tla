------------------------------- MODULE Planning -------------------------------
(***************************************************************************)
(* The Planner (control/agents/planner.js): which root cause the evidence      *)
(* supports, which actions the graph supports against it, and which of them    *)
(* may run without a human. Pure functions; thousandths as in Scoring.         *)
(***************************************************************************)
EXTENDS Scoring

CONSTANTS
  Rollbackable,      \* services configuration knows another version of
  AutonomyConfidence \* autonomyConfidence

ASSUME PlanningAssumption ==
  Rollbackable \subseteq Range(Names) /\ AutonomyConfidence \in 0..1000

NoPlan   == [service |-> "none"]
NoResult == [matched |-> 0, inconclusive |-> FALSE]

\* The Planner compares the margin without rounding it first: at the threshold
\* itself the binary fractions decide, here slack.
ObservationNames(hypotheses, slack) ==
  Separated(hypotheses) /\ (Margin(hypotheses) = MarginThreshold => slack)

\* Mutant: a conclusive probe is taken to confirm the first hypothesis.
SupportedFirst(hypotheses, result, slack) ==
  CASE result.inconclusive \/ hypotheses = <<>> -> 0
    [] ~result.inconclusive /\ hypotheses # <<>>
         /\ (result.matched # 0 \/ ObservationNames(hypotheses, slack)) -> 1
    [] OTHER -> 0

\* supportedHypothesis, by its rank, 0 when there is none: a conclusive probe
\* decides, an inconclusive one forbids, and without either observation must.
Supported(hypotheses, result, slack) ==
  CASE hypotheses = <<>> \/ result.inconclusive          -> 0
    [] hypotheses # <<>> /\ ~result.inconclusive /\ result.matched # 0
         -> IF result.matched \in DOMAIN hypotheses THEN result.matched ELSE 0
    [] hypotheses # <<>> /\ ~result.inconclusive /\ result.matched = 0
         -> IF ObservationNames(hypotheses, slack) THEN 1 ELSE 0

ContentionPeers(edges, s, degraded) ==
  {e.from : e \in {x \in edges : \E f \in edges : f.from = s /\ f.to = x.to}}
    \cap (degraded \ {s})

DegradedCallers(edges, s, degraded) == CallersOf(edges, s) \cap degraded

\* The caller whose breaker is opened is the first by name.
Rollback(edges, s, degraded) ==
  [type |-> "rollback", target |-> s, degrades |-> {},
   recovers |-> {s} \cup DegradedCallers(edges, s, degraded) \cup ContentionPeers(edges, s, degraded)]
Isolate(edges, s, degraded) ==
  [type |-> "isolate", degrades |-> {s} \cup DegradedCallers(edges, s, degraded),
   target |-> CHOOSE c \in Into(edges, s) : \A d \in Into(edges, s) : Rank(c) <= Rank(d),
   recovers |-> ContentionPeers(edges, s, degraded)]
Restart(edges, s, degraded) ==
  [type |-> "restart", target |-> s, degrades |-> {s},
   recovers |-> Rollback(edges, s, degraded).recovers]

Offered(edges, s, degraded) ==
  {Restart(edges, s, degraded)}
    \cup (IF s \in Rollbackable THEN {Rollback(edges, s, degraded)} ELSE {})
    \cup (IF Into(edges, s) # {} THEN {Isolate(edges, s, degraded)} ELSE {})

\* Mutant: useless actions are offered.
OptionsUnfiltered(edges, s, degraded) == Offered(edges, s, degraded)

\* What would recover nothing and degrade something is dropped.
Options(edges, s, degraded) ==
  {o \in Offered(edges, s, degraded) : o.recovers # {} \/ o.degrades = {}}

\* The gate: confidence first, then reversibility.
Autonomy(type, confidence) ==
  CASE confidence < AutonomyConfidence                         -> "BLOCKED"
    [] confidence >= AutonomyConfidence /\ type # "isolate"    -> "HUMAN"
    [] confidence >= AutonomyConfidence /\ type = "isolate"    -> "AUTONOMOUS"

\* The most direct option the gate does not block; blocked, none.
Recommended(options, confidence) ==
  LET has(type) == \E o \in options : o.type = type
  IN CASE confidence < AutonomyConfidence -> "none"
       [] confidence >= AutonomyConfidence /\ has("rollback") -> "rollback"
       [] confidence >= AutonomyConfidence /\ ~has("rollback") /\ has("isolate") -> "isolate"
       [] OTHER -> "restart"

\* build. The plan remembers its basis: was the root cause measured?
Plan(incident, hypotheses, result, slack, seen) ==
  LET i          == Supported(hypotheses, result, slack)
      s          == hypotheses[i].service
      confidence == (hypotheses[i].posterior * seen + 500) \div 1000
      options    == Options(incident.edges, s, incident.services)
  IN IF i = 0 THEN NoPlan
     ELSE [service |-> s, options |-> options, confidence |-> confidence,
           recommended |-> Recommended(options, confidence),
           measured |-> result.matched # 0, issued |-> FALSE]

=============================================================================
