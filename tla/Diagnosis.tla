------------------------------- MODULE Diagnosis -------------------------------
(***************************************************************************)
(* From windows to a plan: the detector's tick of control/server.js, which      *)
(* observes, scores, starts a probe and plans in one step; and the end of a      *)
(* probe, which corrects the hypotheses and plans again. Composes Detection      *)
(* with Scoring and Planning. How a probe runs is Experiment's; what becomes     *)
(* of an issued action is ActionPath's.                                          *)
(***************************************************************************)
EXTENDS Detection, Planning

CONSTANTS
  ProbeFloor,  \* probeMinObservationConfidence
  MaxObserved, \* bound: windows the detector has observed before a tick
  MaxProbes,   \* bound: probes published
  MaxResets    \* bound: POST /reset requests

ASSUME DiagnosisAssumption ==
  /\ Range(Names) = Services
  /\ ProbeFloor \in 0..1000 /\ MaxObserved \in Nat /\ MaxProbes \in Nat /\ MaxResets \in Nat

VARIABLES
  hypotheses, \* state.hypotheses
  probe,      \* state.probe: the ranking it was published for, phase and result
  running,    \* the ranking the run in flight is to decide
  plan,       \* state.plan
  probes,     \* probes published so far
  resets      \* POST /reset requests so far

vars == <<streamVars, detector, hypotheses, probe, running, plan, probes, resets>>

NoProbe == [ranking |-> <<>>, phase |-> "none", result |-> NoResult]
Idle    == <<>>

Init ==
  /\ DetectionInit /\ hypotheses = <<>> /\ probe = NoProbe /\ running = Idle
  /\ plan = NoPlan /\ probes = 0 /\ resets = 0

-----------------------------------------------------------------------------
(* replan *)

\* Mutant: the plan is kept when the Planner refuses.
ReplanKeeping(p) == IF p = NoPlan \/ (plan # NoPlan /\ plan.issued) THEN plan ELSE p

\* A plan an action was issued from is committed. A plan whose recommendation may
\* run without a human is carried out at once.
ReplanAs(p) ==
  CASE plan # NoPlan /\ plan.issued -> plan
    [] ~(plan # NoPlan /\ plan.issued) /\ p = NoPlan -> NoPlan
    [] ~(plan # NoPlan /\ plan.issued) /\ p # NoPlan ->
         [p EXCEPT !.issued = /\ p.recommended # "none"
                              /\ Autonomy(p.recommended, p.confidence) = "AUTONOMOUS"]

Replan(incident, ranked, result) ==
  \/ incident = None /\ UNCHANGED plan
  \/ /\ incident # None
     /\ \E slack \in BOOLEAN :
          plan' = ReplanAs(Plan(incident, ranked, result, slack, Last(ring).seen))

-----------------------------------------------------------------------------
(* maybeExperiment *)

\* designProbe: one of the first two calls the other, and someone calls it.
Calls(edges, a, b) == \E e \in edges : e.from = a /\ e.to = b
CallerRank(edges, ranked) ==
  IF Calls(edges, ranked[1].service, ranked[2].service) THEN 1 ELSE 2

MayProbe(edges, ranked) ==
  /\ ~Separated(ranked) /\ running = Idle /\ probes < MaxProbes
  /\ Last(ring).seen >= ProbeFloor
  /\ \E i \in 1..2 : Calls(edges, ranked[i].service, ranked[3 - i].service)
  /\ Into(edges, ranked[CallerRank(edges, ranked)].service) # {}

\* The probe is shown in the tick that starts it. It does not start when its edge
\* is broken already or its baseline unusable.
StartProbe(edges, ranked) ==
  /\ MayProbe(edges, ranked) /\ probes' = probes + 1
  /\ running' = ranked
  /\ probe' = [ranking |-> ranked, phase |-> "published", result |-> NoResult]

-----------------------------------------------------------------------------
\* One tick with something to observe, which after a relaunch there is for ever.
\* With no incident it ends there.
Tick ==
  /\ Since(detector.cursor) # {} /\ Len(detector.observed) < MaxObserved
  /\ detector' = Observed(detector)
  /\ \/ /\ detector'.incident = None
        /\ UNCHANGED <<hypotheses, probe, running, plan, probes>>
     \/ /\ detector'.incident # None /\ hypotheses' = Hypotheses(detector'.incident)
        /\ \/ StartProbe(detector'.incident.edges, hypotheses')
           \/ UNCHANGED <<probe, running, probes>>
        /\ Replan(detector'.incident, hypotheses', probe'.result)
  /\ UNCHANGED <<streamVars, resets>>

\* posteriorsFor the hypothesis that matched; the published ones when none did.
Corrected(h, i, r, matched) ==
  CASE i \notin DOMAIN r                   -> h
    [] i \in DOMAIN r /\ matched = 0       -> [h EXCEPT !.posterior = r[i].posterior]
    [] i \in DOMAIN r /\ matched # 0       -> [h EXCEPT !.posterior = IF i = matched THEN 930 ELSE 70]

\* The run ends: its result is shown, corrects whatever hypotheses have its ranks
\* by now, and is planned upon.
ProbeConcludes ==
  /\ running # Idle /\ running' = Idle
  /\ \E matched \in 0..2 :
       LET result    == [matched |-> matched, inconclusive |-> matched = 0]
           corrected == [i \in DOMAIN hypotheses |->
                           Corrected(hypotheses[i], i, running, matched)]
       IN /\ hypotheses' = corrected
          /\ probe' = [ranking |-> running, result |-> result,
                       phase |-> IF matched = 0 THEN "inconclusive" ELSE "measured"]
          /\ Replan(detector.incident, corrected, result)
  /\ UNCHANGED <<streamVars, detector, probes, resets>>

\* The operator approves an option that is not blocked.
Approve ==
  /\ plan # NoPlan /\ ~plan.issued
  /\ \E o \in plan.options : Autonomy(o.type, plan.confidence) # "BLOCKED"
  /\ plan' = [plan EXCEPT !.issued = TRUE]
  /\ UNCHANGED <<streamVars, detector, hypotheses, probe, running, probes, resets>>

\* POST /reset; one that overlaps a run is Experiment's.
Reset ==
  /\ running = Idle /\ resets < MaxResets /\ resets' = resets + 1
  /\ ring' = <<>> /\ detector' = NewDetector
  /\ hypotheses' = <<>> /\ probe' = NoProbe /\ plan' = NoPlan
  /\ UNCHANGED <<arrivals, streamId, onset, relaunches, running, probes>>

Deliver(p) ==
  Arrive(p) /\ UNCHANGED <<detector, hypotheses, probe, running, plan, probes, resets>>

Next ==
  \/ \E p \in Patterns : Deliver(p)
  \/ Tick \/ ProbeConcludes \/ Approve \/ Reset

Spec == Init /\ [][Next]_vars

-----------------------------------------------------------------------------
Hypothesis == [service : Services, score : -1000..1000, posterior : 0..1000]
Result     == [matched : 0..2, inconclusive : BOOLEAN]

\* Every variable stays in its domain; hypotheses are ranked candidates of the
\* incident, and a plan names one of them and offers only what the Verifier can
\* judge: actions that are predicted to recover something.
TypeOK ==
  /\ DetectionTypeOK
  /\ hypotheses \in Seq(Hypothesis) /\ IsInjective([i \in DOMAIN hypotheses |-> hypotheses[i].service])
  /\ \A i \in DOMAIN hypotheses : i > 1 => hypotheses[i - 1].score >= hypotheses[i].score
  /\ probe.result \in Result /\ probe.ranking \in Seq(Hypothesis)
  /\ running \in Seq(Hypothesis) /\ Len(running) # 1
  /\ plan # NoPlan => /\ plan.service \in Services /\ plan.confidence \in 0..1000
                      /\ \A o \in plan.options : o.recovers # {}

Services_(ranking) == [i \in DOMAIN ranking |-> ranking[i].service]

\* A plan nobody has acted on yet names a root cause that the evidence on display
\* names: the first hypothesis, when observation separates it, or one a conclusive
\* probe matched; never while the first two are apart by less and no probe told
\* (planner.js: "inventing a remediation for a cause we cannot name").
PlanIsSupported ==
  plan # NoPlan /\ ~plan.issued =>
    \/ plan.service = hypotheses[1].service /\ Separated(hypotheses)
    \/ /\ probe.phase = "measured" /\ probe.result.matched \in DOMAIN hypotheses
       /\ plan.service = hypotheses[probe.result.matched].service

\* While the ranking is the one the probe was published for, a plan that rests on
\* the probe is about the service the probe measured. A match is a rank, and a new
\* window may rank others there (experimenter.js: forHypotheses).
PlanIsForMeasured ==
  plan # NoPlan /\ plan.measured /\ ~plan.issued
    /\ Services_(hypotheses) = Services_(probe.ranking) =>
      plan.service = probe.ranking[probe.result.matched].service

\* What a conclusive probe has led to stands while the incident lasts: planner.js
\* says "A conclusive probe outranks passive ranking, because it is the only
\* evidence gathered by intervention".
ProbeOutranks ==
  [][plan # NoPlan /\ plan.measured /\ detector'.incident # None =>
       plan' # NoPlan /\ plan'.service = plan.service]_vars

=============================================================================
