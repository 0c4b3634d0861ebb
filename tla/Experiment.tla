------------------------------ MODULE Experiment ------------------------------
(***************************************************************************)
(* One causal probe, from the detector's tick to its result: the             *)
(* Experimenter's run, abort and reset (control/agents/experimenter.js), the *)
(* continuation that publishes the result (control/server.js), and the shed   *)
(* with its own timer on the gateway (services/gateway/index.js).             *)
(*                                                                           *)
(* Between two awaits nothing else runs, so a probe is published and its      *)
(* POST issued in one step. The supervisor's budget, 12000 ms, exceeds the    *)
(* longest run, a 2000 ms call and 7000 ms of sleep, and never ends one.      *)
(***************************************************************************)
EXTENDS Naturals, FiniteSets

CONSTANTS
  Upstreams, \* upstreams the gateway may shed
  MaxRuns,   \* bound: probes published
  MaxResets  \* bound: POST /reset requests

ASSUME ExperimentAssumption == MaxRuns \in Nat /\ MaxResets \in Nat

VARIABLES
  up,           \* is the control plane alive?
  incident,     \* is an incident open?
  shown,        \* state.probe: which run, and its phase
  inFlight,     \* the Experimenter's inFlight, 0 for null
  aborted,      \* the Experimenter's aborted
  probeSeq,     \* the number in the next probe's id
  runs,         \* activations of run, suspended on the call or on the sleep
  openBreakers, \* breakers the admin adapter knows to be open
  mail,         \* probe requests on their way to the gateway
  shed,         \* gateway probeShed: the run that sheds an upstream, 0 for null
  timers,       \* auto-expiry timers, <<upstream, run that armed it>>
  breakers,     \* gateway breakers that are open
  accepted,     \* runs whose request the gateway has carried out
  lastRun,      \* history: probes published
  lost,         \* history: has a probe call failed whose request is carried out?
  resets        \* POST /reset requests so far

controlVars == <<up, incident, shown, inFlight, aborted, probeSeq, runs, openBreakers>>
gatewayVars == <<shed, timers, breakers, accepted>>
historyVars == <<lastRun, lost, resets>>
vars == <<controlVars, mail, gatewayVars, historyVars>>

NoRun   == 0
RunIds  == 1..MaxRuns
NoProbe == [run |-> NoRun, phase |-> "none"]
Probes  == [run : RunIds, phase : {"published", "measured", "inconclusive"}] \cup {NoProbe}
Runs    == [run : RunIds, id : RunIds, upstream : Upstreams, stage : {"calling", "sleeping"}]

Init ==
  /\ up = TRUE /\ incident = FALSE /\ shown = NoProbe /\ inFlight = NoRun
  /\ aborted = FALSE /\ probeSeq = 0 /\ runs = {} /\ openBreakers = {} /\ mail = {}
  /\ shed = [u \in Upstreams |-> NoRun] /\ timers = {} /\ breakers = {} /\ accepted = {}
  /\ lastRun = 0 /\ lost = FALSE /\ resets = 0

-----------------------------------------------------------------------------
(* The Experimenter *)

OpenIncident ==
  /\ up /\ ~incident /\ incident' = TRUE
  /\ UNCHANGED <<up, shown, inFlight, aborted, probeSeq, runs, openBreakers, mail,
                 gatewayVars, historyVars>>

\* Mutant: the probe is executed before it is published.
PublishLater(n) == UNCHANGED shown

Publish(n) == shown' = [run |-> n, phase |-> "published"]

\* Mutant: the in-flight slot is not consulted.
GateAlways(u) == incident /\ u \notin openBreakers

\* shouldProbe, for hypotheses the Scorer calls ambiguous and a usable window.
Gate(u) == incident /\ inFlight = NoRun /\ u \notin openBreakers

\* A tick starts run up to the await of its call.
Begin(u) ==
  /\ up /\ Gate(u) /\ lastRun < MaxRuns
  /\ lastRun' = lastRun + 1 /\ probeSeq' = probeSeq + 1
  /\ inFlight' = lastRun' /\ aborted' = FALSE
  /\ Publish(lastRun')
  /\ runs' = runs \cup {[run |-> lastRun', id |-> probeSeq', upstream |-> u,
                         stage |-> "calling"]}
  /\ mail' = mail \cup {[run |-> lastRun', upstream |-> u]}
  /\ UNCHANGED <<up, incident, openBreakers, gatewayVars, lost, resets>>

\* The end of run and its continuation in maybeExperiment: the result is shown
\* whatever happened to the incident meanwhile.
Conclude(r, phase) ==
  /\ runs' = runs \ {r}
  /\ shown' = [run |-> r.run, phase |-> phase]
  /\ UNCHANGED <<up, incident, probeSeq, openBreakers, gatewayVars, lastRun,
                 resets>>

CallSucceeds(r) ==
  /\ up /\ r.stage = "calling" /\ r.run \in accepted
  /\ runs' = (runs \ {r}) \cup {[r EXCEPT !.stage = "sleeping"]}
  /\ UNCHANGED <<up, incident, shown, inFlight, aborted, probeSeq, openBreakers, mail,
                 gatewayVars, historyVars>>

\* The request of a failed call never arrives or was refused; or its answer is
\* late or lost, and it is carried out all the same, before or after.
Unanswered(r) ==
  LET request == {m \in mail : m.run = r.run}
  IN \/ r.run \notin accepted /\ mail' = mail \ request /\ UNCHANGED lost
     \/ (r.run \in accepted \/ request # {})
        /\ UNCHANGED mail /\ lost' = TRUE

\* Mutant: a failed intervention keeps the slot.
CallFailsKeepingSlot(r) ==
  /\ up /\ r.stage = "calling" /\ Unanswered(r)
  /\ Conclude(r, "inconclusive") /\ UNCHANGED <<inFlight, aborted>>

CallFails(r) ==
  /\ up /\ r.stage = "calling" /\ Unanswered(r)
  /\ inFlight' = NoRun /\ Conclude(r, "inconclusive") /\ UNCHANGED aborted

\* The sleep outlasts the shed: it began after it and is two windows longer.
Wakes(r) ==
  /\ up /\ r.stage = "sleeping" /\ \A u \in Upstreams : <<u, r.run>> \notin timers
  /\ inFlight' = NoRun
  /\ \E phase \in {"inconclusive"} \cup IF aborted THEN {} ELSE {"measured"} :
       Conclude(r, phase)
  /\ UNCHANGED <<aborted, mail, lost>>

\* POST /reset: state.reset calls abort, and experimenter.reset clears the flag
\* abort has just set.
Reset ==
  /\ up /\ resets < MaxResets /\ resets' = resets + 1
  /\ incident' = FALSE /\ shown' = NoProbe
  /\ inFlight' = NoRun /\ aborted' = FALSE /\ probeSeq' = 0 /\ openBreakers' = {}
  /\ UNCHANGED <<up, runs, mail, gatewayVars, lastRun, lost>>

\* Everything the control plane holds is in memory.
ControlDies ==
  /\ up /\ up' = FALSE
  /\ incident' = FALSE /\ shown' = NoProbe /\ inFlight' = NoRun /\ aborted' = FALSE
  /\ probeSeq' = 0 /\ runs' = {} /\ openBreakers' = {}
  /\ UNCHANGED <<mail, gatewayVars, historyVars>>

-----------------------------------------------------------------------------
(* The gateway *)

\* Mutant: clearTimeout is forgotten.
TimersKept(u) == timers

\* endProbe clears the timer of the probe it ends.
TimersAfterEnd(u) == timers \ {<<u, shed[u]>>}

\* Mutant: no timer is armed.
StartProbeUntimed(m) ==
  /\ shed' = [shed EXCEPT ![m.upstream] = m.run]
  /\ timers' = TimersAfterEnd(m.upstream)

\* A probe on the same upstream is superseded.
StartProbe(m) ==
  /\ shed' = [shed EXCEPT ![m.upstream] = m.run]
  /\ timers' = TimersAfterEnd(m.upstream) \cup {<<m.upstream, m.run>>}

GatewayProbe(m) ==
  /\ mail' = mail \ {m}
  /\ \/ m.upstream \in breakers /\ UNCHANGED gatewayVars
     \/ /\ m.upstream \notin breakers /\ StartProbe(m)
        /\ accepted' = accepted \cup {m.run} /\ UNCHANGED breakers
  /\ UNCHANGED <<controlVars, historyVars>>

\* The timer ends whatever probe its upstream has by then.
Expire(t) ==
  /\ timers' = TimersAfterEnd(t[1]) \ {t}
  /\ shed' = [shed EXCEPT ![t[1]] = NoRun]
  /\ UNCHANGED <<controlVars, mail, breakers, accepted, historyVars>>

\* The Executor isolates an upstream; the adapter learns of it from a 2xx only.
Isolate(u) ==
  /\ up /\ incident /\ breakers' = breakers \cup {u}
  /\ openBreakers' \in {openBreakers, openBreakers \cup {u}}
  /\ UNCHANGED <<up, incident, shown, inFlight, aborted, probeSeq, runs, mail, shed,
                 timers, accepted, historyVars>>

\* POST /admin/restart and /chaos/reset.
GatewayRestart ==
  /\ breakers' = {} /\ timers' = {} /\ shed' = [u \in Upstreams |-> NoRun]
  /\ UNCHANGED <<controlVars, mail, accepted, historyVars>>

-----------------------------------------------------------------------------
Step(r) == CallSucceeds(r) \/ CallFails(r) \/ Wakes(r)

Next ==
  \/ OpenIncident \/ Reset \/ ControlDies \/ GatewayRestart
  \/ \E u \in Upstreams : Begin(u) \/ Isolate(u)
  \/ \E r \in runs : CallSucceeds(r) \/ CallFails(r) \/ Wakes(r)
  \/ \E m \in mail : GatewayProbe(m)
  \/ \E t \in timers : Expire(t)

Spec == Init /\ [][Next]_vars

\* Timers fire, and a call carries its own deadline.
FairSpec ==
  /\ Spec
  /\ WF_vars(\E t \in timers : Expire(t))
  /\ WF_vars(\E r \in runs : Step(r))

-----------------------------------------------------------------------------
\* Every variable stays in its domain, and the slot names a run under way.
TypeOK ==
  /\ up \in BOOLEAN /\ incident \in BOOLEAN /\ aborted \in BOOLEAN /\ lost \in BOOLEAN
  /\ shown \in Probes /\ runs \subseteq Runs
  /\ inFlight \in {r.run : r \in runs} \cup {NoRun}
  /\ mail \subseteq [run : RunIds, upstream : Upstreams]
  /\ shed \in [Upstreams -> RunIds \cup {NoRun}] /\ timers \subseteq Upstreams \X RunIds
  /\ breakers \subseteq Upstreams /\ openBreakers \subseteq Upstreams
  /\ accepted \subseteq RunIds
  /\ probeSeq \in 0..lastRun /\ lastRun \in 0..MaxRuns /\ resets \in 0..MaxResets

\* Until an operator resets, one probe is being run at a time (README, Safety
\* model: "One probe in flight at a time"; shouldProbe). After a reset a run that
\* was not cancelled may overlap the next, and frees a slot that is not its own.
OneProbeAtATime == resets = 0 => Cardinality(runs) <= 1

\* Without a reset or a lost answer, while the gateway sheds for a probe a live
\* control plane shows it, published and not yet concluded (README: "Publish
\* before execute"): so no two upstreams are ever shed for probes at once.
ShedIsShown ==
  up /\ resets = 0 /\ ~lost =>
    \A u \in Upstreams : shed[u] # NoRun =>
      shown = [run |-> shed[u], phase |-> "published"]

\* Each shed is bounded by exactly one timer, its own, over supersession,
\* restart and expiry (gateway endProbe and startProbe).
ShedHasItsTimer == timers = {<<u, shed[u]>> : u \in {v \in Upstreams : shed[v] # NoRun}}

\* A shed ends, even if the control plane is reset or dies (README: "so it ends
\* even if the control plane dies mid-experiment").
ShedEnds ==
  \A u \in Upstreams, n \in RunIds : shed[u] = n ~> shed[u] # n

\* The in-flight slot is given back, however the probe ends.
SlotIsFreed == \A n \in RunIds : inFlight = n ~> inFlight # n

=============================================================================
