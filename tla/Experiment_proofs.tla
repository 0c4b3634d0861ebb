--------------------------- MODULE Experiment_proofs ---------------------------
(***************************************************************************)
(* For every set of upstreams and every number of probes and resets: each     *)
(* shed has its own timer, one probe runs at a time until a reset, and while   *)
(* the gateway sheds the probe is shown.                                       *)
(***************************************************************************)
EXTENDS Experiment, FiniteSetTheorems, TLAPS

USE DEF NoRun, RunIds, controlVars, gatewayVars, historyVars

-----------------------------------------------------------------------------
(* Types *)

LEMMA NoProbeIsShown == NoProbe \in Probes
BY DEF Probes

LEMMA TypeInit == Init => TypeOK
<1> SUFFICES ASSUME Init PROVE TypeOK
  OBVIOUS
<1>1. shown \in Probes
  BY NoProbeIsShown DEF Init
<1>2. lastRun \in 0..MaxRuns /\ probeSeq \in 0..lastRun /\ resets \in 0..MaxResets
  BY ExperimentAssumption DEF Init
<1> QED BY <1>1, <1>2 DEF Init, TypeOK

\* The end of a run frees the slot, shows its result and touches little else.
LEMMA ConcludeTyped ==
  ASSUME TypeOK, NEW r \in runs, NEW phase \in {"measured", "inconclusive"},
         Conclude(r, phase)
  PROVE  shown' \in Probes /\ runs' \subseteq Runs
<1>1. r \in Runs
  BY DEF TypeOK
<1>2. [run |-> r.run, phase |-> phase] \in Probes
  BY <1>1 DEF Runs, Probes
<1> QED BY <1>2 DEF Conclude, TypeOK

LEMMA TypeStep == TypeOK /\ [Next]_vars => TypeOK'
<1> SUFFICES ASSUME TypeOK, [Next]_vars PROVE TypeOK'
  OBVIOUS
<1> USE ExperimentAssumption
<1>0. lastRun \in Nat /\ probeSeq \in Nat /\ resets \in Nat
  BY DEF TypeOK
<1>1. CASE OpenIncident \/ UNCHANGED vars
  BY <1>1 DEF OpenIncident, TypeOK, vars
<1>10. CASE Reset
  <2>1. resets' \in 0..MaxResets /\ probeSeq' \in 0..lastRun /\ lastRun' = lastRun
    BY <1>0, <1>10 DEF Reset, TypeOK
  <2> QED BY <1>10, <2>1, NoProbeIsShown DEF Reset, TypeOK
<1>11. CASE ControlDies
  <2>1. probeSeq' \in 0..lastRun /\ lastRun' = lastRun /\ resets' = resets
    BY <1>0, <1>11 DEF ControlDies
  <2> QED BY <1>11, <2>1, NoProbeIsShown DEF ControlDies, TypeOK
<1>2. CASE GatewayRestart
  BY <1>2 DEF GatewayRestart, TypeOK
<1>3. ASSUME NEW u \in Upstreams, Begin(u)
      PROVE  TypeOK'
  <2>1. lastRun' = lastRun + 1 /\ lastRun' \in RunIds /\ probeSeq' = probeSeq + 1
        /\ probeSeq' \in 1..lastRun'
    BY <1>0, <1>3 DEF Begin, TypeOK
  <2>2. [run |-> lastRun', id |-> probeSeq', upstream |-> u, stage |-> "calling"] \in Runs
    BY <2>1 DEF Runs
  <2>3. [run |-> lastRun', phase |-> "published"] \in Probes
    BY <2>1 DEF Probes
  <2>4. runs' \subseteq Runs /\ shown' \in Probes
        /\ inFlight' \in {r.run : r \in runs'} \cup {NoRun}
        /\ mail' \subseteq [run : RunIds, upstream : Upstreams]
    BY <1>3, <2>1, <2>2, <2>3 DEF Begin, Publish, TypeOK
  <2>5. probeSeq' \in 0..lastRun' /\ lastRun' \in 0..MaxRuns /\ aborted' = FALSE
    BY <1>3, <2>1 DEF Begin
  <2> QED BY <1>3, <2>4, <2>5 DEF Begin, TypeOK
<1>4. ASSUME NEW u \in Upstreams, Isolate(u)
      PROVE  TypeOK'
  BY <1>4 DEF Isolate, TypeOK
<1>5. ASSUME NEW r \in runs, CallSucceeds(r)
      PROVE  TypeOK'
  <2>1. r \in Runs /\ [r EXCEPT !.stage = "sleeping"] \in Runs
        /\ [r EXCEPT !.stage = "sleeping"].run = r.run
    BY DEF TypeOK, Runs
  <2>2. runs' = (runs \ {r}) \cup {[r EXCEPT !.stage = "sleeping"]}
    BY <1>5 DEF CallSucceeds
  <2>3. {q.run : q \in runs} \subseteq {q.run : q \in runs'}
    BY <2>1, <2>2
  <2> QED BY <1>5, <2>1, <2>2, <2>3 DEF CallSucceeds, TypeOK
<1>6. ASSUME NEW r \in runs, CallFails(r)
      PROVE  TypeOK'
  <2>1. shown' \in Probes /\ runs' \subseteq Runs
    BY <1>6, ConcludeTyped DEF CallFails
  <2> QED BY <1>6, <2>1 DEF CallFails, Conclude, Unanswered, TypeOK
<1>7. ASSUME NEW r \in runs, Wakes(r)
      PROVE  TypeOK'
  <2>1. shown' \in Probes /\ runs' \subseteq Runs
    BY <1>7, ConcludeTyped DEF Wakes
  <2>2. inFlight' = NoRun
        /\ UNCHANGED <<aborted, mail, lost, up, incident, probeSeq, openBreakers,
                       gatewayVars, lastRun, resets>>
    BY <1>7 DEF Wakes, Conclude
  <2> QED BY <2>1, <2>2 DEF TypeOK
<1>8. ASSUME NEW m \in mail, GatewayProbe(m)
      PROVE  TypeOK'
  <2>1. m.run \in RunIds /\ m.upstream \in Upstreams
    BY DEF TypeOK
  <2>2. CASE UNCHANGED gatewayVars
    BY <1>8, <2>2 DEF GatewayProbe, TypeOK
  <2>3. CASE StartProbe(m) /\ accepted' = accepted \cup {m.run} /\ UNCHANGED breakers
    <3>1. shed' \in [Upstreams -> RunIds \cup {NoRun}]
      BY <2>1, <2>3 DEF StartProbe, TypeOK
    <3>2. timers' \subseteq Upstreams \X RunIds
      BY <2>1, <2>3 DEF StartProbe, TimersAfterEnd, TypeOK
    <3> QED BY <1>8, <2>1, <2>3, <3>1, <3>2 DEF GatewayProbe, TypeOK
  <2> QED BY <1>8, <2>2, <2>3 DEF GatewayProbe
<1>9. ASSUME NEW t \in timers, Expire(t)
      PROVE  TypeOK'
  BY <1>9 DEF Expire, TimersAfterEnd, TypeOK
<1> QED BY <1>1, <1>2, <1>3, <1>4, <1>5, <1>6, <1>7, <1>8, <1>9,
          <1>10, <1>11 DEF Next

\* Every variable keeps its domain, and the Experimenter's slot names a run that
\* is under way or none, across resets and the death of the control plane.
THEOREM TypeCorrect == Spec => []TypeOK
BY TypeInit, TypeStep, PTL DEF Spec

-----------------------------------------------------------------------------
(* Timers *)

LEMMA TimerStep == TypeOK /\ ShedHasItsTimer /\ [Next]_vars => ShedHasItsTimer'
<1> SUFFICES ASSUME TypeOK, ShedHasItsTimer, [Next]_vars PROVE ShedHasItsTimer'
  OBVIOUS
<1>1. ASSUME NEW m \in mail, GatewayProbe(m)
      PROVE  ShedHasItsTimer'
  <2>1. m.run \in RunIds /\ m.upstream \in Upstreams /\ m.run # NoRun
    BY ExperimentAssumption DEF TypeOK
  <2>2. CASE UNCHANGED gatewayVars
    BY <2>2 DEF ShedHasItsTimer
  <2>3. CASE StartProbe(m)
    <3>1. ASSUME NEW t
          PROVE  t \in timers' <=> t \in {<<u, shed'[u]>> : u \in {v \in Upstreams : shed'[v] # NoRun}}
      BY <2>1, <2>3 DEF ShedHasItsTimer, StartProbe, TimersAfterEnd, TypeOK
    <3> QED BY <3>1 DEF ShedHasItsTimer
  <2> QED BY <1>1, <2>2, <2>3 DEF GatewayProbe
<1>2. ASSUME NEW t \in timers, Expire(t)
      PROVE  ShedHasItsTimer'
  <2>1. PICK u \in Upstreams : t = <<u, shed[u]>> /\ shed[u] # NoRun
    BY DEF ShedHasItsTimer
  <2>2. timers' = timers \ {<<u, shed[u]>>} /\ shed' = [shed EXCEPT ![u] = NoRun]
    BY <1>2, <2>1 DEF Expire, TimersAfterEnd
  <2>3. ASSUME NEW d
        PROVE  d \in timers' <=> d \in {<<v, shed'[v]>> : v \in {w \in Upstreams : shed'[w] # NoRun}}
    BY <2>1, <2>2 DEF ShedHasItsTimer, TypeOK
  <2> QED BY <2>3 DEF ShedHasItsTimer
<1>3. CASE GatewayRestart
  BY <1>3 DEF GatewayRestart, ShedHasItsTimer
<1>4. CASE UNCHANGED <<shed, timers>>
  BY <1>4 DEF ShedHasItsTimer
<1> QED
  BY <1>1, <1>2, <1>3, <1>4
     DEF Next, vars, OpenIncident, Reset, ControlDies, Begin, Isolate, CallSucceeds,
         CallFails, Wakes, Conclude

\* Whatever probes supersede, expire or are swept away by a restart, the timers
\* armed are exactly one for each shed, the one of the probe that sheds.
THEOREM TimersAlways == Spec => []ShedHasItsTimer
<1>1. Init => ShedHasItsTimer
  BY DEF Init, ShedHasItsTimer
<1> QED BY <1>1, TimerStep, TypeCorrect, PTL DEF Spec

-----------------------------------------------------------------------------
(* One probe, and shown *)

\* Until a reset, the slot names the one run there is.
OneRun == resets = 0 => /\ \A r \in runs : inFlight = r.run
                        /\ \A q, r \in runs : q = r

LEMMA OneRunStep == TypeOK /\ OneRun /\ [Next]_vars => OneRun'
<1> SUFFICES ASSUME TypeOK, OneRun, [Next]_vars, resets' = 0
             PROVE  /\ \A r \in runs' : inFlight' = r.run
                    /\ \A q, r \in runs' : q = r
  BY DEF OneRun
<1>0. ASSUME NEW r \in runs
      PROVE  r \in Runs /\ r.run # NoRun
  BY ExperimentAssumption DEF TypeOK, Runs
<1>1. ASSUME NEW u \in Upstreams, Begin(u)
      PROVE  /\ \A r \in runs' : inFlight' = r.run
             /\ \A q, r \in runs' : q = r
  <2>1. runs = {}
    BY <1>0, <1>1 DEF Begin, Gate, OneRun
  <2> QED BY <1>1, <2>1 DEF Begin
<1>2. ASSUME NEW r \in runs, CallSucceeds(r)
      PROVE  /\ \A q \in runs' : inFlight' = q.run
             /\ \A p, q \in runs' : p = q
  <2>1. [r EXCEPT !.stage = "sleeping"].run = r.run
    BY <1>0 DEF Runs
  <2>2. runs' = {[r EXCEPT !.stage = "sleeping"]} /\ inFlight' = r.run
    BY <1>2 DEF CallSucceeds, OneRun, historyVars
  <2> QED BY <2>1, <2>2
<1>3. ASSUME NEW r \in runs, CallFails(r) \/ Wakes(r)
      PROVE  runs' = {}
  BY <1>3 DEF CallFails, Wakes, Conclude, OneRun
<1>4. CASE Reset
  BY <1>4 DEF Reset, TypeOK
<1>5. CASE ControlDies
  BY <1>5 DEF ControlDies
<1>6. CASE UNCHANGED <<runs, inFlight, resets>>
  BY <1>6 DEF OneRun
<1> QED
  BY <1>1, <1>2, <1>3, <1>4, <1>5, <1>6
     DEF Next, vars, OpenIncident, GatewayRestart, Isolate, GatewayProbe, Expire

\* Until an operator resets, one probe is run at a time (shouldProbe's slot).
THEOREM OneProbeAlways == Spec => []OneProbeAtATime
<1>1. Init => OneRun
  BY DEF Init, OneRun
<1>2. OneRun => OneProbeAtATime
  <2> SUFFICES ASSUME OneRun, resets = 0 PROVE Cardinality(runs) <= 1
    BY DEF OneProbeAtATime
  <2>1. CASE runs = {}
    BY <2>1, FS_EmptySet
  <2>2. CASE runs # {}
    <3>1. PICK r \in runs : TRUE
      BY <2>2
    <3>2. runs = {r}
      BY <3>1 DEF OneRun
    <3>3. Cardinality({r}) = 1
      BY FS_Singleton
    <3> QED BY <3>2, <3>3
  <2> QED BY <2>1, <2>2
<1> QED BY <1>1, <1>2, OneRunStep, TypeCorrect, PTL DEF Spec

\* What ShedIsShown rests on: every request and every shed belongs to the one run
\* there is, a request that is carried out is no longer on its way, and a run that
\* sleeps has none on its way. A run may then end only when its shed has: it
\* outlasts the timer, or its failed call, not being lost, never took effect.
Live == up /\ resets = 0 /\ ~lost

Past == /\ \A n \in accepted : n <= lastRun
        /\ \A m \in mail : m.run <= lastRun

Owned ==
  Live =>
    /\ \A r \in runs : shown = [run |-> r.run, phase |-> "published"]
    /\ \A u \in Upstreams : shed[u] # NoRun =>
         shed[u] \in accepted /\ \E r \in runs : r.run = shed[u]
    /\ \A m \in mail : /\ m.run \notin accepted
                       /\ \E r \in runs : r.run = m.run /\ r.stage = "calling"
    /\ \A m, n \in mail : m = n

OwnedInv == TypeOK /\ ShedHasItsTimer /\ OneRun /\ Past /\ Owned

LEMMA PastStep == TypeOK /\ Past /\ [Next]_vars => Past'
<1> SUFFICES ASSUME TypeOK, Past, [Next]_vars PROVE Past'
  OBVIOUS
<1>0. lastRun \in Nat
  BY DEF TypeOK
<1>1. ASSUME NEW u \in Upstreams, Begin(u)
      PROVE  Past'
  <2>1. /\ lastRun' = lastRun + 1 /\ accepted' = accepted
        /\ mail' = mail \cup {[run |-> lastRun + 1, upstream |-> u]}
    BY <1>1 DEF Begin
  <2>2. \A n \in accepted : n \in Nat
    BY ExperimentAssumption DEF TypeOK
  <2>3. \A m \in mail : m.run \in Nat
    BY ExperimentAssumption DEF TypeOK
  <2> QED BY <1>0, <2>1, <2>2, <2>3 DEF Past
<1>2. ASSUME NEW m \in mail, GatewayProbe(m)
      PROVE  Past'
  BY <1>2 DEF GatewayProbe, Past
<1>3. CASE accepted' = accepted /\ lastRun' = lastRun /\ mail' \subseteq mail
  BY <1>3 DEF Past
<1>4. ASSUME NEW r \in runs, CallFails(r)
      PROVE  accepted' = accepted /\ lastRun' = lastRun /\ mail' \subseteq mail
  BY <1>4 DEF CallFails, Conclude, Unanswered
<1> QED
  BY <1>1, <1>2, <1>3, <1>4
     DEF Next, vars, OpenIncident, Reset, ControlDies, GatewayRestart, Isolate,
         CallSucceeds, Wakes, Conclude, Expire

\* A live control plane was live before, and what it owns it owned.
LEMMA OwnedStep == OwnedInv /\ [Next]_vars => Owned'
<1> SUFFICES ASSUME OwnedInv, [Next]_vars, Live' PROVE Owned'
  BY DEF Owned
<1> DEFINE Shown(r) == shown = [run |-> r.run, phase |-> "published"]
<1>0. ASSUME NEW r \in runs
      PROVE  r \in Runs /\ r.run # NoRun /\ r.run \in Nat
  BY ExperimentAssumption DEF OwnedInv, TypeOK, Runs
<1>1. CASE Reset \/ ControlDies
  BY <1>1 DEF Reset, ControlDies, Live, OwnedInv, TypeOK
<1>2. ASSUME NEW u \in Upstreams, Begin(u)
      PROVE  Owned'
  <2>1. Live
    BY <1>2 DEF Begin, Live
  <2>2. runs = {} /\ mail = {} /\ \A v \in Upstreams : shed[v] = NoRun
    BY <1>0, <1>2, <2>1 DEF Begin, Gate, OwnedInv, OneRun, Owned, Live
  <2>3. /\ runs' = {[run |-> lastRun', id |-> probeSeq', upstream |-> u, stage |-> "calling"]}
        /\ mail' = {[run |-> lastRun', upstream |-> u]}
        /\ shown' = [run |-> lastRun', phase |-> "published"]
        /\ UNCHANGED gatewayVars
    BY <1>2, <2>2 DEF Begin, Publish
  <2>4. lastRun' \notin accepted
    <3>1. lastRun \in Nat /\ lastRun' = lastRun + 1
      BY <1>2 DEF Begin, OwnedInv, TypeOK
    <3>2. \A n \in accepted : n \in Nat /\ n <= lastRun
      BY ExperimentAssumption DEF OwnedInv, TypeOK, Past
    <3> QED BY <3>1, <3>2
  <2> QED BY <2>2, <2>3, <2>4 DEF Owned
<1>3. ASSUME NEW r \in runs, CallSucceeds(r)
      PROVE  Owned'
  <2>1. Live /\ runs = {r} /\ r.run \in accepted
    BY <1>3 DEF CallSucceeds, Live, OwnedInv, OneRun
  <2>2. mail = {}
    BY <2>1 DEF OwnedInv, Owned
  <2>3. [r EXCEPT !.stage = "sleeping"].run = r.run
    BY <1>0 DEF Runs
  <2>4. /\ runs' = {[r EXCEPT !.stage = "sleeping"]}
        /\ UNCHANGED <<shown, mail, gatewayVars>>
    BY <1>3, <2>1 DEF CallSucceeds
  <2> QED BY <2>1, <2>2, <2>3, <2>4 DEF OwnedInv, Owned
<1>4. ASSUME NEW r \in runs, CallFails(r)
      PROVE  Owned'
  <2>1. r.run \notin accepted /\ mail' = mail \ {m \in mail : m.run = r.run} /\ lost' = lost
    BY <1>4 DEF CallFails, Unanswered, Live
  <2>2. Live /\ runs = {r}
    BY <1>4, <2>1 DEF CallFails, Conclude, Live, OwnedInv, OneRun
  <2>3. runs' = {} /\ UNCHANGED gatewayVars
    BY <1>4, <2>2 DEF CallFails, Conclude
  <2>4. mail' = {} /\ \A u \in Upstreams : shed[u] = NoRun
    BY <2>1, <2>2 DEF OwnedInv, Owned
  <2> QED BY <2>3, <2>4 DEF Owned
<1>5. ASSUME NEW r \in runs, Wakes(r)
      PROVE  Owned'
  <2>1. Live /\ runs = {r} /\ r.stage = "sleeping"
        /\ \A u \in Upstreams : <<u, r.run>> \notin timers
    BY <1>5 DEF Wakes, Conclude, Live, OwnedInv, OneRun
  <2>2. runs' = {} /\ UNCHANGED <<mail, gatewayVars>>
    BY <1>5, <2>1 DEF Wakes, Conclude
  <2>3. mail = {}
    BY <2>1 DEF OwnedInv, Owned
  <2>4. \A u \in Upstreams : shed[u] = NoRun
    BY <2>1 DEF OwnedInv, Owned, ShedHasItsTimer
  <2> QED BY <2>2, <2>3, <2>4 DEF Owned
<1>6. ASSUME NEW m \in mail, GatewayProbe(m)
      PROVE  Owned'
  <2>1. Live /\ mail = {m} /\ mail' = {} /\ UNCHANGED controlVars
    BY <1>6 DEF GatewayProbe, Live, OwnedInv, Owned
  <2>2. CASE UNCHANGED gatewayVars
    BY <2>1, <2>2 DEF OwnedInv, Owned
  <2>3. CASE shed' = [shed EXCEPT ![m.upstream] = m.run] /\ accepted' = accepted \cup {m.run}
    BY <2>1, <2>3 DEF OwnedInv, Owned, TypeOK
  <2> QED BY <1>6, <2>2, <2>3 DEF GatewayProbe, StartProbe
<1>7. ASSUME NEW t \in timers, Expire(t)
      PROVE  Owned'
  <2>1. UNCHANGED <<controlVars, mail, accepted, resets, lost>> /\ Live
    BY <1>7 DEF Expire, Live
  <2>2. \A u \in Upstreams : shed'[u] \in {shed[u], NoRun}
    BY <1>7 DEF Expire, OwnedInv, TypeOK
  <2> QED BY <2>1, <2>2 DEF OwnedInv, Owned
<1>8. CASE GatewayRestart
  <2>1. UNCHANGED <<controlVars, mail, accepted, resets, lost>> /\ Live
    BY <1>8 DEF GatewayRestart, Live
  <2>2. \A u \in Upstreams : shed'[u] = NoRun
    BY <1>8 DEF GatewayRestart
  <2> QED BY <2>1, <2>2 DEF OwnedInv, Owned
<1>9. CASE UNCHANGED <<up, resets, lost, runs, shown, shed, mail, accepted>>
  BY <1>9 DEF OwnedInv, Owned, Live
<1> QED
  BY <1>1, <1>2, <1>3, <1>4, <1>5, <1>6, <1>7, <1>8, <1>9
     DEF Next, vars, OpenIncident, Isolate

\* Without a reset or a lost answer, a live control plane shows the probe for as
\* long as the gateway sheds for it (README: "Publish before execute").
THEOREM ShownAlways == Spec => []ShedIsShown
<1>1. Init => Past /\ Owned /\ OneRun
  BY DEF Init, Past, Owned, OneRun
<1>2. TypeOK /\ Past /\ [Next]_vars => Past'
  BY PastStep
<1>3. TypeOK /\ ShedHasItsTimer /\ OneRun /\ Past /\ Owned /\ [Next]_vars => Owned'
  BY OwnedStep DEF OwnedInv
<1>4. Owned => ShedIsShown
  <2> SUFFICES ASSUME Owned, Live, NEW u \in Upstreams, shed[u] # NoRun
               PROVE  shown = [run |-> shed[u], phase |-> "published"]
    BY DEF ShedIsShown, Live
  <2>1. PICK r \in runs : r.run = shed[u]
    BY DEF Owned
  <2> QED BY <2>1 DEF Owned
<1> QED
  BY <1>1, <1>2, <1>3, <1>4, OneRunStep, TypeCorrect, TimersAlways, PTL DEF Spec

=============================================================================
