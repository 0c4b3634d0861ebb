-------------------------------- MODULE Scoring --------------------------------
(***************************************************************************)
(* The Scorer (control/agents/scorer.js): pure functions of an incident and   *)
(* its graph. Scores, terms and posteriors are thousandths. Labels and         *)
(* statements, which nothing decides on, are left out.                         *)
(***************************************************************************)
EXTENDS Integers, Sequences, FiniteSetsExt, SequencesExt

CONSTANTS
  Names,           \* the services in alphabetical order
  MarginThreshold, \* probeMarginThreshold
  DecaySeconds     \* precedenceDecaySeconds

ASSUME ScoringAssumption ==
  /\ Names \in Seq(Range(Names)) /\ IsInjective(Names)
  /\ MarginThreshold \in 1..1000 /\ DecaySeconds \in 1..100

Rank(s) == CHOOSE i \in DOMAIN Names : Names[i] = s

Into(edges, s) == {e.from : e \in {x \in edges : x.to = s}}

\* Everything that calls s, directly or through others: no path is longer than
\* there are services.
CallersOf(edges, s) ==
  LET reached[hops \in 0..Len(Names)] ==
        IF hops = 0 THEN Into(edges, s)
        ELSE UNION {{n} \cup Into(edges, n) : n \in reached[hops - 1]}
  IN reached[Len(Names)]

\* 1000 times e to the power of -n/100, from tables for ones and tenths, and the
\* first terms of the series for what is left; below one in a thousand it is 0.
Exp(n) ==
  LET ones   == <<10000, 3679, 1353, 498, 183, 67, 25>>
      tenths == <<10000, 9048, 8187, 7408, 6703, 6065, 5488, 4966, 4493, 4066>>
      rest   == 10000 - 100 * (n % 10) + ((n % 10) * (n % 10)) \div 2
  IN IF n >= 700 THEN 0
     ELSE (((ones[n \div 100 + 1] * tenths[((n \div 10) % 10) + 1]) \div 10000) * rest
             + 50000) \div 100000

-----------------------------------------------------------------------------
(* The four terms *)

\* The earliest onset wins, decaying with lag; no onset, no credit.
TemporalPrecedence(onsets, s) ==
  LET known == {onsets[d] : d \in DOMAIN onsets} \ {0}
  IN IF onsets[s] = 0 THEN 0
     ELSE Exp((100 * (onsets[s] - Min(known))) \div DecaySeconds)

\* The share of the other degraded services that depend on s.
Upstreamness(edges, s, degraded) ==
  LET others == degraded \ {s}
  IN IF others = {} THEN 0
     ELSE (1000 * Cardinality(others \cap CallersOf(edges, s))) \div Cardinality(others)

\* The target of an amplified edge is credited from 1.5 up to 3.
AmplificationTarget(edges, s) ==
  Max({0} \cup {Min({1000, ((e.amp - 1500) * 1000) \div 1500}) :
                  e \in {x \in edges : x.to = s /\ x.amp > 1500}})

SharedResourcePenalty(edges, s) == IF Cardinality(Into(edges, s)) >= 3 THEN 1000 ELSE 0

Score(incident, s) ==
  (  300 * TemporalPrecedence(incident.onsets, s)
   + 250 * Upstreamness(incident.edges, s, DOMAIN incident.onsets)
   + 250 * AmplificationTarget(incident.edges, s)
   - 350 * SharedResourcePenalty(incident.edges, s) + 500) \div 1000

-----------------------------------------------------------------------------
\* normalise: softmax at the temperature of the margin threshold.
Posteriors(scores) ==
  LET best   == Max(Range(scores))
      weight == [i \in DOMAIN scores |->
                   Exp((100 * (best - scores[i])) \div MarginThreshold)]
      total  == SumFunction(weight)
  IN [i \in DOMAIN scores |-> (1000 * weight[i] + total \div 2) \div total]

\* The candidates by score, then by name: at each place the one that as many come
\* before as there are places before it.
Before(g, h) == \/ g.score > h.score
                \/ g.score = h.score /\ Rank(g.service) < Rank(h.service)

Ranked(candidates) ==
  [i \in 1..Cardinality(candidates) |->
     CHOOSE h \in candidates : Cardinality({g \in candidates : Before(g, h)}) = i - 1]

\* A hypothesis is known by its rank: H1, H2 and so on are given anew by every window.
Hypotheses(incident) ==
  LET ranked == Ranked({[service |-> s, score |-> Score(incident, s)] :
                          s \in DOMAIN incident.onsets})
      belief == Posteriors([i \in DOMAIN ranked |-> ranked[i].score])
  IN [i \in DOMAIN ranked |-> [service   |-> ranked[i].service, score |-> ranked[i].score,
                               posterior |-> belief[i]]]

\* The lead of the first; the only one leads by all there is.
Margin(hypotheses) ==
  IF Len(hypotheses) < 2 THEN 1000 + MarginThreshold
  ELSE hypotheses[1].score - hypotheses[2].score

\* Does observation separate the first two? If not the ranking is ambiguous.
Separated(hypotheses) == Margin(hypotheses) >= MarginThreshold

=============================================================================
