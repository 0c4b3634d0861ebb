------------------------------ MODULE PermitPool ------------------------------
(***************************************************************************)
(* What the datastore's connection pool promises the queries that share it,  *)
(* with no queue, timer or counter: never more than Size of them hold a      *)
(* permit, and nobody waits while a permit lies idle.                        *)
(***************************************************************************)
EXTENDS Integers, FiniteSets

CONSTANTS
  Queries, \* queries that arrive
  Size     \* permits

VARIABLES
  holding, \* queries that hold a permit
  waiting, \* queries that wait for one
  gone     \* queries served or refused

pool == <<holding, waiting, gone>>

WorkConserving == waiting # {} => Cardinality(holding) = Size

Init == holding = {} /\ waiting = {} /\ gone = {}

\* A query not seen before starts to hold, to wait, or is refused.
Ask(q) ==
  /\ q \notin holding \cup waiting \cup gone
  /\ \/ holding' = holding \cup {q} /\ UNCHANGED <<waiting, gone>>
     \/ waiting' = waiting \cup {q} /\ UNCHANGED <<holding, gone>>
     \/ gone' = gone \cup {q} /\ UNCHANGED <<holding, waiting>>

\* A holder is served; at most one waiting query takes over.
Finish(q) ==
  /\ q \in holding /\ gone' = gone \cup {q}
  /\ \/ holding' = holding \ {q} /\ UNCHANGED waiting
     \/ \E r \in waiting : holding' = (holding \ {q}) \cup {r} /\ waiting' = waiting \ {r}

GiveUp(q) ==
  /\ q \in waiting /\ waiting' = waiting \ {q} /\ gone' = gone \cup {q}
  /\ UNCHANGED holding

Next ==
  /\ \E q \in Queries : Ask(q) \/ Finish(q) \/ GiveUp(q)
  /\ Cardinality(holding') <= Size /\ WorkConserving'

Spec == Init /\ [][Next]_pool

=============================================================================
