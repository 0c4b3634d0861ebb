------------------------------ MODULE Mesh_proofs ------------------------------
(***************************************************************************)
(* For every set of users, every bulkhead and every number of retries: the    *)
(* gateway's counter of calls in flight is exact and within the bulkhead, its   *)
(* calls are those of BoundedCalls, and an upstream's attempts exceed its calls *)
(* by the configured retries at most.                                          *)
(***************************************************************************)
EXTENDS Mesh, FiniteSetTheorems, TLAPS

\* The invariant is inductive as it stands: TypeOK makes a user who awaits
\* nothing have no call, so that Send adds a caller, and BulkheadExact makes the
\* counter positive while a call is in flight, so that Leave takes one from it.
Inv == TypeOK /\ BulkheadExact

USE DEF Calls, InFlight

\* The part of TypeOK about one call, and the part about calls.
CallOK(c) ==
  /\ phase[c] = "backoff" => made[c] \in 1..Retries
  /\ phase[c] = "attempting" => made[c] >= 1
  /\ phase[c] = "none" => made[c] = 0
  /\ phase[c] # "none" => request[c[1]] # "none" /\ c[2] \in Legs(request[c[1]])

CallsOK ==
  /\ phase \in [Calls -> Phases] /\ made \in [Calls -> 0..Retries + 1]
  /\ inFlight \in [Upstreams -> Nat] /\ \A c \in Calls : CallOK(c)

-----------------------------------------------------------------------------
\* The callers of an upstream are finitely many, now and in the next state.
LEMMA CallersFinite ==
  ASSUME MeshAssumption, NEW up
  PROVE  /\ IsFiniteSet(Callers(up)) /\ Cardinality(Callers(up)) \in Nat
         /\ IsFiniteSet(Callers(up)') /\ Cardinality(Callers(up)') \in Nat
<1>1. Callers(up) \subseteq Users /\ Callers(up)' \subseteq Users
  BY DEF Callers
<1> QED BY <1>1, FS_Subset, FS_CardinalityType DEF MeshAssumption

\* What gaining or losing one member does to the count of a finite set.
LEMMA OneMore ==
  ASSUME NEW S, IsFiniteSet(S), NEW x, x \notin S
  PROVE  Cardinality(S \cup {x}) = Cardinality(S) + 1
BY FS_AddElement

LEMMA OneLess ==
  ASSUME NEW S, IsFiniteSet(S), NEW x \in S
  PROVE  Cardinality(S \ {x}) = Cardinality(S) - 1
BY FS_RemoveElement

LEMMA LegsAreUpstreams == \A e : Legs(e) \subseteq Upstreams
BY DEF Legs, Upstreams

\* A call is admitted only below the bulkhead, and has one of three fates.
LEMMA FateIsOne ==
  ASSUME NEW up, NEW dropped
  PROVE  /\ Fate(up, dropped) \in {"failed", "answered", "attempting"}
         /\ Fate(up, dropped) = "attempting" => ~Full(up)
<1>1. CASE up \in breakers
  BY <1>1 DEF Fate
<1>2. CASE up \notin breakers /\ up \in dropped
  BY <1>2 DEF Fate
<1>3. CASE up \notin breakers \cup dropped /\ Full(up)
  BY <1>3 DEF Fate
<1>4. CASE up \notin breakers \cup dropped /\ ~Full(up)
  BY <1>4 DEF Fate
<1> QED BY <1>1, <1>2, <1>3, <1>4

LEMMA InvInit == MeshAssumption /\ Init => Inv
<1> SUFFICES ASSUME MeshAssumption, Init PROVE Inv
  OBVIOUS
<1>1. TypeOK
  BY DEF MeshAssumption, Init, TypeOK, NoCount, Phases, Upstreams, Endpoints
<1>2. ASSUME NEW up \in Upstreams
      PROVE  inFlight[up] = Cardinality(Callers(up)) /\ inFlight[up] <= Bulkhead[up]
  <2>1. Callers(up) = {}
    BY DEF Init, Callers
  <2> QED BY <2>1, FS_EmptySet DEF Init, MeshAssumption
<1> QED BY <1>1, <1>2 DEF Inv, BulkheadExact

-----------------------------------------------------------------------------
(* Steps *)

\* A user who awaits nothing has no call anywhere.
LEMMA IdleHasNoCall ==
  ASSUME TypeOK, NEW u \in Users, request[u] = "none", NEW up \in Upstreams
  PROVE  phase[<<u, up>>] = "none" /\ made[<<u, up>>] = 0 /\ u \notin Callers(up)
<1>1. <<u, up>> \in Calls
  OBVIOUS
<1>2. phase[<<u, up>>] = "none"
  BY <1>1 DEF TypeOK
<1> QED BY <1>1, <1>2 DEF TypeOK, Callers

\* What Send does, with its admitted calls and the fate of each call named.
SendsAs(u, endpoint, admitted, fate) ==
  /\ \A up \in Legs(endpoint) : up \in admitted <=> fate[up] = "attempting"
  /\ \A up \in admitted : ~Full(up)
  /\ phase' = [c \in Calls |-> IF c[1] = u /\ c[2] \in Legs(endpoint)
                               THEN fate[c[2]] ELSE phase[c]]
  /\ made' = [c \in Calls |-> IF c[1] = u /\ c[2] \in admitted THEN 1 ELSE made[c]]
  /\ inFlight' = [up \in Upstreams |-> inFlight[up] + IF up \in admitted THEN 1 ELSE 0]
  /\ window' = [up \in Upstreams |->
                  IF up \in admitted
                  THEN [calls |-> window[up].calls + 1, attempts |-> window[up].attempts + 1]
                  ELSE window[up]]

LEMMA SendEffect ==
  ASSUME MeshAssumption, Inv, NEW u \in Users, NEW endpoint \in Endpoints, Send(u, endpoint)
  PROVE  \E admitted \in SUBSET Legs(endpoint),
            fate \in [Legs(endpoint) -> {"failed", "answered", "attempting"}] :
           SendsAs(u, endpoint, admitted, fate)
<1> DEFINE fate(dropped)     == [up \in Legs(endpoint) |-> Fate(up, dropped)]
           admitted(dropped) == {up \in Legs(endpoint) : fate(dropped)[up] = "attempting"}
<1>1. PICK dropped \in SUBSET (sheds \cap Legs(endpoint)) :
        /\ phase' = [c \in Calls |-> IF c[1] = u /\ c[2] \in Legs(endpoint)
                                     THEN fate(dropped)[c[2]] ELSE phase[c]]
        /\ made' = [c \in Calls |-> IF c[1] = u /\ c[2] \in admitted(dropped) THEN 1 ELSE made[c]]
        /\ inFlight' = [up \in Upstreams |->
                          inFlight[up] + IF up \in admitted(dropped) THEN 1 ELSE 0]
        /\ window' = [up \in Upstreams |->
                        IF up \in admitted(dropped)
                        THEN [calls    |-> window[up].calls + 1,
                              attempts |-> window[up].attempts + 1]
                        ELSE window[up]]
  BY Zenon DEF Send
<1>2. /\ fate(dropped) \in [Legs(endpoint) -> {"failed", "answered", "attempting"}]
      /\ \A up \in Legs(endpoint) : fate(dropped)[up] = "attempting" => ~Full(up)
  BY FateIsOne
<1>3. /\ admitted(dropped) \in SUBSET Legs(endpoint)
      /\ \A up \in Legs(endpoint) : up \in admitted(dropped) <=> fate(dropped)[up] = "attempting"
      /\ \A up \in admitted(dropped) : ~Full(up)
  BY <1>2
<1> HIDE DEF fate, admitted
<1>4. SendsAs(u, endpoint, admitted(dropped), fate(dropped))
  BY <1>1, <1>3 DEF SendsAs
<1> QED BY <1>2, <1>3, <1>4

LEMMA SendKeeps ==
  ASSUME MeshAssumption, Inv, NEW u \in Users, NEW endpoint \in Endpoints, Send(u, endpoint)
  PROVE  Inv'
<1> USE LegsAreUpstreams
<1>1. PICK admitted \in SUBSET Legs(endpoint),
           fate \in [Legs(endpoint) -> {"failed", "answered", "attempting"}] :
             SendsAs(u, endpoint, admitted, fate)
  BY SendEffect
<1> USE DEF SendsAs
<1>2. request[u] = "none" /\ request' = [request EXCEPT ![u] = endpoint]
      /\ UNCHANGED <<left, breakers, sheds, carried>>
  BY DEF Send
<1>3. TypeOK
  BY DEF Inv
<1>4. \A up \in Upstreams : phase[<<u, up>>] = "none" /\ made[<<u, up>>] = 0 /\ u \notin Callers(up)
  BY <1>2, <1>3, IdleHasNoCall
<1>5. request' \in [Users -> Endpoints \cup {"none"}] /\ phase' \in [Calls -> Phases]
  BY <1>1, <1>2, <1>3 DEF TypeOK, Phases
<1>6. made' \in [Calls -> 0..Retries + 1]
  BY <1>1, <1>3 DEF TypeOK, MeshAssumption
<1>7. ASSUME NEW v \in Users, NEW up \in Upstreams
      PROVE  LET c == <<v, up>> IN
             /\ phase'[c] = "backoff" => made'[c] \in 1..Retries
             /\ phase'[c] = "attempting" => made'[c] >= 1
             /\ phase'[c] = "none" => made'[c] = 0
             /\ phase'[c] # "none" => request'[v] # "none" /\ up \in Legs(request'[v])
  <2>1. <<v, up>> \in Calls
    OBVIOUS
  <2>2. CASE v = u /\ up \in Legs(endpoint)
    <3>1. phase'[<<v, up>>] = fate[up] /\ fate[up] \in {"failed", "answered", "attempting"}
      BY <1>1, <2>1, <2>2
    <3>2. made'[<<v, up>>] = IF up \in admitted THEN 1 ELSE 0
      BY <1>1, <1>4, <2>1, <2>2
    <3>3. request'[v] = endpoint /\ endpoint # "none"
      BY <1>2, <1>3, <2>2 DEF TypeOK, Endpoints
    <3> QED BY <3>1, <3>2, <3>3, <1>1, <2>2
  <2>3. CASE v = u /\ up \notin Legs(endpoint)
    <3>1. phase'[<<v, up>>] = "none" /\ made'[<<v, up>>] = 0
      BY <1>1, <1>4, <2>1, <2>3
    <3> QED BY <3>1
  <2>4. CASE v # u
    <3>1. phase'[<<v, up>>] = phase[<<v, up>>] /\ made'[<<v, up>>] = made[<<v, up>>]
          /\ request'[v] = request[v]
      BY <1>1, <1>2, <1>3, <2>1, <2>4 DEF TypeOK
    <3> QED BY <3>1, <2>1, <1>3 DEF TypeOK
  <2> QED BY <2>2, <2>3, <2>4
<1>8. TypeOK'
  <2>1. \A c \in Calls : /\ phase'[c] = "backoff" => made'[c] \in 1..Retries
                         /\ phase'[c] = "attempting" => made'[c] >= 1
                         /\ phase'[c] = "none" => made'[c] = 0
                         /\ phase'[c] # "none" => /\ request'[c[1]] # "none"
                                                  /\ c[2] \in Legs(request'[c[1]])
    BY <1>7
  <2>2. window' \in [Upstreams -> [calls : Nat, attempts : Nat]]
    BY <1>1, <1>3 DEF TypeOK
  <2>3. inFlight' \in [Upstreams -> Nat]
    BY <1>1, <1>3 DEF TypeOK
  <2> QED BY <2>1, <2>2, <2>3, <1>2, <1>3, <1>5, <1>6 DEF TypeOK
<1>9. ASSUME NEW up \in Upstreams
      PROVE  inFlight'[up] = Cardinality(Callers(up)') /\ inFlight'[up] <= Bulkhead[up]
  <2>0. inFlight[up] = Cardinality(Callers(up)) /\ inFlight[up] <= Bulkhead[up]
        /\ inFlight[up] \in Nat /\ Bulkhead[up] \in Nat
    BY DEF Inv, BulkheadExact, TypeOK, MeshAssumption
  <2>1. CASE up \in admitted
    <3>1. Callers(up)' = Callers(up) \cup {u}
      BY <1>1, <1>3, <2>1 DEF Callers, TypeOK
    <3>2. inFlight'[up] = inFlight[up] + 1 /\ inFlight[up] < Bulkhead[up]
      BY <1>1, <2>0, <2>1 DEF Full
    <3>3. Cardinality(Callers(up) \cup {u}) = Cardinality(Callers(up)) + 1
      BY <1>4, CallersFinite, OneMore
    <3> QED BY <3>1, <3>2, <3>3, <2>0
  <2>2. CASE up \notin admitted
    <3>1. Callers(up)' = Callers(up)
      BY <1>1, <1>3, <1>4, <2>2 DEF Callers, TypeOK
    <3>2. inFlight'[up] = inFlight[up]
      BY <1>1, <2>0, <2>2
    <3> QED BY <3>1, <3>2, <2>0
  <2> QED BY <2>1, <2>2
<1> QED BY <1>8, <1>9 DEF Inv, BulkheadExact

\* A call that ends takes one caller from its upstream, whose counter is positive.
LEMMA LeaveKeeps ==
  ASSUME MeshAssumption, Inv, NEW u \in Users, NEW up \in Upstreams,
         phase[<<u, up>>] \in InFlight, NEW outcome \in {"answered", "failed"},
         Leave(<<u, up>>, outcome), UNCHANGED <<request, made>>
  PROVE  CallsOK' /\ BulkheadExact'
<1> DEFINE c == <<u, up>>
<1>1. c \in Calls /\ c[1] = u /\ c[2] = up /\ TypeOK
  BY DEF Inv
<1>2. /\ phase' = [phase EXCEPT ![c] = outcome]
      /\ inFlight' = [inFlight EXCEPT ![up] = inFlight[up] - 1]
  BY <1>1 DEF Leave
<1>3. ASSUME NEW w \in Upstreams
      PROVE  /\ inFlight'[w] \in Nat /\ inFlight'[w] = Cardinality(Callers(w)')
             /\ inFlight'[w] <= Bulkhead[w]
  <2>1. inFlight[w] = Cardinality(Callers(w)) /\ inFlight[w] <= Bulkhead[w]
        /\ inFlight[w] \in Nat /\ Bulkhead[w] \in Nat
    BY DEF Inv, BulkheadExact, TypeOK, MeshAssumption
  <2>2. CASE w = up
    <3>1. u \in Callers(up)
      BY DEF Callers
    <3>2. Callers(up)' = Callers(up) \ {u}
      BY <1>1, <1>2 DEF Callers, TypeOK
    <3>3. Cardinality(Callers(up) \ {u}) = Cardinality(Callers(up)) - 1
      BY <3>1, CallersFinite, OneLess
    <3>4. Cardinality(Callers(up)') \in Nat
      BY CallersFinite
    <3>5. inFlight'[up] = inFlight[up] - 1
      BY <1>1, <1>2 DEF TypeOK
    <3> QED BY <2>1, <2>2, <3>2, <3>3, <3>4, <3>5
  <2>3. CASE w # up
    <3>1. Callers(w)' = Callers(w)
      BY <1>1, <1>2, <2>3 DEF Callers, TypeOK
    <3>2. inFlight'[w] = inFlight[w]
      BY <1>1, <1>2, <2>3 DEF TypeOK
    <3> QED BY <2>1, <3>1, <3>2
  <2> QED BY <2>2, <2>3
<1>4. inFlight' \in [Upstreams -> Nat]
  BY <1>1, <1>2, <1>3 DEF TypeOK
<1>5. phase' \in [Calls -> Phases]
  BY <1>1, <1>2 DEF TypeOK, Phases
<1>6. phase[c] # "none" /\ outcome \notin {"none", "backoff", "attempting"}
  OBVIOUS
<1>7. ASSUME NEW d \in Calls
      PROVE  CallOK(d)'
  BY <1>1, <1>2, <1>6 DEF TypeOK, CallOK
<1> QED BY <1>1, <1>3, <1>4, <1>5, <1>7 DEF CallsOK, BulkheadExact, TypeOK

\* A call that goes from the attempt to the sleep, or back, keeps its slot.
LEMMA SlotKept ==
  ASSUME Inv, NEW u \in Users, NEW up \in Upstreams, phase[<<u, up>>] \in InFlight,
         NEW p \in InFlight, phase' = [phase EXCEPT ![<<u, up>>] = p], UNCHANGED inFlight
  PROVE  BulkheadExact'
<1>1. ASSUME NEW w \in Upstreams
      PROVE  Callers(w)' = Callers(w)
  BY DEF Inv, TypeOK, Callers
<1> QED BY <1>1 DEF Inv, BulkheadExact

LEMMA AttemptFailsKeeps ==
  ASSUME MeshAssumption, Inv, NEW u \in Users, NEW up \in Upstreams,
         phase[<<u, up>>] = "attempting", AttemptFails(<<u, up>>), UNCHANGED <<request, made>>
  PROVE  CallsOK' /\ BulkheadExact'
<1> DEFINE c == <<u, up>>
<1>1. c \in Calls /\ TypeOK
  BY DEF Inv
<1>2. CASE MayRetry(c) /\ phase' = [phase EXCEPT ![c] = "backoff"] /\ UNCHANGED inFlight
  <2>1. made[c] \in 1..Retries
    BY <1>1, <1>2 DEF TypeOK, MayRetry, MeshAssumption
  <2>2. phase' \in [Calls -> Phases]
    BY <1>1, <1>2 DEF TypeOK, Phases
  <2>3. ASSUME NEW d \in Calls
        PROVE  CallOK(d)'
    BY <1>1, <1>2, <2>1 DEF TypeOK, CallOK
  <2> QED BY <1>1, <1>2, <2>2, <2>3, SlotKept DEF CallsOK, TypeOK
<1>3. CASE Leave(c, "failed")
  BY <1>3, LeaveKeeps
<1> QED BY <1>2, <1>3 DEF AttemptFails

\* Steps of one call.
LEMMA StepKeeps ==
  ASSUME MeshAssumption, Inv, NEW u \in Users, NEW up \in Upstreams, Step(<<u, up>>)
  PROVE  Inv'
<1> DEFINE c == <<u, up>>
<1>1. c \in Calls /\ c[2] = up /\ TypeOK
  BY DEF Inv
<1>2. CASE TimesOut(c)
  <2>1. CallsOK' /\ BulkheadExact'
    BY <1>2, AttemptFailsKeeps DEF TimesOut
  <2>2. left' \in [Upstreams -> Nat]
    BY <1>1, <1>2 DEF TimesOut, TypeOK
  <2> QED BY <1>1, <1>2, <2>1, <2>2 DEF TimesOut, TypeOK, CallsOK, CallOK, Inv
<1>3. CASE Refused(c)
  <2>1. CallsOK' /\ BulkheadExact'
    BY <1>3, AttemptFailsKeeps DEF Refused
  <2> QED BY <1>1, <1>3, <2>1 DEF Refused, TypeOK, CallsOK, CallOK, Inv
<1>4. CASE Answered(c)
  <2>1. CallsOK' /\ BulkheadExact'
    BY <1>4, LeaveKeeps DEF Answered
  <2> QED BY <1>1, <1>4, <2>1 DEF Answered, TypeOK, CallsOK, CallOK, Inv
<1>5. CASE Retry(c)
  <2>1. /\ phase[c] = "backoff" /\ phase' = [phase EXCEPT ![c] = "attempting"]
        /\ made' = [made EXCEPT ![c] = made[c] + 1]
        /\ UNCHANGED <<request, inFlight, left, breakers, sheds, carried>>
    BY <1>5 DEF Retry
  <2>2. made[c] \in 1..Retries /\ Retries \in Nat
    BY <1>1, <2>1 DEF TypeOK, MeshAssumption
  <2>3. BulkheadExact'
    BY <2>1, SlotKept
  <2>4. made' \in [Calls -> 0..Retries + 1] /\ phase' \in [Calls -> Phases]
    BY <1>1, <2>1, <2>2 DEF TypeOK, Phases
  <2>5. ASSUME NEW d \in Calls
        PROVE  CallOK(d)'
    BY <1>1, <2>1, <2>2 DEF TypeOK, CallOK
  <2>6. window' \in [Upstreams -> [calls : Nat, attempts : Nat]]
    BY <1>1, <1>5 DEF TypeOK, Retry
  <2> QED BY <1>1, <2>1, <2>3, <2>4, <2>5, <2>6 DEF TypeOK, CallOK, Inv
<1> QED BY <1>2, <1>3, <1>4, <1>5 DEF Step

\* The answer to a user ends the calls that are no longer in flight.
LEMMA ReplyKeeps ==
  ASSUME Inv, NEW u \in Users, Reply(u)
  PROVE  Inv'
<1>1. /\ request' = [request EXCEPT ![u] = "none"]
      /\ phase' = [c \in Calls |-> IF c[1] = u THEN "none" ELSE phase[c]]
      /\ made' = [c \in Calls |-> IF c[1] = u THEN 0 ELSE made[c]]
      /\ UNCHANGED <<inFlight, left, breakers, sheds, window, carried>>
  BY DEF Reply
<1>2. \A up \in Upstreams : phase[<<u, up>>] \notin InFlight
  BY DEF Reply, Settled
<1>3. TypeOK
  BY DEF Inv
<1>4. ASSUME NEW v \in Users, NEW up \in Upstreams
      PROVE  CallOK(<<v, up>>)'
  <2>1. <<v, up>> \in Calls
    OBVIOUS
  <2>2. CASE v = u
    BY <1>1, <2>1, <2>2 DEF CallOK
  <2>3. CASE v # u
    BY <1>1, <1>3, <2>1, <2>3 DEF CallOK, TypeOK
  <2> QED BY <2>2, <2>3
<1>5. \A d \in Calls : CallOK(d)'
  BY <1>4
<1>6. request' \in [Users -> Endpoints \cup {"none"}] /\ phase' \in [Calls -> Phases]
  BY <1>1, <1>3 DEF TypeOK, Phases
<1>7. ASSUME NEW up \in Upstreams
      PROVE  Callers(up)' = Callers(up)
  BY <1>1, <1>2, <1>3 DEF Callers, TypeOK
<1>8. made' \in [Calls -> 0..Retries + 1]
  <2>1. ASSUME NEW d \in Calls
        PROVE  made'[d] \in 0..Retries + 1
    BY <1>1, <1>3, MeshAssumption DEF TypeOK, MeshAssumption
  <2> QED BY <1>1, <2>1
<1>9. TypeOK'
  BY <1>1, <1>3, <1>5, <1>6, <1>8 DEF TypeOK, CallOK
<1> QED BY <1>1, <1>7, <1>9 DEF Inv, BulkheadExact

\* What touches no call: work given up ends, breakers and sheds change, and the
\* counters are reset.
LEMMA OthersKeep ==
  ASSUME Inv, \/ \E up \in Upstreams : LeftEnds(up) \/ SetBreaker(up)
              \/ \E up \in Sheddable : SetShed(up)
              \/ Log \/ Restart \/ UNCHANGED vars,
         MeshAssumption
  PROVE  Inv'
<1> USE DEF Inv
<1>1. UNCHANGED <<request, phase, made, inFlight>>
  BY DEF LeftEnds, SetBreaker, SetShed, Log, Restart, vars
<1>2. BulkheadExact'
  BY <1>1 DEF BulkheadExact, Callers
<1>3. left' \in [Upstreams -> Nat]
  BY DEF TypeOK, LeftEnds, SetBreaker, SetShed, Log, Restart, vars
<1>4. breakers' \subseteq Upstreams /\ sheds' \subseteq Upstreams
  BY DEF TypeOK, LeftEnds, SetBreaker, SetShed, Log, Restart, vars, MeshAssumption
<1>5. window' \in [Upstreams -> [calls : Nat, attempts : Nat]] /\ carried' \in [Upstreams -> Nat]
  BY DEF TypeOK, LeftEnds, SetBreaker, SetShed, Log, Restart, vars, NewWindow, NoCount
<1>6. TypeOK'
  BY <1>1, <1>3, <1>4, <1>5 DEF TypeOK
<1> QED BY <1>2, <1>6

LEMMA InvStep == MeshAssumption /\ Inv /\ [Next]_vars => Inv'
<1> SUFFICES ASSUME MeshAssumption, Inv, [Next]_vars PROVE Inv'
  OBVIOUS
<1>1. ASSUME NEW u \in Users, Reply(u)
      PROVE  Inv'
  BY <1>1, ReplyKeeps
<1>2. ASSUME NEW u \in Users, NEW e \in Endpoints, Send(u, e)
      PROVE  Inv'
  BY <1>2, SendKeeps
<1>3. ASSUME NEW c \in Calls, Step(c)
      PROVE  Inv'
  <2>1. PICK u \in Users, up \in Upstreams : c = <<u, up>>
    OBVIOUS
  <2> QED BY <1>3, <2>1, StepKeeps
<1>4. ASSUME \/ \E up \in Upstreams : LeftEnds(up) \/ SetBreaker(up)
             \/ \E up \in Sheddable : SetShed(up)
             \/ Log \/ Restart \/ UNCHANGED vars
      PROVE  Inv'
  BY <1>4, OthersKeep
<1> QED BY <1>1, <1>2, <1>3, <1>4 DEF Next

-----------------------------------------------------------------------------
(* Theorems *)

\* Every variable keeps its domain; a call exists only for a request that needs it
\* and makes at most Retries attempts after the first.
THEOREM TypeCorrect == Spec => []TypeOK
<1>1. Init => Inv
  BY InvInit, MeshAssumption
<1>2. Inv /\ [Next]_vars => Inv'
  BY InvStep, MeshAssumption
<1>3. Inv => TypeOK
  BY DEF Inv
<1> QED BY <1>1, <1>2, <1>3, PTL DEF Spec

\* The gateway's counter is the number of calls in flight and within the bulkhead,
\* whatever the upstreams do, and across restarts.
THEOREM BulkheadAlways == Spec => []BulkheadExact
<1>1. Init => Inv
  BY InvInit, MeshAssumption
<1>2. Inv /\ [Next]_vars => Inv'
  BY InvStep, MeshAssumption
<1>3. Inv => BulkheadExact
  BY DEF Inv
<1> QED BY <1>1, <1>2, <1>3, PTL DEF Spec

-----------------------------------------------------------------------------
(* Amplification *)

\* The retries still open to the calls in flight, each by its caller and its number
\* among the attempts of the call. A set, so that their number needs no sum.
Ahead(up) ==
  {x \in Users \X (2..Retries + 1) : x[1] \in Callers(up) /\ x[2] > made[<<x[1], up>>]}

\* AmplificationIsBounded is not inductive: a retry adds an attempt to a window whose
\* bound may be reached. Counting the open retries with the attempts makes it so.
AmpInv ==
  \A up \in Upstreams :
    window[up].attempts + Cardinality(Ahead(up))
      <= (1 + Retries) * window[up].calls + Retries * carried[up]

LEMMA AheadFinite ==
  ASSUME MeshAssumption, NEW up
  PROVE  /\ IsFiniteSet(Ahead(up)) /\ Cardinality(Ahead(up)) \in Nat
         /\ IsFiniteSet(Ahead(up)') /\ Cardinality(Ahead(up)') \in Nat
<1>1. IsFiniteSet(Users \X (2..Retries + 1))
  <2>1. IsFiniteSet(2..Retries + 1) /\ IsFiniteSet(Users)
    BY FS_Interval DEF MeshAssumption
  <2> QED BY <2>1, FS_Product
<1>2. Ahead(up) \subseteq Users \X (2..Retries + 1) /\ Ahead(up)' \subseteq Users \X (2..Retries + 1)
  BY DEF Ahead
<1> QED BY <1>1, <1>2, FS_Subset, FS_CardinalityType

\* A caller has at most Retries of them ahead, since it has made its first attempt.
LEMMA AheadOfCallers ==
  ASSUME MeshAssumption, NEW S, IsFiniteSet(S)
  PROVE  /\ IsFiniteSet(S \X (2..Retries + 1))
         /\ Cardinality(S \X (2..Retries + 1)) = Cardinality(S) * Retries
<1>1. IsFiniteSet(2..Retries + 1) /\ Cardinality(2..Retries + 1) = Retries
  BY FS_Interval DEF MeshAssumption
<1> QED BY <1>1, FS_Product

\* Nothing that leaves the window alone and opens no retry disturbs the bound.
LEMMA AmpKept ==
  ASSUME MeshAssumption, TypeOK, AmpInv, UNCHANGED <<window, carried>>,
         \A up \in Upstreams : Ahead(up)' \subseteq Ahead(up)
  PROVE  AmpInv'
<1>1. ASSUME NEW up \in Upstreams
      PROVE  Cardinality(Ahead(up)') <= Cardinality(Ahead(up))
  BY AheadFinite, FS_Subset
<1>2. ASSUME NEW up \in Upstreams
      PROVE  window[up].attempts \in Nat /\ window[up].calls \in Nat /\ carried[up] \in Nat
  BY DEF TypeOK
<1> DEFINE bound(up) == (1 + Retries) * window[up].calls + Retries * carried[up]
<1>3. ASSUME NEW up \in Upstreams
      PROVE  bound(up) \in Nat /\ window[up].attempts + Cardinality(Ahead(up)) <= bound(up)
  BY <1>2 DEF AmpInv, MeshAssumption
<1> HIDE DEF bound
<1>4. ASSUME NEW up \in Upstreams
      PROVE  window[up].attempts + Cardinality(Ahead(up)') <= bound(up)
  BY <1>1, <1>2, <1>3, AheadFinite
<1> QED BY <1>4 DEF AmpInv, bound

LEMMA AmpInit == MeshAssumption /\ Init => AmpInv
<1> SUFFICES ASSUME MeshAssumption, Init, NEW up \in Upstreams
             PROVE  window[up].attempts + Cardinality(Ahead(up))
                      <= (1 + Retries) * window[up].calls + Retries * carried[up]
  BY DEF AmpInv
<1>1. Ahead(up) = {} /\ Cardinality(Ahead(up)) = 0
  <2>1. Ahead(up) = {}
    BY DEF Ahead, Callers, Init
  <2> QED BY <2>1, FS_EmptySet
<1>2. window[up].attempts = 0 /\ window[up].calls = 0 /\ carried[up] = 0
  BY DEF Init, NoCount
<1> QED BY <1>1, <1>2 DEF MeshAssumption

\* An admitted call counts one call, one attempt and Retries open retries.
LEMMA AmpSend ==
  ASSUME MeshAssumption, Inv, AmpInv, NEW u \in Users, NEW endpoint \in Endpoints,
         Send(u, endpoint)
  PROVE  AmpInv'
<1> USE LegsAreUpstreams
<1>1. PICK admitted \in SUBSET Legs(endpoint),
           fate \in [Legs(endpoint) -> {"failed", "answered", "attempting"}] :
             SendsAs(u, endpoint, admitted, fate)
  BY SendEffect
<1>2. request[u] = "none" /\ TypeOK /\ carried' = carried
  BY DEF Send, Inv
<1> SUFFICES ASSUME NEW up \in Upstreams
             PROVE  window'[up].attempts + Cardinality(Ahead(up)')
                      <= (1 + Retries) * window'[up].calls + Retries * carried'[up]
  BY DEF AmpInv
<1>3. u \notin Callers(up)
  BY <1>2, IdleHasNoCall
<1>4. /\ window[up].attempts \in Nat /\ window[up].calls \in Nat /\ carried[up] \in Nat
      /\ Retries \in Nat /\ Cardinality(Ahead(up)) \in Nat
      /\ window[up].attempts + Cardinality(Ahead(up))
           <= (1 + Retries) * window[up].calls + Retries * carried[up]
  BY <1>2, AheadFinite DEF TypeOK, AmpInv, MeshAssumption
<1>5. ASSUME NEW v \in Users, v # u
      PROVE  made'[<<v, up>>] = made[<<v, up>>] /\ (v \in Callers(up)' <=> v \in Callers(up))
  <2>1. <<v, up>> \in Calls
    OBVIOUS
  <2> QED BY <1>1, <1>5, <2>1 DEF SendsAs, Callers
<1>6. CASE up \in admitted
  <2>1. <<u, up>> \in Calls
    OBVIOUS
  <2>2. made'[<<u, up>>] = 1 /\ u \in Callers(up)'
    BY <1>1, <1>6, <2>1 DEF SendsAs, Callers
  <2>3. Ahead(up)' = Ahead(up) \cup ({u} \X (2..Retries + 1))
    BY <1>3, <1>5, <2>2 DEF Ahead
  <2>4. Ahead(up) \cap ({u} \X (2..Retries + 1)) = {}
    BY <1>3 DEF Ahead
  <2>5. /\ IsFiniteSet({u} \X (2..Retries + 1))
        /\ Cardinality({u} \X (2..Retries + 1)) = Retries
    <3>1. IsFiniteSet({u}) /\ Cardinality({u}) = 1
      BY FS_Singleton
    <3>2. /\ IsFiniteSet({u} \X (2..Retries + 1))
          /\ Cardinality({u} \X (2..Retries + 1)) = Cardinality({u}) * Retries
      BY <3>1, AheadOfCallers
    <3> QED BY <1>4, <3>1, <3>2
  <2>6. Cardinality(Ahead(up)') = Cardinality(Ahead(up)) + Retries
    <3> DEFINE A == Ahead(up)
               B == {u} \X (2..Retries + 1)
    <3>1. IsFiniteSet(A)
      BY AheadFinite
    <3> HIDE DEF A, B
    <3>2. Cardinality(A \cup B) = Cardinality(A) + Cardinality(B) - Cardinality(A \cap B)
      BY <2>5, <3>1, FS_Union DEF B
    <3>3. Cardinality(A \cap B) = 0
      BY <2>4, FS_EmptySet DEF A, B
    <3> QED BY <1>4, <2>3, <2>5, <3>2, <3>3 DEF A, B
  <2>7. /\ window'[up].attempts = window[up].attempts + 1
        /\ window'[up].calls = window[up].calls + 1
    BY <1>1, <1>6 DEF SendsAs
  <2>8. (1 + Retries) * (window[up].calls + 1) = (1 + Retries) * window[up].calls + 1 + Retries
    BY <1>4
  <2> QED BY <1>2, <1>4, <2>6, <2>7, <2>8
<1>7. CASE up \notin admitted
  <2>1. window'[up] = window[up]
    BY <1>1, <1>7 DEF SendsAs
  <2>2. u \notin Callers(up)'
    <3>1. <<u, up>> \in Calls /\ phase[<<u, up>>] = "none"
      BY <1>2, IdleHasNoCall
    <3> QED BY <1>1, <1>7, <3>1 DEF SendsAs, Callers
  <2>3. Ahead(up)' = Ahead(up)
    BY <1>3, <1>5, <2>2 DEF Ahead
  <2> QED BY <1>2, <1>4, <2>1, <2>3
<1> QED BY <1>6, <1>7

\* A retry turns an open retry into an attempt; nothing else about a call opens one.
LEMMA AmpStep ==
  ASSUME MeshAssumption, Inv, AmpInv, NEW u \in Users, NEW up \in Upstreams, Step(<<u, up>>)
  PROVE  AmpInv'
<1> DEFINE c == <<u, up>>
<1>1. c \in Calls /\ TypeOK
  BY DEF Inv
<1>2. CASE TimesOut(c) \/ Refused(c) \/ Answered(c)
  <2>1. /\ phase[c] \in InFlight /\ UNCHANGED <<made, window, carried>>
        /\ \E p \in {"backoff", "answered", "failed"} : phase' = [phase EXCEPT ![c] = p]
    BY <1>2 DEF TimesOut, Refused, Answered, AttemptFails, Leave
  <2>2. ASSUME NEW w \in Upstreams
        PROVE  Callers(w)' \subseteq Callers(w)
    BY <1>1, <2>1 DEF Callers, TypeOK
  <2>3. \A w \in Upstreams : Ahead(w)' \subseteq Ahead(w)
    BY <2>1, <2>2 DEF Ahead
  <2> QED BY <1>1, <2>1, <2>3, AmpKept
<1>3. CASE Retry(c)
  <2>1. /\ phase[c] = "backoff" /\ phase' = [phase EXCEPT ![c] = "attempting"]
        /\ made' = [made EXCEPT ![c] = made[c] + 1] /\ carried' = carried
        /\ window' = [window EXCEPT ![up].attempts = window[up].attempts + 1]
    BY <1>1, <1>3 DEF Retry
  <2>2. made[c] \in 1..Retries /\ Retries \in Nat
    BY <1>1, <2>1 DEF TypeOK, MeshAssumption
  <2>3. \A w \in Upstreams : Callers(w)' = Callers(w)
    BY <1>1, <2>1 DEF Callers, TypeOK
  <2> SUFFICES ASSUME NEW w \in Upstreams
               PROVE  window'[w].attempts + Cardinality(Ahead(w)')
                        <= (1 + Retries) * window'[w].calls + Retries * carried'[w]
    BY DEF AmpInv
  <2>4. /\ window[w].attempts \in Nat /\ window[w].calls \in Nat /\ carried[w] \in Nat
        /\ Cardinality(Ahead(w)) \in Nat
        /\ window[w].attempts + Cardinality(Ahead(w))
             <= (1 + Retries) * window[w].calls + Retries * carried[w]
    BY <1>1, AheadFinite DEF TypeOK, AmpInv
  <2>5. CASE w = up
    <3>1. u \in Callers(up)
      BY <2>1 DEF Callers
    <3>2. made'[c] = made[c] + 1 /\ \A v \in Users \ {u} : made'[<<v, up>>] = made[<<v, up>>]
      BY <1>1, <2>1 DEF TypeOK
    <3>3. Ahead(up)' = Ahead(up) \ {<<u, made[c] + 1>>}
      BY <2>2, <2>3, <3>1, <3>2 DEF Ahead
    <3>4. <<u, made[c] + 1>> \in Ahead(up)
      BY <2>2, <3>1 DEF Ahead
    <3>5. Cardinality(Ahead(up)') = Cardinality(Ahead(up)) - 1
      BY <3>3, <3>4, AheadFinite, OneLess
    <3>6. window'[up].attempts = window[up].attempts + 1 /\ window'[up].calls = window[up].calls
      BY <1>1, <2>1 DEF TypeOK
    <3> QED BY <2>1, <2>4, <2>5, <3>5, <3>6
  <2>6. CASE w # up
    <3>1. window'[w] = window[w]
      BY <1>1, <2>1, <2>6 DEF TypeOK
    <3>2. \A v \in Users : made'[<<v, w>>] = made[<<v, w>>]
      BY <1>1, <2>1, <2>6 DEF TypeOK
    <3>3. Ahead(w)' = Ahead(w)
      BY <2>3, <3>2 DEF Ahead
    <3> QED BY <2>1, <2>4, <3>1, <3>3
  <2> QED BY <2>5, <2>6
<1> QED BY <1>2, <1>3 DEF Step

LEMMA AmpReply ==
  ASSUME MeshAssumption, Inv, AmpInv, NEW u \in Users, Reply(u)
  PROVE  AmpInv'
<1>1. ASSUME NEW v \in Users, NEW up \in Upstreams, v \in Callers(up)'
      PROVE  v \in Callers(up) /\ made'[<<v, up>>] = made[<<v, up>>]
  <2>1. <<v, up>> \in Calls
    OBVIOUS
  <2> QED BY <1>1, <2>1 DEF Reply, Callers
<1>2. \A up \in Upstreams : Ahead(up)' \subseteq Ahead(up)
  BY <1>1 DEF Ahead
<1> QED BY <1>2, AmpKept DEF Reply, Inv

\* The counters are reset: what the calls in flight may still add is carried over.
LEMMA AmpResets ==
  ASSUME MeshAssumption, Inv, Log \/ Restart
  PROVE  AmpInv'
<1>1. /\ window' = [up \in Upstreams |-> NoCount] /\ carried' = inFlight
      /\ UNCHANGED <<phase, made>>
  BY DEF Log, Restart, NewWindow
<1> SUFFICES ASSUME NEW up \in Upstreams
             PROVE  window'[up].attempts + Cardinality(Ahead(up)')
                      <= (1 + Retries) * window'[up].calls + Retries * carried'[up]
  BY DEF AmpInv
<1>2. Callers(up)' = Callers(up)
  BY <1>1 DEF Callers
<1>3. Ahead(up)' \subseteq Callers(up) \X (2..Retries + 1)
  BY <1>2 DEF Ahead
<1>4. /\ IsFiniteSet(Callers(up) \X (2..Retries + 1))
      /\ Cardinality(Callers(up) \X (2..Retries + 1)) = inFlight[up] * Retries
  BY CallersFinite, AheadOfCallers DEF Inv, BulkheadExact
<1>5. Cardinality(Ahead(up)') <= inFlight[up] * Retries
  BY <1>3, <1>4, FS_Subset
<1>6. inFlight[up] \in Nat /\ Retries \in Nat /\ Cardinality(Ahead(up)') \in Nat
  BY AheadFinite DEF Inv, TypeOK, MeshAssumption
<1>7. window'[up].attempts = 0 /\ window'[up].calls = 0 /\ carried'[up] = inFlight[up]
  BY <1>1 DEF NoCount
<1>8. inFlight[up] * Retries = Retries * inFlight[up]
  BY <1>6
<1> QED BY <1>5, <1>6, <1>7, <1>8

LEMMA AmpNext == MeshAssumption /\ Inv /\ AmpInv /\ [Next]_vars => AmpInv'
<1> SUFFICES ASSUME MeshAssumption, Inv, AmpInv, [Next]_vars PROVE AmpInv'
  OBVIOUS
<1>1. ASSUME NEW c \in Calls, Step(c)
      PROVE  AmpInv'
  <2>1. PICK u \in Users, up \in Upstreams : c = <<u, up>>
    OBVIOUS
  <2> QED BY <1>1, <2>1, AmpStep
<1>2. CASE \/ \E up \in Upstreams : LeftEnds(up) \/ SetBreaker(up)
           \/ \E up \in Sheddable : SetShed(up)
           \/ UNCHANGED vars
  <2>1. UNCHANGED <<phase, made, window, carried>>
    BY <1>2 DEF LeftEnds, SetBreaker, SetShed, vars
  <2>2. \A up \in Upstreams : Ahead(up)' = Ahead(up)
    BY <2>1 DEF Ahead, Callers
  <2> QED BY <2>1, <2>2, AmpKept DEF Inv
<1> QED BY <1>1, <1>2, AmpSend, AmpReply, AmpResets DEF Next

\* In a window of the gateway's log amplification exceeds 1 + Retries by the retries of
\* calls an earlier window counted, and by no more, for any users, bulkheads and retries.
THEOREM AmplificationAlways == Spec => []AmplificationIsBounded
<1>1. Init => Inv /\ AmpInv
  BY InvInit, AmpInit, MeshAssumption
<1>2. Inv /\ AmpInv /\ [Next]_vars => Inv' /\ AmpInv'
  BY InvStep, AmpNext, MeshAssumption
<1>3. Inv /\ AmpInv => AmplificationIsBounded
  <2> SUFFICES ASSUME Inv, AmpInv, NEW up \in Upstreams
               PROVE  window[up].attempts
                        <= (1 + Retries) * window[up].calls + Retries * carried[up]
    BY DEF AmplificationIsBounded
  <2> DEFINE bound == (1 + Retries) * window[up].calls + Retries * carried[up]
  <2>1. window[up].attempts + Cardinality(Ahead(up)) <= bound
    BY DEF AmpInv
  <2>2. Cardinality(Ahead(up)) \in Nat /\ window[up].attempts \in Nat /\ bound \in Nat
    <3>1. Cardinality(Ahead(up)) \in Nat /\ Retries \in Nat
      BY AheadFinite, MeshAssumption DEF MeshAssumption
    <3>2. window[up].attempts \in Nat /\ window[up].calls \in Nat /\ carried[up] \in Nat
      BY DEF Inv, TypeOK
    <3> QED BY <3>1, <3>2
  <2> HIDE DEF bound
  <2>3. window[up].attempts <= bound
    BY <2>1, <2>2
  <2> QED BY <2>3 DEF bound
<1> QED BY <1>1, <1>2, <1>3, PTL DEF Spec

-----------------------------------------------------------------------------
(* Refinement *)

\* The attempts of the call in flight, which is BoundedCalls' variable.
current == [c \in Calls |-> IF phase[c] \in InFlight THEN made[c] ELSE 0]

\* The two modules count with the same operator.
LEMMA SameCardinality == \A S : Abstract!Cardinality(S) = Cardinality(S)
BY Zenon DEF Abstract!Cardinality, Cardinality

LEMMA CallsInit == Init => Abstract!Init
BY DEF Init, Abstract!Init

\* A step that moves the calls of one user only is a step of BoundedCalls.
LEMMA OneUserMoves ==
  ASSUME MeshAssumption, Inv, Inv', NEW u \in Users,
         \A c \in Calls : current'[c] \in IF c[1] = u THEN Abstract!Moves(current[c])
                                                      ELSE {current[c]}
  PROVE  Abstract!Next
<1>1. current' \in [Calls -> 0..Retries + 1]
  <2>1. ASSUME NEW c \in Calls
        PROVE  current'[c] \in 0..Retries + 1
    BY DEF current, Inv, TypeOK, MeshAssumption
  <2> QED BY <2>1 DEF current
<1>2. ASSUME NEW up \in Upstreams
      PROVE  Abstract!Cardinality(Abstract!Busy(up)') <= Bulkhead[up]
  <2>1. {v \in Users : current[<<v, up>>] # 0}' = Callers(up)'
    <3>1. TypeOK'
      BY DEF Inv
    <3>2. ASSUME NEW v \in Users
          PROVE  current'[<<v, up>>] # 0 <=> phase'[<<v, up>>] \in InFlight
      <4>1. <<v, up>> \in Calls
        OBVIOUS
      <4>2. made'[<<v, up>>] \in 0..Retries + 1
        BY <3>1, <4>1 DEF TypeOK
      <4>3. phase'[<<v, up>>] \in InFlight => made'[<<v, up>>] # 0
        BY <3>1, <4>1, <4>2 DEF TypeOK, MeshAssumption
      <4> QED BY <4>1, <4>3 DEF current
    <3> QED BY <3>2 DEF Callers
  <2>2. Abstract!Busy(up)' = Callers(up)'
    BY <2>1 DEF Abstract!Busy, current
  <2> QED BY <2>2, SameCardinality DEF Inv, BulkheadExact
<1>3. current' \in {m \in [Calls -> 0..Retries + 1] :
                      \A c \in Calls : m[c] \in IF c[1] = u THEN Abstract!Moves(current[c])
                                                            ELSE {current[c]}}
  BY <1>1
<1> HIDE DEF current
<1> QED BY <1>2, <1>3 DEF Abstract!Next, current

LEMMA SendMoves ==
  ASSUME MeshAssumption, Inv, Inv', NEW u \in Users, NEW endpoint \in Endpoints,
         Send(u, endpoint)
  PROVE  Abstract!Next
<1>1. PICK admitted \in SUBSET Legs(endpoint),
           fate \in [Legs(endpoint) -> {"failed", "answered", "attempting"}] :
             SendsAs(u, endpoint, admitted, fate)
  BY SendEffect
<1> USE DEF SendsAs
<1>2. request[u] = "none" /\ TypeOK
  BY DEF Send, Inv
<1>3. ASSUME NEW v \in Users, NEW up \in Upstreams
      PROVE  current'[<<v, up>>] \in IF v = u THEN Abstract!Moves(current[<<v, up>>])
                                             ELSE {current[<<v, up>>]}
  <2>1. <<v, up>> \in Calls
    OBVIOUS
  <2>2. CASE v # u
    BY <1>1, <2>1, <2>2 DEF current
  <2>3. CASE v = u
    <3>1. current[<<u, up>>] = 0
      BY <1>2, <2>1, <2>3, IdleHasNoCall DEF current
    <3>2. current'[<<u, up>>] \in {0, 1}
      BY <1>1, <1>2, <2>1, <2>3, IdleHasNoCall DEF current
    <3> QED BY <2>3, <3>1, <3>2 DEF Abstract!Moves, MeshAssumption
  <2> QED BY <2>2, <2>3
<1>4. \A c \in Calls : current'[c] \in IF c[1] = u THEN Abstract!Moves(current[c])
                                                   ELSE {current[c]}
  BY <1>3
<1> QED BY <1>4, OneUserMoves

LEMMA StepMoves ==
  ASSUME MeshAssumption, Inv, Inv', NEW u \in Users, NEW up \in Upstreams, Step(<<u, up>>)
  PROVE  Abstract!Next
<1> DEFINE c == <<u, up>>
<1>1. c \in Calls /\ c[1] = u /\ TypeOK
  BY DEF Inv
<1>2. \/ /\ phase[c] \in InFlight /\ UNCHANGED made
         /\ \E p \in {"backoff", "answered", "failed"} : phase' = [phase EXCEPT ![c] = p]
      \/ /\ phase[c] = "backoff" /\ made' = [made EXCEPT ![c] = made[c] + 1]
         /\ phase' = [phase EXCEPT ![c] = "attempting"]
  BY DEF Step, TimesOut, Refused, Answered, Retry, AttemptFails, Leave
<1>3. ASSUME NEW d \in Calls
      PROVE  current'[d] \in IF d[1] = u THEN Abstract!Moves(current[d]) ELSE {current[d]}
  <2>1. CASE d # c
    <3>1. phase'[d] = phase[d] /\ made'[d] = made[d]
      BY <1>1, <1>2, <2>1 DEF TypeOK
    <3> QED BY <3>1 DEF current, Abstract!Moves
  <2>2. CASE d = c
    <3>1. current[c] = made[c]
      BY <1>1, <1>2 DEF current
    <3>2. current'[c] \in {0, made[c]} \/ (phase[c] = "backoff" /\ current'[c] = made[c] + 1)
      BY <1>1, <1>2 DEF current, TypeOK
    <3>3. phase[c] = "backoff" => made[c] < Retries + 1
      BY <1>1 DEF TypeOK, MeshAssumption
    <3> QED BY <1>1, <2>2, <3>1, <3>2, <3>3 DEF Abstract!Moves
  <2> QED BY <2>1, <2>2
<1> QED BY <1>3, OneUserMoves

\* Every other step leaves the calls in flight alone.
LEMMA OthersStutter ==
  ASSUME Inv, \/ \E u \in Users : Reply(u)
              \/ \E up \in Upstreams : LeftEnds(up) \/ SetBreaker(up)
              \/ \E up \in Sheddable : SetShed(up)
              \/ Log \/ Restart \/ UNCHANGED vars
  PROVE  UNCHANGED current
<1>1. CASE \E u \in Users : Reply(u)
  <2>1. PICK u \in Users : Reply(u)
    BY <1>1
  <2>2. ASSUME NEW v \in Users, NEW up \in Upstreams
        PROVE  current'[<<v, up>>] = current[<<v, up>>]
    <3>1. <<v, up>> \in Calls
      OBVIOUS
    <3>2. CASE v = u
      BY <2>1, <3>1, <3>2 DEF Reply, Settled, current
    <3>3. CASE v # u
      BY <2>1, <3>1, <3>3 DEF Reply, current
    <3> QED BY <3>2, <3>3
  <2>3. \A c \in Calls : current'[c] = current[c]
    BY <2>2
  <2> QED BY <2>3 DEF current
<1>2. CASE UNCHANGED <<phase, made>>
  BY <1>2 DEF current
<1> QED BY <1>1, <1>2 DEF LeftEnds, SetBreaker, SetShed, Log, Restart, vars

LEMMA CallsStep == MeshAssumption /\ Inv /\ Inv' /\ [Next]_vars => [Abstract!Next]_current
<1> SUFFICES ASSUME MeshAssumption, Inv, Inv', [Next]_vars
             PROVE  Abstract!Next \/ UNCHANGED current
  OBVIOUS
<1>1. ASSUME NEW u \in Users, NEW e \in Endpoints, Send(u, e)
      PROVE  Abstract!Next
  BY <1>1, SendMoves
<1>2. ASSUME NEW c \in Calls, Step(c)
      PROVE  Abstract!Next
  <2>1. PICK u \in Users, up \in Upstreams : c = <<u, up>>
    OBVIOUS
  <2> QED BY <1>2, <2>1, StepMoves
<1>3. CASE \/ \E u \in Users : Reply(u)
           \/ \E up \in Upstreams : LeftEnds(up) \/ SetBreaker(up)
           \/ \E up \in Sheddable : SetShed(up)
           \/ Log \/ Restart \/ UNCHANGED vars
  BY <1>3, OthersStutter
<1> QED BY <1>1, <1>2, <1>3 DEF Next

\* Every behaviour of the gateway is one of BoundedCalls: a user's call to an
\* upstream makes at most Retries + 1 attempts, one after another, and no more
\* calls than the bulkhead admits are in progress (callUpstream).
THEOREM ImplementsBoundedCalls == Spec => CallsSpec
<1>1. Init => Inv /\ Abstract!Init
  BY InvInit, CallsInit, MeshAssumption
<1>2. Inv /\ [Next]_vars => Inv'
  BY InvStep, MeshAssumption
<1>3. Inv /\ Inv' /\ [Next]_vars => [Abstract!Next]_current
  BY CallsStep, MeshAssumption
<1> QED BY <1>1, <1>2, <1>3, PTL DEF Spec, CallsSpec, Abstract!Spec, current

=============================================================================
