----------------------------- MODULE BoundedCalls -----------------------------
(***************************************************************************)
(* What the gateway promises the services it calls, without timers, counters *)
(* or failures: each user has at most one call to each upstream in progress,  *)
(* a call makes one attempt after another and at most MaxAttempts of them,    *)
(* and never more than Limit[up] calls to one upstream are in progress.       *)
(***************************************************************************)
EXTENDS Integers, FiniteSets

CONSTANTS
  Users,      \* whoever makes calls
  Upstreams,  \* services that are called
  Limit,      \* most calls in progress, per upstream
  MaxAttempts \* most attempts of one call

VARIABLE made \* attempts of the call in progress, 0 when there is none

Busy(up) == {u \in Users : made[<<u, up>>] # 0}

\* A call ends, or makes its next attempt; the first attempt begins it.
Moves(n) == {n, 0} \cup (IF n < MaxAttempts THEN {n + 1} ELSE {})

Init == made = [c \in Users \X Upstreams |-> 0]

Next ==
  /\ \E u \in Users :
       made' \in {m \in [Users \X Upstreams -> 0..MaxAttempts] :
                    \A c \in Users \X Upstreams :
                      m[c] \in IF c[1] = u THEN Moves(made[c]) ELSE {made[c]}}
  /\ \A up \in Upstreams : Cardinality(Busy(up)') <= Limit[up]

Spec == Init /\ [][Next]_made

=============================================================================
