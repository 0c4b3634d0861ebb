--------------------------------- MODULE Mesh ---------------------------------
(***************************************************************************)
(* The gateway between its users and its upstreams: callUpstream with its    *)
(* breaker, probe shed, bulkhead, per-attempt deadline and retries           *)
(* (services/gateway/index.js), the HTTP client that gives an attempt up     *)
(* while the upstream works on (services/_shared/service.js), the handlers    *)
(* of auth and checkout as far as they keep working, and the closed-loop      *)
(* users of loadgen/index.js. When an upstream answers is chosen freely.      *)
(***************************************************************************)
EXTENDS Integers, FiniteSets

CONSTANTS
  Users,     \* virtual users: each sends, awaits, and sends again
  Asks,      \* endpoints a user asks for
  Sheddable, \* upstreams a probe may shed
  Bulkhead,  \* calls in flight the gateway admits, per upstream
  Retries,   \* attempts after the first
  MaxCalls,  \* bound: calls to an upstream counted in one window
  MaxLeft    \* bound: work given up at an upstream when a request is sent

Upstreams == {"auth", "checkout"}
Endpoints == {"login", "checkout"}

ASSUME MeshAssumption ==
  /\ IsFiniteSet(Users) /\ Asks \in [Users -> SUBSET Endpoints]
  /\ Sheddable \subseteq Upstreams /\ Bulkhead \in [Upstreams -> Nat]
  /\ Retries \in Nat /\ MaxCalls \in Nat /\ MaxLeft \in Nat

VARIABLES
  request,  \* the request each user awaits
  phase,    \* where each call is
  made,     \* attempts a call has made
  inFlight, \* the gateway's inFlight
  breakers, \* upstreams whose breaker is open
  sheds,    \* upstreams a probe sheds
  window,   \* counters of the current second
  left,     \* handlers at work for attempts that were given up
  carried   \* history: calls in flight when the window began

vars == <<request, phase, made, inFlight, breakers, sheds, window, left, carried>>

Calls    == Users \X Upstreams
Phases   == {"none", "attempting", "backoff", "answered", "failed"}
InFlight == {"attempting", "backoff"}

\* /api/login and /api/browse verify; /api/checkout does both, independently.
Legs(endpoint) == IF endpoint = "login" THEN {"auth"} ELSE Upstreams

NoCount == [calls |-> 0, attempts |-> 0]

Init ==
  /\ request = [u \in Users |-> "none"]
  /\ phase = [c \in Calls |-> "none"] /\ made = [c \in Calls |-> 0]
  /\ inFlight = [up \in Upstreams |-> 0] /\ carried = inFlight
  /\ left = [up \in Upstreams |-> 0]
  /\ breakers = {} /\ sheds = {}
  /\ window = [up \in Upstreams |-> NoCount]

-----------------------------------------------------------------------------
(* callUpstream *)

\* Mutant: one call too many.
FullLate(up) == inFlight[up] > Bulkhead[up]

Full(up) == inFlight[up] >= Bulkhead[up]

\* Mutant: the breaker is not asked.
FateWithoutBreaker(up, dropped) ==
  CASE up \in dropped -> "answered"
    [] up \notin dropped /\ Full(up) -> "failed"
    [] up \notin dropped /\ ~Full(up) -> "attempting"

\* What becomes of a call before anything is counted: the breaker, then the
\* probe's coin, then the bulkhead. A call that is shed is answered, degraded.
Fate(up, dropped) ==
  CASE up \in breakers                                  -> "failed"
    [] up \notin breakers /\ up \in dropped             -> "answered"
    [] up \notin breakers \cup dropped /\ Full(up)      -> "failed"
    [] up \notin breakers \cup dropped /\ ~Full(up)     -> "attempting"

\* A user sends a request. Its calls start in one step, whatever becomes of
\* either; an admitted one is counted and makes its first attempt.
Send(u, endpoint) ==
  /\ request[u] = "none" /\ endpoint \in Asks[u]
  /\ \A up \in Legs(endpoint) : window[up].calls < MaxCalls /\ left[up] <= MaxLeft
  /\ request' = [request EXCEPT ![u] = endpoint]
  /\ \E dropped \in SUBSET (sheds \cap Legs(endpoint)) :
       LET fate     == [up \in Legs(endpoint) |-> Fate(up, dropped)]
           admitted == {up \in Legs(endpoint) : fate[up] = "attempting"}
       IN /\ phase' = [c \in Calls |-> IF c[1] = u /\ c[2] \in Legs(endpoint)
                                       THEN fate[c[2]] ELSE phase[c]]
          /\ made' = [c \in Calls |-> IF c[1] = u /\ c[2] \in admitted THEN 1 ELSE made[c]]
          /\ inFlight' = [up \in Upstreams |->
                            inFlight[up] + IF up \in admitted THEN 1 ELSE 0]
          /\ window' = [up \in Upstreams |->
                          IF up \in admitted
                          THEN [calls    |-> window[up].calls + 1,
                                attempts |-> window[up].attempts + 1]
                          ELSE window[up]]
  /\ UNCHANGED <<left, breakers, sheds, carried>>

\* Mutant: one retry too many.
MayRetryOnceMore(c) == made[c] <= Retries + 1

MayRetry(c) == made[c] <= Retries

\* Mutant: the last failure skips the finally block.
LeaveKeeping(c, outcome) ==
  /\ phase' = [phase EXCEPT ![c] = outcome]
  /\ inFlight' = [inFlight EXCEPT ![c[2]] = IF outcome = "failed" THEN @ ELSE @ - 1]

\* The finally block: the slot is given back with the outcome.
Leave(c, outcome) ==
  /\ phase' = [phase EXCEPT ![c] = outcome]
  /\ inFlight' = [inFlight EXCEPT ![c[2]] = @ - 1]

AttemptFails(c) ==
  \/ MayRetry(c) /\ phase' = [phase EXCEPT ![c] = "backoff"] /\ UNCHANGED inFlight
  \/ ~MayRetry(c) /\ Leave(c, "failed")

\* callJson: the deadline destroys the request, not the work it started.
TimesOut(c) ==
  /\ phase[c] = "attempting" /\ AttemptFails(c)
  /\ left' = [left EXCEPT ![c[2]] = @ + 1]
  /\ UNCHANGED <<request, made, breakers, sheds, window, carried>>

\* A reply of 500 or more, or no connection.
Refused(c) ==
  /\ phase[c] = "attempting" /\ AttemptFails(c)
  /\ UNCHANGED <<request, made, left, breakers, sheds, window, carried>>

Answered(c) ==
  /\ phase[c] = "attempting" /\ Leave(c, "answered")
  /\ UNCHANGED <<request, made, left, breakers, sheds, window, carried>>

\* The jittered sleep is over. Breaker and shed are not asked again.
Retry(c) ==
  /\ phase[c] = "backoff"
  /\ phase' = [phase EXCEPT ![c] = "attempting"]
  /\ made' = [made EXCEPT ![c] = @ + 1]
  /\ window' = [window EXCEPT ![c[2]].attempts = @ + 1]
  /\ UNCHANGED <<request, inFlight, left, breakers, sheds, carried>>

\* Mutant: an error in a route never reaches the error handler.
SettledWell(c) == phase[c] \in {"none", "answered"}

\* allSettled, and the error handler answers for what failed.
Settled(c) == phase[c] \notin InFlight

\* The request is answered once each of its calls is settled.
Reply(u) ==
  /\ request[u] # "none" /\ \A up \in Upstreams : Settled(<<u, up>>)
  /\ request' = [request EXCEPT ![u] = "none"]
  /\ phase' = [c \in Calls |-> IF c[1] = u THEN "none" ELSE phase[c]]
  /\ made' = [c \in Calls |-> IF c[1] = u THEN 0 ELSE made[c]]
  /\ UNCHANGED <<inFlight, left, breakers, sheds, window, carried>>

-----------------------------------------------------------------------------
(* Work nobody awaits, and what else the gateway does *)

\* A handler answers a caller that is gone; its own calls have deadlines.
LeftEnds(up) ==
  /\ left[up] > 0 /\ left' = [left EXCEPT ![up] = @ - 1]
  /\ UNCHANGED <<request, phase, made, inFlight, breakers, sheds, window, carried>>

\* POST /admin/breaker.
SetBreaker(up) ==
  /\ breakers' \in {breakers \cup {up}, breakers \ {up}}
  /\ UNCHANGED <<request, phase, made, inFlight, left, sheds, window, carried>>

\* A probe sheds an upstream, unless its breaker is open, until it expires.
SetShed(up) ==
  /\ \/ up \notin breakers /\ sheds' = sheds \cup {up}
     \/ sheds' = sheds \ {up}
  /\ UNCHANGED <<request, phase, made, inFlight, left, breakers, window, carried>>

\* Mutant: the counts of attempts outlive the window.
NewWindowKeepsAttempts ==
  [up \in Upstreams |-> [NoCount EXCEPT !.attempts = window[up].attempts]]

NewWindow == [up \in Upstreams |-> NoCount]

\* The one-second log line resets the counters under the calls in flight.
Log ==
  /\ window' = NewWindow /\ carried' = inFlight
  /\ UNCHANGED <<request, phase, made, inFlight, left, breakers, sheds>>

\* POST /admin/restart and /chaos/reset: counters, breakers and probes only.
Restart ==
  /\ window' = [up \in Upstreams |-> NoCount] /\ carried' = inFlight
  /\ breakers' = {} /\ sheds' = {}
  /\ UNCHANGED <<request, phase, made, inFlight, left>>

-----------------------------------------------------------------------------
Step(c) == TimesOut(c) \/ Refused(c) \/ Answered(c) \/ Retry(c)

Next ==
  \/ \E u \in Users : Reply(u) \/ \E e \in Endpoints : Send(u, e)
  \/ \E c \in Calls : Step(c)
  \/ \E up \in Upstreams : LeftEnds(up) \/ SetBreaker(up)
  \/ \E up \in Sheddable : SetShed(up)
  \/ Log \/ Restart

\* Deadlines and sleeps are timers, a handler's own calls have deadlines too, and
\* a settled promise continues its request. Nobody need answer an attempt.
Fairness ==
  /\ \A c \in Calls : WF_vars(TimesOut(c)) /\ WF_vars(Retry(c))
  /\ \A u \in Users : WF_vars(Reply(u))
  /\ \A up \in Upstreams : WF_vars(LeftEnds(up))

Spec == Init /\ [][Next]_vars /\ Fairness

-----------------------------------------------------------------------------
Callers(up) == {u \in Users : phase[<<u, up>>] \in InFlight}

\* Every variable stays in its domain, and a call exists only for a request that
\* needs it; a call in flight has made an attempt, and at most Retries more.
TypeOK ==
  /\ request \in [Users -> Endpoints \cup {"none"}]
  /\ phase \in [Calls -> Phases] /\ made \in [Calls -> 0..Retries + 1]
  /\ \A c \in Calls : /\ phase[c] = "backoff" => made[c] \in 1..Retries
                      /\ phase[c] = "attempting" => made[c] >= 1
                      /\ phase[c] = "none" => made[c] = 0
                      /\ phase[c] # "none" => /\ request[c[1]] # "none"
                                              /\ c[2] \in Legs(request[c[1]])
  /\ breakers \subseteq Upstreams /\ sheds \subseteq Upstreams
  /\ window \in [Upstreams -> [calls : Nat, attempts : Nat]]
  /\ inFlight \in [Upstreams -> Nat] /\ carried \in [Upstreams -> Nat]
  /\ left \in [Upstreams -> Nat]

\* The counter is the number of calls in flight and within the limit, over every
\* path that ends a call, a restart of the gateway included (callUpstream: "A slow
\* auth must not consume every worker the gateway has").
BulkheadExact ==
  \A up \in Upstreams : /\ inFlight[up] = Cardinality(Callers(up))
                        /\ inFlight[up] <= Bulkhead[up]

\* In one second of the log amplification exceeds 1 + Retries by the retries of
\* calls that an earlier second counted, and by no more (gateway: the counters are
\* reset at 1 Hz while calls are in flight).
AmplificationIsBounded ==
  \A up \in Upstreams :
    window[up].attempts <= (1 + Retries) * window[up].calls + Retries * carried[up]

\* The gateway's calls are the abstract ones: bounded in number and in attempts.
Abstract == INSTANCE BoundedCalls
  WITH Limit <- Bulkhead, MaxAttempts <- Retries + 1,
       made <- [c \in Calls |-> IF phase[c] \in InFlight THEN made[c] ELSE 0]
CallsSpec == Abstract!Spec

\* Every request is answered, though no upstream ever answers (gateway routes,
\* deadlines, bounded retries and the error handler).
RequestsAreAnswered == \A u \in Users : request[u] # "none" ~> request[u] = "none"

\* An upstream that is isolated for good is in the end free of the gateway's work,
\* the work it gave up included (gateway: opening the breaker "frees the datastore
\* permits auth was consuming").
IsolationFrees ==
  \A up \in Upstreams :
    <>[](up \in breakers) => <>[](inFlight[up] = 0 /\ left[up] = 0)

=============================================================================
