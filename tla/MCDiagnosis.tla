----------------------------- MODULE MCDiagnosis -----------------------------
(***************************************************************************)
(* A small instance of Diagnosis: the five services and their calls, and       *)
(* windows in which all is calm; auth is slow, retried, and the gateway fails;  *)
(* charging fails, with checkout retried or not (the first two hypotheses are   *)
(* close either way, and change places), or with checkout's counters lost; all   *)
(* is calm, but checkout is silent and the view poor.                          *)
(***************************************************************************)
EXTENDS Diagnosis

MCServices == {"auth", "checkout", "datastore", "gateway", "payments"}
MCNames == <<"auth", "checkout", "datastore", "gateway", "payments">>

Call(a, b, x) == [from |-> a, to |-> b, amp |-> x]
Mesh(auth, checkout) ==
  {Call("gateway", "auth", auth), Call("gateway", "checkout", checkout),
   Call("auth", "datastore", 1000), Call("checkout", "datastore", 1000),
   Call("checkout", "payments", 1000), Call("payments", "datastore", 1000)}

Load(slow, failing, edges) ==
  [silent |-> {}, seen |-> 900, edges |-> edges,
   p99 |-> [s \in MCServices |-> IF s \in slow THEN 40 ELSE 10],
   err |-> [s \in MCServices |-> IF s \in failing THEN 60 ELSE 0]]

Charging == {"payments", "checkout", "gateway", "datastore"}
Calm  == Load({}, {}, Mesh(1000, 1000))
Unheard(p) == [p EXCEPT !.silent = {"checkout"},
                        !.edges = {e \in @ : e.from # "checkout"}]
Quiet   == [Unheard(Calm) EXCEPT !.p99["checkout"] = 0, !.seen = 300]
Charge  == Load(Charging, Charging, Mesh(1000, 1000))
MCPatterns ==
  {Calm, Quiet, Load({"auth", "gateway"}, {"gateway"}, Mesh(2900, 1000)),
   Charge, Unheard(Charge), Load(Charging, Charging, Mesh(1000, 2200))}
=============================================================================
