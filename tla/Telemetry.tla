------------------------------- MODULE Telemetry -------------------------------
(***************************************************************************)
(* What the telemetry client and the collector share: events, and the three   *)
(* FIFO queues, one per priority, that both keep.                            *)
(*                                                                           *)
(* An event is a record [svc, seq, pri, t, count, life]: pri 0 is a counter   *)
(* snapshot carrying the service's cumulative request count, pri 1 a latency  *)
(* sample. t is the window its time falls in; life, which incarnation of the  *)
(* service sent it, is invisible to the code. No service enqueues pri 2.      *)
(***************************************************************************)
EXTENDS Integers, SequencesExt

CONSTANT Services \* services of the mesh

Priorities  == 0..2
NoEvents    == [p \in Priorities |-> <<>>]
InOrder(qs) == qs[0] \o qs[1] \o qs[2]
Depth(qs)   == Len(InOrder(qs))

\* How many of queue p are among the first n events, most important first.
Ahead(qs, p) == CASE p = 0 -> 0 [] p = 1 -> Len(qs[0]) [] p = 2 -> Len(qs[0]) + Len(qs[1])
Taken(qs, n, p) == Max({0, Min({n - Ahead(qs, p), Len(qs[p])})})

\* The first n events, and the queues without them.
TakeFirst(qs, n) == InOrder([p \in Priorities |-> SubSeq(qs[p], 1, Taken(qs, n, p))])
LeaveRest(qs, n) == [p \in Priorities |-> SubSeq(qs[p], Taken(qs, n, p) + 1, Len(qs[p]))]

\* The elements of s that are in K, in their order: SelectSeq as a function, so that
\* it can be reasoned about.
Kept(s, K) ==
  LET kept[i \in 0..Len(s)] ==
        IF i = 0 THEN <<>>
        ELSE IF s[i] \in K THEN Append(kept[i - 1], s[i]) ELSE kept[i - 1]
  IN kept[Len(s)]

\* The least important priority below 0 that holds an event, 0 when none does.
Victim(qs) == Max({0} \cup {p \in {1, 2} : qs[p] # <<>>})

=============================================================================
