-------------------------------- MODULE MCMesh --------------------------------
(***************************************************************************)
(* A small instance of Mesh: two users who contend for one slot to auth (the  *)
(* bulkhead guards auth only, as in config/tuning.json; checkout's limit is    *)
(* never reached), one of whom checks out.                                     *)
(***************************************************************************)
EXTENDS Mesh

MCUsers == {"u1", "u2"}
MCAsks == [u \in MCUsers |-> IF u = "u1" THEN {"login"} ELSE {"checkout"}]
MCBulkhead == [up \in Upstreams |-> IF up = "auth" THEN 1 ELSE 2]
=============================================================================
