----------------------------- MODULE MCActionPath -----------------------------
(***************************************************************************)
(* Small instances of ActionPath: one irreversible and one reversible        *)
(* option, so that both the human gate and the autonomy gate are taken.      *)
(***************************************************************************)
EXTENDS ActionPath

MCOptions    == {"rollback", "isolate"}
MCReversible == {"isolate"}
MCRank       == [o \in MCOptions |-> IF o = "rollback" THEN 0 ELSE 1]
=============================================================================
