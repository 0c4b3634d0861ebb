---------------------------- MODULE MCVerification ----------------------------
(***************************************************************************)
(* Small instances of Verification: one service predicted to recover and a   *)
(* bystander, healthy or not.                                                *)
(***************************************************************************)
EXTENDS Verification

MCServices == {"auth", "payments"}
MCRecovers == {"auth"}
MCDegrades == {}

\* Without the bystander, where only the life cycle matters.
MCOneService == {"auth"}
=============================================================================
