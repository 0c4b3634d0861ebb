------------------------------ MODULE MCPipeline ------------------------------
(***************************************************************************)
(* A small instance of Pipeline.                                             *)
(***************************************************************************)
EXTENDS Pipeline

MCServices   == {"auth"}
MCThresholds == <<0, 1, 2>>

=============================================================================
