----------------------------- MODULE MCExperiment -----------------------------
(***************************************************************************)
(* Small instances of Experiment: the gateway's two upstreams.               *)
(***************************************************************************)
EXTENDS Experiment

MCUpstreams == {"auth", "checkout"}
=============================================================================
