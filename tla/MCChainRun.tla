----------------------------- MODULE MCChainRun -----------------------------
(* Instances of ChainRun for TLC. *)
EXTENDS ChainRun
=============================================================================
