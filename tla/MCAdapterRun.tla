---------------------------- MODULE MCAdapterRun ----------------------------
(* Every adapter, and a second attempt of the same job. *)
EXTENDS AdapterRun

AllAdapters == DOMAIN Body
=============================================================================
