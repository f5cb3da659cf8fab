----------------------------- MODULE MCWebJobs -----------------------------
(* Two clients race for one upload and one conversion slot.                *)
EXTENDS WebJobs
=============================================================================
