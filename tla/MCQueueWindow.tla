--------------------------- MODULE MCQueueWindow ---------------------------
(* Instances of QueueWindow for TLC. *)
EXTENDS QueueWindow

CONSTANTS j1, j2, w1, w2
=============================================================================
