------------------------------ MODULE Delivery ------------------------------
(***************************************************************************)
(* What the queue promises about one job's output, without windows,        *)
(* workers or staging files.  A claimed job may publish once, and only     *)
(* into an empty destination; it is delivered only by the attempt that     *)
(* published; an attempt that stops, for whatever reason, leaves what it   *)
(* published where it is; and nobody's file is ever replaced.  Only a user  *)
(* who moves a file away makes room again, where that is modelled.  A job   *)
(* that somebody takes from the attempt at work on it is lost: of its      *)
(* output nothing is promised any more, but that no file is replaced.      *)
(***************************************************************************)
CONSTANTS
    Jobs,
    Freeing     \* whether users move away what is at a destination

VARIABLES
    phase,      \* "waiting", "working", "published", "delivered", "stopped", "lost"
    product     \* what is at the destination: "none", "foreign", "valid", "unvalidated"

vars == <<phase, product>>

Init ==
    /\ phase = [j \in Jobs |-> "waiting"]
    /\ product = [j \in Jobs |-> "none"]

Turn(j, from, to) ==
    /\ phase[j] \in from
    /\ phase' = [phase EXCEPT ![j] = to]

Claim(j) == Turn(j, {"waiting"}, "working") /\ UNCHANGED product

Publish(j) ==
    /\ Turn(j, {"working"}, "published")
    /\ product[j] = "none" /\ product' = [product EXCEPT ![j] = "valid"]

Deliver(j) == Turn(j, {"published"}, "delivered") /\ UNCHANGED product

\* the attempt ends without a delivery, or a waiting job is withdrawn
Stop(j) == Turn(j, {"waiting", "working", "published"}, "stopped") /\ UNCHANGED product

\* the process that published some jobs is gone before it could deliver them
Forget(gone) ==
    /\ \A j \in gone : phase[j] = "published"
    /\ phase' = [j \in Jobs |-> IF j \in gone THEN "working" ELSE phase[j]]
    /\ UNCHANGED product

Lose(j) == Turn(j, {"working", "published"}, "lost") /\ UNCHANGED product

\* an attempt that does not know it lost its job publishes
Stray(j) ==
    /\ phase[j] = "lost" /\ product[j] = "none"
    /\ \E file \in {"valid", "unvalidated"} : product' = [product EXCEPT ![j] = file]
    /\ UNCHANGED phase

Requeue(j) == Turn(j, {"stopped"}, "waiting") /\ UNCHANGED product

Intrude(j) ==
    /\ product[j] = "none" /\ product' = [product EXCEPT ![j] = "foreign"]
    /\ UNCHANGED phase

\* a user makes room for another attempt; what was delivered stays
Free(j) ==
    /\ Freeing /\ phase[j] \notin {"published", "delivered"}
    /\ product[j] # "none" /\ product' = [product EXCEPT ![j] = "none"]
    /\ UNCHANGED phase

Next ==
    \/ \E j \in Jobs :
        \/ Claim(j) \/ Publish(j) \/ Deliver(j) \/ Stop(j)
        \/ Requeue(j) \/ Intrude(j) \/ Free(j) \/ Lose(j) \/ Stray(j)
    \/ \E gone \in SUBSET Jobs : Forget(gone)

Spec == Init /\ [][Next]_vars
=============================================================================
