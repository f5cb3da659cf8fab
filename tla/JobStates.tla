----------------------------- MODULE JobStates -----------------------------
(* The job state machine of crates/core/src/domain.rs and the state lists   *)
(* that the store and the bulk actions derive from it.  JobStore and        *)
(* QueueWindow are both written against it.                                 *)

JobState == {"queued", "inspecting", "planned", "blocked", "running",
             "validating", "completed", "warning", "failed", "cancelled",
             "interrupted"}

\* the pairs JobState::can_transition_to lists
LegalMoves(s, t) ==
    \/ s = "inspecting" /\ t \in {"planned", "blocked", "failed", "cancelled"}
    \/ s = "planned" /\ t \in {"queued", "running", "blocked", "cancelled"}
    \/ s = "queued" /\ t \in {"inspecting", "blocked", "cancelled"}
    \/ s \in {"blocked", "interrupted"} /\ t \in {"queued", "cancelled"}
    \/ s = "running" /\ t \in {"validating", "failed", "cancelled", "interrupted"}
    \/ /\ s = "validating"
       /\ t \in {"completed", "warning", "failed", "cancelled", "interrupted"}
    \/ s \in {"failed", "cancelled"} /\ t = "queued"

\* (mutants) retry offered to a job that ended with a warning; a resume that
\* goes back to Planned without a new claim
CanTransitionRetryWarning(s, t) == LegalMoves(s, t) \/ (s = "warning" /\ t = "queued")
CanTransitionResumePlanned(s, t) ==
    LegalMoves(s, t) \/ (s = "interrupted" /\ t = "planned")

\* JobState::can_transition_to
CanTransition(s, t) == LegalMoves(s, t)

\* is_terminal, the test that releases a reservation
IsTerminal(s) == s \in {"completed", "warning", "failed", "cancelled"}

\* (mutant) the SQL list spelled without one of the terminal states
SqlTerminalShort == {"completed", "warning", "failed"}

\* the state list that the schema backfill and the integrity check spell out in
\* SQL, independently of is_terminal
SqlTerminal == {"completed", "warning", "failed", "cancelled"}

\* BulkJobAction::target_for: the states an action applies to, and its target
BulkEligible(action, s) ==
    \/ action = "cancel" /\ s \in {"planned", "queued", "blocked", "interrupted"}
    \/ action = "resume" /\ s \in {"blocked", "interrupted"}
    \/ action = "retry" /\ s \in {"failed", "cancelled", "interrupted"}
BulkTarget(action) == IF action = "cancel" THEN "cancelled" ELSE "queued"

\* the states in which some process is working on a job
Active == {"inspecting", "planned", "running", "validating"}
=============================================================================
