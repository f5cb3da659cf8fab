------------------------------ MODULE ChainRun ------------------------------
(***************************************************************************)
(* One queued job whose conversion runs as a chain of hops                 *)
(* (execute_conversion_chain), over several attempts.                      *)
(*                                                                         *)
(* Each hop is an execute_plan of its own, under a random job ID.  All     *)
(* hops but the last publish into a staging directory named after the      *)
(* queue's job, which the chain makes at its start and removes at its end; *)
(* the last hop stages beside the destination, under its random ID.  The   *)
(* window around the chain is reduced to what it does with its result: the *)
(* claim and preparation, several jobs and several windows at once are the *)
(* subject of QueueWindow.                                                 *)
(***************************************************************************)
EXTENDS Naturals, JobStates

CONSTANTS
    Hops,           \* the length of the chain (at most 2 in the code)
    MaxRequeues,    \* bound: how often the job is put back into the queue
    Callers         \* who runs windows: "service" saves every report through
                    \* ReportService (CLI, desktop); "observer" only looks at it

ASSUME HopsAssumption == Hops \in Nat \ {0}
ASSUME MaxRequeuesAssumption == MaxRequeues \in Nat
ASSUME CallersAssumption == Callers \subseteq {"service", "observer"}

VARIABLES
    state,      \* jobs.state in the store
    attempt,    \* number of times the job was requeued (at most MaxRequeues)
    caller,     \* who runs the window of the attempt
    paused,     \* whether the worker token of the window is cancelled
    at,         \* where the worker or the loop is with the job; "no": nowhere
    hop,        \* the hop in progress
    outcome,    \* the result the chain returns
    dir,        \* the hops with an output in the staging directory, or NoDir
    partials,   \* attempts whose last hop left a partial beside the destination
    final,      \* what is at the destination
    littered,   \* the last chain to start ended without removing its directory
    leaked,     \* its last hop returned an error past the cleanup of its partial
    recovery    \* a running recovery has interrupted the job and cleans next

files == <<dir, partials, final, littered, leaked>>
run == <<caller, paused, at, hop, outcome>>
vars == <<state, attempt, run, files, recovery>>

NoDir == {0}        \* no hop has number 0
Segments == 1..Hops
Nothing == [from |-> "nobody", attempt |-> 0, hop |-> 0]
Foreign == [from |-> "elsewhere", attempt |-> 0, hop |-> 0]
Product(h) == [from |-> "chain", attempt |-> attempt, hop |-> h]

InHop == {"prepare", "engine", "staged", "clear"}
Working == {"starting", "cleaning"} \cup InHop

TypeOK ==
    /\ state \in JobState
    /\ attempt \in 0..MaxRequeues
    /\ caller \in Callers
    /\ paused \in BOOLEAN
    /\ at \in {"no", "ended", "panic", "reported"} \cup Working
    /\ hop \in Segments
    /\ outcome \in {"ok", "error", "cancelled"}
    /\ dir = NoDir \/ dir \subseteq Segments
    /\ partials \subseteq 0..MaxRequeues
    /\ final \in [from : {"nobody", "elsewhere", "chain"},
                  attempt : 0..MaxRequeues, hop : 0..Hops]
    /\ littered \in BOOLEAN /\ leaked \in BOOLEAN
    /\ recovery \in BOOLEAN

Init ==
    /\ state = "queued" /\ attempt = 0
    /\ caller \in Callers
    /\ paused = FALSE /\ at = "no" /\ hop = 1 /\ outcome = "error"
    /\ dir = NoDir /\ partials = {} /\ final = Nothing
    /\ littered = FALSE /\ leaked = FALSE /\ recovery = FALSE

At(s) == at = s
Go(s) == at' = s

-----------------------------------------------------------------------------
(* The chain: execute_conversion_chain and run_chain_segments.             *)

\* the window has claimed and prepared the job; its worker starts the chain
\* (QueueWindow shows what a recovery does to a window that is running)
WindowStarts ==
    /\ At("no") /\ state = "queued" /\ ~recovery
    /\ state' = "running" /\ Go("starting")
    /\ caller' \in Callers /\ paused' = FALSE
    /\ UNCHANGED <<attempt, hop, outcome, files, recovery>>

\* pause_immediate of the window, or Ctrl-C of the CLI
PauseImmediate ==
    /\ at \in Working /\ ~paused /\ paused' = TRUE
    /\ UNCHANGED <<state, attempt, caller, at, hop, outcome, files, recovery>>

\* the final output and the staging directory must both be absent
ChainStarts ==
    /\ At("starting") /\ final = Nothing /\ dir = NoDir
    /\ dir' = {} /\ littered' = FALSE /\ leaked' = FALSE /\ hop' = 1 /\ Go("prepare")
    /\ UNCHANGED <<state, attempt, caller, paused, outcome, partials, final, recovery>>

\* one of them is there, or the directory cannot be made
ChainRefused ==
    /\ At("starting") /\ Go("ended") /\ outcome' = "error"
    /\ UNCHANGED <<state, attempt, caller, paused, hop, files, recovery>>

\* (mutant) is_final compares the index of the hop before
IsFinalEarly(h) == h + 1 >= Hops

\* whether a hop publishes at the destination of the job
IsFinal(h) == h = Hops

\* the output of a hop can be made: its place is there and empty (the staging
\* path beside it is random, so nothing is there)
HopFree(h) == IF IsFinal(h) THEN final = Nothing ELSE dir # NoDir /\ h \notin dir

\* prepare_conversion reads the output of the hop before; the engine starts
HopStarts ==
    /\ At("prepare") /\ HopFree(hop) /\ (hop > 1 => hop - 1 \in dir)
    /\ partials' = IF IsFinal(hop) THEN partials \cup {attempt} ELSE partials
    /\ Go("engine")
    /\ UNCHANGED <<state, attempt, caller, paused, hop, outcome, dir, final, littered, leaked, recovery>>

HopFinishes ==
    /\ At("engine") /\ ~paused /\ Go("staged")
    /\ UNCHANGED <<state, attempt, caller, paused, hop, outcome, files, recovery>>

\* the ways out of a hop that remove its partial
LeavesHop(how) ==
    /\ outcome' = how /\ Go("cleaning")
    /\ partials' = IF IsFinal(hop) THEN partials \ {attempt} ELSE partials
    /\ UNCHANGED <<state, attempt, caller, paused, hop, dir, final, littered, leaked, recovery>>

\* (mutant) the later hops run under a token of their own
HopCancelledFirst == At("engine") /\ paused /\ hop = 1 /\ LeavesHop("cancelled")

\* the chain hands a clone of the window's token to every hop
HopCancelled == At("engine") /\ paused /\ LeavesHop("cancelled")

\* An error that passes the cleanup: a child's wait() fails, an argument cannot be
\* read, a directory not be listed (KnownLeaks in AdapterRun).  The partial of a
\* hop before the last goes with the staging directory all the same.
LeaksPartial ==
    /\ at \in {"engine", "staged"} /\ IsFinal(hop)
    /\ outcome' = "error" /\ Go("cleaning") /\ leaked' = TRUE
    /\ UNCHANGED <<state, attempt, caller, paused, hop, dir, partials, final, littered, recovery>>

\* an error of the engine, a failed validation, an occupied destination, ...
HopFails == at \in InHop /\ (LeavesHop("error") \/ LeaksPartial)

HopValidated ==
    /\ At("staged") /\ HopFree(hop) /\ Go("clear")
    /\ UNCHANGED <<state, attempt, caller, paused, hop, outcome, files, recovery>>

\* (mutant) the destination is looked at once more after the commit
HopPublishesThenLooks ==
    /\ At("clear") /\ HopFree(hop)
    /\ final' = IF IsFinal(hop) THEN Product(hop) ELSE final
    /\ dir' = IF IsFinal(hop) THEN dir ELSE dir \cup {hop}
    /\ \/ hop < Hops /\ hop' = hop + 1 /\ Go("prepare") /\ UNCHANGED outcome
       \/ hop = Hops /\ outcome' = "error" /\ Go("cleaning") /\ UNCHANGED hop
    /\ partials' = IF IsFinal(hop) THEN partials \ {attempt} ELSE partials
    /\ UNCHANGED <<state, attempt, caller, paused, littered, leaked, recovery>>

\* the atomic commit of a hop; the partial has become the output
HopPublishes ==
    /\ At("clear") /\ HopFree(hop)
    /\ \/ /\ IsFinal(hop)
          /\ final' = Product(hop) /\ partials' = partials \ {attempt}
          /\ UNCHANGED dir
       \/ ~IsFinal(hop) /\ dir' = dir \cup {hop} /\ UNCHANGED <<final, partials>>
    /\ \/ hop < Hops /\ hop' = hop + 1 /\ Go("prepare") /\ UNCHANGED outcome
       \/ hop = Hops /\ outcome' = "ok" /\ Go("cleaning") /\ UNCHANGED hop
    /\ UNCHANGED <<state, attempt, caller, paused, littered, leaked, recovery>>

\* (mutant) the directory is kept when a hop fails, "for inspection"
ChainCleansOnSuccess ==
    /\ At("cleaning") /\ Go("ended")
    /\ dir' = IF outcome = "ok" THEN NoDir ELSE dir
    /\ UNCHANGED <<state, attempt, caller, paused, hop, outcome, partials, final, littered, leaked, recovery>>

\* the directory goes whatever the result
ChainCleans ==
    /\ At("cleaning") /\ dir' = NoDir /\ Go("ended")
    /\ UNCHANGED <<state, attempt, caller, paused, hop, outcome, partials, final, littered, leaked, recovery>>

\* it cannot be removed: a success becomes an error, an error stays what it is
CleaningFails ==
    /\ At("cleaning") /\ Go("ended") /\ littered' = TRUE
    /\ outcome' = IF outcome = "ok" THEN "error" ELSE outcome
    /\ UNCHANGED <<state, attempt, caller, paused, hop, dir, partials, final, leaked, recovery>>

\* the task unwinds; nothing cleans up after it
WorkerPanics ==
    /\ at \in Working /\ Go("panic") /\ littered' = (littered \/ dir # NoDir)
    /\ UNCHANGED <<state, attempt, caller, paused, hop, outcome, dir, partials, final, leaked, recovery>>

-----------------------------------------------------------------------------
(* The window loop with the result of the chain.                           *)

\* the ID in the report is the last hop's, and ReportService::save compares
ReportAccepted == caller = "observer"

JoinOk ==
    /\ At("ended") /\ outcome = "ok" /\ ReportAccepted
    /\ state' = "validating" /\ Go("reported")
    /\ UNCHANGED <<attempt, caller, paused, hop, outcome, files, recovery>>

Completes ==
    /\ At("reported") /\ state' \in {"completed", "warning"} /\ Go("no")
    /\ UNCHANGED <<attempt, caller, paused, hop, outcome, files, recovery>>

Stops ==
    /\ At("ended") /\ outcome \in {"error", "cancelled"} /\ Go("no")
    /\ state' = IF outcome = "error" THEN "failed" ELSE "interrupted"
    /\ UNCHANGED <<attempt, caller, paused, hop, outcome, files, recovery>>

\* a refused report or a panicked worker aborts the window, which settles the job
WindowAborts ==
    /\ At("panic") \/ (At("ended") /\ outcome = "ok" /\ ~ReportAccepted)
    /\ state' = "interrupted" /\ Go("no")
    /\ UNCHANGED <<attempt, caller, paused, hop, outcome, files, recovery>>

\* the process dies
Crash ==
    /\ ~At("no") /\ Go("no") /\ littered' = (littered \/ dir # NoDir)
    /\ UNCHANGED <<state, attempt, caller, paused, hop, outcome, dir, partials, final, leaked, recovery>>

-----------------------------------------------------------------------------
(* What happens to the job between attempts.                               *)

\* cleanup_staged_output, over the paths that staged_output_candidates derives
\* from the destination and the job's ID; the directory is one of them
CleanupStagedOutput == dir' = NoDir

\* no window is running; the job was cut off in one of the states it selects
RecoveryInterrupts ==
    /\ At("no") /\ ~recovery /\ state \in {"running", "validating"}
    /\ state' = "interrupted" /\ recovery' = TRUE
    /\ UNCHANGED <<attempt, run, files>>

RecoveryCleans ==
    /\ recovery /\ CleanupStagedOutput /\ recovery' = FALSE
    /\ UNCHANGED <<state, attempt, run, partials, final, littered, leaked>>

\* the cleanup fails, or recovery dies before it
RecoveryStops ==
    /\ recovery /\ recovery' = FALSE
    /\ UNCHANGED <<state, attempt, run, files>>

\* BulkJobService: cleanup and transition in one transaction
BulkActs(action) ==
    /\ BulkEligible(action, state)
    /\ CleanupStagedOutput /\ state' = BulkTarget(action)
    /\ \/ /\ BulkTarget(action) = "queued" /\ attempt < MaxRequeues
          /\ attempt' = attempt + 1
       \/ BulkTarget(action) # "queued" /\ UNCHANGED attempt
    /\ UNCHANGED <<run, partials, final, littered, leaked, recovery>>

\* JobRecoveryService::cleanup_staging, on request
CleanupStaging ==
    /\ state \in {"blocked", "failed", "cancelled", "interrupted"} /\ dir # NoDir
    /\ CleanupStagedOutput
    /\ UNCHANGED <<state, attempt, run, partials, final, littered, leaked, recovery>>

\* somebody else creates a file at the destination
ForeignFileAppears ==
    /\ final = Nothing /\ final' = Foreign
    /\ UNCHANGED <<state, attempt, run, dir, partials, littered, leaked, recovery>>

\* the user moves the file there away, so that another attempt may succeed
DestinationFreed ==
    /\ At("no") /\ state \notin {"completed", "warning"}
    /\ final # Nothing /\ final' = Nothing
    /\ UNCHANGED <<state, attempt, run, dir, partials, littered, leaked, recovery>>

-----------------------------------------------------------------------------
Chain ==
    \/ ChainStarts \/ ChainRefused \/ HopStarts \/ HopCancelled \/ HopValidated
    \/ HopPublishes \/ ChainCleans \/ CleaningFails
Loop == JoinOk \/ Completes \/ Stops \/ WindowAborts
Between ==
    \/ RecoveryInterrupts \/ RecoveryCleans \/ RecoveryStops \/ CleanupStaging
    \/ ForeignFileAppears \/ DestinationFreed
    \/ \E action \in {"cancel", "resume", "retry"} : BulkActs(action)

Next ==
    \/ WindowStarts \/ PauseImmediate \/ Chain \/ HopFinishes \/ HopFails
    \/ WorkerPanics \/ Loop \/ Crash \/ Between

Spec == Init /\ [][Next]_vars

\* the runtime polls the worker and the loop; the exit of an engine by itself
\* is not promised, nor is it fair that a hop which cannot go on reports it
FairSpec == Spec /\ WF_vars(Chain \/ (HopFails /\ ~At("engine"))) /\ WF_vars(Loop)

-----------------------------------------------------------------------------
\* What the chain leaves at the destination is the product of its last hop,
\* and a job recorded as a success is one whose own last attempt put it there
\* (crates/core/src/chain.rs: intermediate files live in the staging directory
\* and the last segment commits straight to the final path).
DeliversLastHop ==
    /\ final.from = "chain" => final.hop = Hops
    /\ state \in {"completed", "warning"} => final = Product(Hops)

\* An attempt that is recorded as Failed has put nothing at the destination,
\* except when the staging directory could not be removed after the last hop
\* had committed (execute_conversion_chain turns that success into an error).
FailedDeliversNothing ==
    state = "failed" /\ ~littered =>
        ~(final.from = "chain" /\ final.attempt = attempt)

\* The staging directory is there only while a chain uses it, or because a
\* crash, a panic or a refused removal left it (chain.rs: whatever the outcome,
\* the directory is removed).  The partial of the last hop, staged beside the
\* destination where no recovery finds it, outlives its attempt only for the same
\* reasons or when the hop failed on a way past the cleanup of its adapter: a
\* hop that published and one that was cancelled leave none.
LeftoverExplained ==
    /\ dir # NoDir => at \in InHop \cup {"cleaning"} \/ littered
    /\ attempt \in partials => at \in InHop \/ littered \/ (leaked /\ outcome = "error")

\* With the bulk service as the way back into the queue no attempt finds the
\* directory of an earlier one, which ChainRefused would turn away for ever.
QueuedHasNoChainDir == state = "queued" => dir = NoDir

-----------------------------------------------------------------------------
(* A chain delivers what Delivery promises, as any other conversion.       *)

\* the last hop was committed, and the attempt still knows it
Published == (at \in {"cleaning", "ended"} /\ outcome = "ok") \/ at = "reported"

Phase ==
    IF state = "queued" THEN "waiting"
    ELSE IF state \in {"completed", "warning"} THEN "delivered"
    ELSE IF state \notin Active THEN "stopped"
    ELSE IF Published THEN "published" ELSE "working"

Output ==
    IF final = Nothing THEN "none" ELSE IF final.from = "chain" THEN "valid" ELSE "foreign"

ThisJob == "the job"

Promise == INSTANCE Delivery WITH
    Jobs <- {ThisJob}, Freeing <- TRUE,
    phase <- [j \in {ThisJob} |-> Phase], product <- [j \in {ThisJob} |-> Output]

\* QueueWindow, whose workers run one engine, and a chain of hops keep the same promise: what a
\* chain does before its last commit, and whatever goes wrong after it, is not seen from outside
\* (execute_conversion_chain against run_window_observed_with_progress).
ChainDelivers == Promise!Spec

-----------------------------------------------------------------------------
\* A pause reaches the chain in whatever hop it is: although no engine exits by
\* itself, the worker ends.
PauseEndsChain == paused /\ at \in Working ~> at \notin Working

-----------------------------------------------------------------------------
(* What the documents say and the code does not keep (see README.md).      *)

\* crates/core/src/chain.rs: the report of a chain is the one of its last
\* segment; the window stores it and completes the job.
SuccessfulChainCompletes ==
    [][at = "ended" /\ outcome = "ok" /\ state' # state =>
            state' \in {"validating", "completed", "warning"}]_vars
=============================================================================
