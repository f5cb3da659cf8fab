---------------------------- MODULE QueueWindow ----------------------------
(***************************************************************************)
(* Queue windows: JobExecutionService::run_window_observed and the worker  *)
(* tasks it spawns, together with everything else that touches the same    *)
(* jobs and staging files: other windows (other processes on the same      *)
(* database), recovery, the bulk service, the CLI's single-job commands    *)
(* and the desktop's requeue.                                              *)
(*                                                                         *)
(* Each job has its own destination (JobStore proves that reservations     *)
(* keep destinations apart) and one deterministic staging path derived     *)
(* from its ID, which every process computes alike.  A window claims jobs, *)
(* prepares them itself, and hands each to a worker; workers run           *)
(* concurrently with the loop, which applies their results one at a time.  *)
(* The scheduler's resource classes are abstracted: it may decline any     *)
(* candidate while some worker runs, and none otherwise (module Scheduler). *)
(* Jobs that run a chain of conversions are the subject of ChainRun.       *)
(***************************************************************************)
EXTENDS Naturals, FiniteSets, JobStates

CONSTANTS
    Jobs,           \* the jobs of the queue
    Windows,        \* processes that may run a window
    Parallel,       \* SchedulerPolicy.max_processes
    MaxRequeues,    \* bound: how often a job is put back into the queue
    LiveRecovery,   \* whether recovery may start while a window is running
    Overlapping,    \* whether commands may be given while a CLI command runs
    Surfaces,       \* who commands jobs: "bulk", "cli", "desktop"
    Commands        \* what they command: "cancel", "resume", "retry"

ASSUME ParallelAssumption == Parallel \in Nat \ {0}
ASSUME MaxRequeuesAssumption == MaxRequeues \in Nat
ASSUME LiveRecoveryAssumption == LiveRecovery \in BOOLEAN
ASSUME OverlappingAssumption == Overlapping \in BOOLEAN

VARIABLES
    state,      \* jobs.state in the store
    requeues,   \* times the job went back to Queued (bounded by MaxRequeues)
    staged,     \* the file at the job's staging path, or NoFile
    final,      \* the file at the job's destination
    reported,   \* jobs with a persisted validation report
    pc,         \* where each window's loop is, or how it ended
    step,       \* what each window is doing with each job
    paused,     \* the window's control: admission and worker tokens
    milestones, \* EngineFinished messages in the window's channel
    refused,    \* jobs whose settling the store refused during an abort
    robbed,     \* history: jobs an abort settled while another window had them
    recovery,   \* a running recovery: phase, jobs left, jobs interrupted
    cli         \* a running single-job CLI command, or CliIdle

files == <<staged, final, reported>>
window == <<pc, step, paused, milestones, refused, robbed>>
others == <<recovery, cli>>
vars == <<state, requeues, files, window, others>>

NoFile == [by |-> "nobody", done |-> FALSE, checked |-> FALSE]
StagedFile == [by : Windows, done : BOOLEAN, checked : BOOLEAN]
RecoveryIdle == [phase |-> "idle", todo |-> {}, hit |-> {}]
CliIdle == [phase |-> "idle"]

Working == {"starting", "engine", "staged", "checked", "clear"}
Ended == {"ok", "error", "cancelled", "panic"}
InLoop == {"claimed", "planned", "reported", "marked"}
Step == {"no", "pending", "unclaimed"} \cup InLoop \cup Working \cup Ended
Stopped == {"idle", "finished", "failed", "lossy", "dead"}

Running(w) == pc[w] \notin Stopped
\* active_jobs: what an abort settles, a job whose claim failed included
ActiveJobs(w) == {j \in Jobs : step[w][j] \notin {"no", "pending"}}
\* the jobs the window has claimed
Owned(w) == {j \in ActiveJobs(w) : step[w][j] # "unclaimed"}
Pending(w) == {j \in Jobs : step[w][j] = "pending"}
Workers(w) == {j \in Jobs : step[w][j] \in Working \cup Ended}
\* the loop is in the middle of preparing a job or of applying an outcome
Busy(w) == \E j \in Jobs : step[w][j] \in InLoop

At(w, j, s) == step[w][j] = s
Go(w, j, s) == step' = [step EXCEPT ![w][j] = s]
Move(j, next) == state' = [state EXCEPT ![j] = next]

TypeOK ==
    /\ state \in [Jobs -> JobState]
    /\ requeues \in [Jobs -> 0..MaxRequeues]
    /\ staged \in [Jobs -> StagedFile \cup {NoFile}]
    /\ final \in [Jobs -> {"none", "foreign", "unvalidated", "valid"}]
    /\ reported \subseteq Jobs
    /\ pc \in [Windows -> Stopped \cup {"admit", "select", "abort", "settle"}]
    /\ step \in [Windows -> [Jobs -> Step]]
    /\ paused \in [Windows -> {"no", "finish", "now"}]
    /\ milestones \in [Windows -> SUBSET Jobs]
    /\ refused \in [Windows -> SUBSET Jobs]
    /\ robbed \subseteq Jobs
    /\ recovery \in [phase : {"idle", "mark", "clean"}, todo : SUBSET Jobs, hit : SUBSET Jobs]
    /\ cli \in {CliIdle} \cup [phase : {"checked", "cleaned"}, job : Jobs, target : JobState]

Init ==
    /\ state = [j \in Jobs |-> "queued"]
    /\ requeues = [j \in Jobs |-> 0]
    /\ staged = [j \in Jobs |-> NoFile]
    /\ final = [j \in Jobs |-> "none"]
    /\ reported = {}
    /\ pc = [w \in Windows |-> "idle"]
    /\ step = [w \in Windows |-> [j \in Jobs |-> "no"]]
    /\ paused = [w \in Windows |-> "no"]
    /\ milestones = [w \in Windows |-> {}]
    /\ refused = [w \in Windows |-> {}]
    /\ robbed = {}
    /\ recovery = RecoveryIdle
    /\ cli = CliIdle

-----------------------------------------------------------------------------
(* The window loop: hydration, pausing and admission.                      *)

\* the window is over: its pending list, workers and channel are dropped
EndWindow(w, how) ==
    /\ pc' = [pc EXCEPT ![w] = how]
    /\ step' = [step EXCEPT ![w] = [j \in Jobs |-> "no"]]
    /\ milestones' = [milestones EXCEPT ![w] = {}]
    /\ refused' = [refused EXCEPT ![w] = {}]
    /\ paused' = [paused EXCEPT ![w] = "no"]

\* list_queued_jobs_fair hydrates the queued jobs of the moment
OpenWindow(w) ==
    /\ ~Running(w)
    /\ LiveRecovery \/ recovery = RecoveryIdle
    /\ \E j \in Jobs : state[j] = "queued"
    /\ pc' = [pc EXCEPT ![w] = "admit"]
    /\ step' = [step EXCEPT ![w] =
            [j \in Jobs |-> IF state[j] = "queued" THEN "pending" ELSE "no"]]
    /\ UNCHANGED <<state, requeues, files, paused, milestones, refused, robbed, others>>

\* pause_finish_current cancels the admission token
PauseFinishCurrent(w) ==
    /\ pc[w] \in {"admit", "select"} /\ paused[w] = "no"
    /\ paused' = [paused EXCEPT ![w] = "finish"]
    /\ UNCHANGED <<state, requeues, files, pc, step, milestones, refused, robbed, others>>

\* pause_immediate cancels the worker token as well
PauseImmediate(w) ==
    /\ pc[w] \in {"admit", "select"} /\ paused[w] # "now"
    /\ paused' = [paused EXCEPT ![w] = "now"]
    /\ UNCHANGED <<state, requeues, files, pc, step, milestones, refused, robbed, others>>

CanAdmit(w) ==
    /\ pc[w] = "admit" /\ ~Busy(w) /\ paused[w] = "no"
    /\ Cardinality(Workers(w)) < Parallel

\* (mutant) the candidate is taken from the hydrated list without a re-check
ClaimStale(w, j) ==
    /\ CanAdmit(w) /\ At(w, j, "pending")
    /\ Move(j, "inspecting") /\ Go(w, j, "claimed")
    /\ UNCHANGED <<requeues, files, pc, paused, milestones, refused, robbed, others>>

\* an admitted candidate is claimed, or dropped as contended
Claim(w, j) ==
    /\ CanAdmit(w) /\ At(w, j, "pending")
    /\ \/ state[j] = "queued" /\ Move(j, "inspecting") /\ Go(w, j, "claimed")
       \/ state[j] # "queued" /\ UNCHANGED state /\ Go(w, j, "no")
    /\ UNCHANGED <<requeues, files, pc, paused, milestones, refused, robbed, others>>

\* the candidate is among the active jobs before it is claimed: when
\* claim_queued_job errs, the window aborts with a job that may be another's
ClaimErrs(w, j) ==
    /\ CanAdmit(w) /\ At(w, j, "pending") /\ Go(w, j, "unclaimed")
    /\ pc' = [pc EXCEPT ![w] = "abort"]
    /\ paused' = [paused EXCEPT ![w] = "now"]
    /\ UNCHANGED <<state, requeues, files, milestones, refused, robbed, others>>

\* a changed destination, engine or input blocks the job; an empty plan fails it
PrepareRejects(w, j) ==
    /\ At(w, j, "claimed") /\ pc[w] = "admit"
    /\ \E next \in {"blocked", "failed"} :
            CanTransition(state[j], next) /\ Move(j, next)
    /\ Go(w, j, "no")
    /\ UNCHANGED <<requeues, files, pc, paused, milestones, refused, robbed, others>>

\* PLAN_REVALIDATED, and then ENGINE_STARTED with the worker spawned
PreparePlans(w, j) ==
    /\ At(w, j, "claimed") /\ pc[w] = "admit"
    /\ CanTransition(state[j], "planned") /\ Move(j, "planned")
    /\ Go(w, j, "planned")
    /\ UNCHANGED <<requeues, files, pc, paused, milestones, refused, robbed, others>>

PrepareStarts(w, j) ==
    /\ At(w, j, "planned") /\ pc[w] = "admit"
    /\ CanTransition(state[j], "running") /\ Move(j, "running")
    /\ Go(w, j, "starting")
    /\ UNCHANGED <<requeues, files, pc, paused, milestones, refused, robbed, others>>

\* nothing more can be admitted now, and some worker is there to wait for
LeaveAdmission(w) ==
    /\ pc[w] = "admit" /\ ~Busy(w) /\ Workers(w) # {}
    /\ pc' = [pc EXCEPT ![w] = "select"]
    /\ UNCHANGED <<state, requeues, files, step, paused, milestones, refused, robbed, others>>

Finish(w) ==
    /\ pc[w] = "admit" /\ ~Busy(w) /\ Workers(w) = {}
    /\ paused[w] # "no" \/ Pending(w) = {}
    /\ EndWindow(w, "finished")
    /\ UNCHANGED <<state, requeues, files, robbed, others>>

-----------------------------------------------------------------------------
(* Workers: one execute_plan_observed each.  Cleanup and commit address    *)
(* the staging path, whoever put the file there.                           *)

\* cleanup_partial and cleanup_staged_output
RemoveStaged(j) == staged' = [staged EXCEPT ![j] = NoFile]

\* the destination and the staging path are free: the engine is spawned
EngineStarts(w, j) ==
    /\ At(w, j, "starting")
    /\ final[j] = "none" /\ staged[j] = NoFile
    /\ staged' = [staged EXCEPT ![j] = [NoFile EXCEPT !.by = w]]
    /\ Go(w, j, "engine")
    /\ UNCHANGED <<state, requeues, final, reported>>
    /\ UNCHANGED <<pc, paused, milestones, refused, robbed, others>>

\* the engine succeeded, some file is at the staging path, and no cancellation
\* has come in: the milestone is sent
EngineFinishes(w, j) ==
    /\ At(w, j, "engine") /\ paused[w] # "now" /\ staged[j] # NoFile
    /\ staged' = [staged EXCEPT ![j].done = @ \/ staged[j].by = w]
    /\ Go(w, j, "staged")
    /\ milestones' = [milestones EXCEPT ![w] = @ \cup {j}]
    /\ UNCHANGED <<state, requeues, final, reported, pc, paused, refused, robbed, others>>

\* the engine exits with an error, or leaves no file behind
EngineFails(w, j) ==
    /\ At(w, j, "engine")
    /\ RemoveStaged(j) /\ Go(w, j, "error")
    /\ UNCHANGED <<state, requeues, final, reported>>
    /\ UNCHANGED <<pc, paused, milestones, refused, robbed, others>>

\* (mutant) the token is only looked at before the engine is spawned
EngineCancelledEarly(w, j) ==
    /\ At(w, j, "starting") /\ paused[w] = "now"
    /\ RemoveStaged(j) /\ Go(w, j, "cancelled")
    /\ UNCHANGED <<state, requeues, final, reported>>
    /\ UNCHANGED <<pc, paused, milestones, refused, robbed, others>>

\* the worker token is cancelled: the process tree is killed
EngineCancelled(w, j) ==
    /\ At(w, j, "engine") /\ paused[w] = "now"
    /\ RemoveStaged(j) /\ Go(w, j, "cancelled")
    /\ UNCHANGED <<state, requeues, final, reported>>
    /\ UNCHANGED <<pc, paused, milestones, refused, robbed, others>>

\* required validation of the file now at the staging path passes
Validates(w, j) ==
    /\ At(w, j, "staged") /\ staged[j].done
    /\ staged' = [staged EXCEPT ![j].checked = TRUE]
    /\ Go(w, j, "checked")
    /\ UNCHANGED <<state, requeues, final, reported>>
    /\ UNCHANGED <<pc, paused, milestones, refused, robbed, others>>

\* the last look at the destination before the commit
DestinationClear(w, j) ==
    /\ At(w, j, "checked") /\ final[j] = "none"
    /\ Go(w, j, "clear")
    /\ UNCHANGED <<state, requeues, files, pc, paused, milestones, refused, robbed, others>>

\* (mutant) a plain rename, trusting the look taken before
PublishReplacing(w, j) ==
    /\ At(w, j, "clear") /\ staged[j] # NoFile
    /\ final' = [final EXCEPT ![j] = IF staged[j].checked THEN "valid" ELSE "unvalidated"]
    /\ RemoveStaged(j) /\ Go(w, j, "ok")
    /\ UNCHANGED <<state, requeues, reported, pc, paused, milestones, refused, robbed, others>>

\* commit_path_no_replace: an atomic move that never replaces
Publish(w, j) ==
    /\ At(w, j, "clear") /\ staged[j] # NoFile /\ final[j] = "none"
    /\ final' = [final EXCEPT ![j] = IF staged[j].checked THEN "valid" ELSE "unvalidated"]
    /\ RemoveStaged(j) /\ Go(w, j, "ok")
    /\ UNCHANGED <<state, requeues, reported, pc, paused, milestones, refused, robbed, others>>

\* an occupied path, a changed input, a spawn error, a failed validation or a
\* failed commit; only before the spawn is the staging path left alone
WorkerFails(w, j) ==
    /\ \/ At(w, j, "starting") /\ UNCHANGED staged
       \/ step[w][j] \in {"staged", "clear"} /\ RemoveStaged(j)
       \/ At(w, j, "checked") /\ final[j] # "none" /\ RemoveStaged(j)
    /\ Go(w, j, "error")
    /\ UNCHANGED <<state, requeues, final, reported>>
    /\ UNCHANGED <<pc, paused, milestones, refused, robbed, others>>

\* the task unwinds; nothing cleans up after it
WorkerPanics(w, j) ==
    /\ step[w][j] \in Working /\ Go(w, j, "panic")
    /\ UNCHANGED <<state, requeues, files, pc, paused, milestones, refused, robbed, others>>

-----------------------------------------------------------------------------
(* The window loop: milestones and outcomes.                               *)

AtSelect(w) == pc[w] = "select" /\ ~Busy(w)
NextPass(w) == pc' = [pc EXCEPT ![w] = "admit"]

\* mark_job_validating: re-reads the state, moves Running only
MarkJobValidating(j) ==
    \/ state[j] = "running" /\ Move(j, "validating")
    \/ state[j] # "running" /\ UNCHANGED state

TakeMilestone(w, j) ==
    /\ AtSelect(w) /\ j \in milestones[w]
    /\ milestones' = [milestones EXCEPT ![w] = @ \ {j}]
    /\ MarkJobValidating(j) /\ NextPass(w)
    /\ UNCHANGED <<requeues, files, step, paused, refused, robbed, others>>

\* (mutant) the report callback is left out
JoinOkUnreported(w, j) ==
    /\ AtSelect(w) /\ At(w, j, "ok") /\ Go(w, j, "reported")
    /\ UNCHANGED <<state, requeues, files, pc, paused, milestones, refused, robbed, others>>

\* (mutant) the worker's result is not looked at
JoinOkAny(w, j) ==
    /\ AtSelect(w) /\ step[w][j] \in {"ok", "error"} /\ Go(w, j, "reported")
    /\ reported' = reported \cup {j}
    /\ UNCHANGED <<state, requeues, staged, final, pc, paused, milestones, refused, robbed, others>>

\* a successful worker: its report is persisted before anything else
JoinOk(w, j) ==
    /\ AtSelect(w) /\ At(w, j, "ok") /\ Go(w, j, "reported")
    /\ reported' = reported \cup {j}
    /\ UNCHANGED <<state, requeues, staged, final, pc, paused, milestones, refused, robbed, others>>

OutcomeMarks(w, j) ==
    /\ pc[w] = "select" /\ At(w, j, "reported") /\ Go(w, j, "marked")
    /\ MarkJobValidating(j)
    /\ UNCHANGED <<requeues, files, pc, paused, milestones, refused, robbed, others>>

OutcomeCompletes(w, j) ==
    /\ pc[w] = "select" /\ At(w, j, "marked") /\ Go(w, j, "no")
    /\ \E next \in {"completed", "warning"} :
            CanTransition(state[j], next) /\ Move(j, next)
    /\ NextPass(w)
    /\ UNCHANGED <<requeues, files, paused, milestones, refused, robbed, others>>

\* the state for a worker that was cancelled, or ended in any other error
StopState(w, j) ==
    IF At(w, j, "error") THEN "failed"
    ELSE IF paused[w] = "now" THEN "interrupted" ELSE "cancelled"

OutcomeStops(w, j) ==
    /\ AtSelect(w) /\ step[w][j] \in {"cancelled", "error"}
    /\ Go(w, j, "no") /\ NextPass(w)
    /\ CanTransition(state[j], StopState(w, j)) /\ Move(j, StopState(w, j))
    /\ UNCHANGED <<requeues, files, paused, milestones, refused, robbed, others>>

-----------------------------------------------------------------------------
(* abort_active_window.                                                    *)

\* places where the loop, past a claim, calls the store, the report callback
\* or a join
AtCall(w) ==
    \/ pc[w] \in {"admit", "select"} /\ Busy(w)
    \/ AtSelect(w) /\ (milestones[w] # {} \/ \E j \in Jobs : step[w][j] \in Ended)

\* such a call fails (a refused transition, a storage or report error, a
\* panicked worker): admission and workers are cancelled
ControlPlaneFails(w) ==
    /\ AtCall(w)
    /\ pc' = [pc EXCEPT ![w] = "abort"]
    /\ paused' = [paused EXCEPT ![w] = "now"]
    /\ UNCHANGED <<state, requeues, files, step, milestones, refused, robbed, others>>

\* every worker is joined; the results are not looked at
AbortDrains(w) ==
    /\ pc[w] = "abort" /\ \A j \in Jobs : step[w][j] \notin Working
    /\ pc' = [pc EXCEPT ![w] = "settle"]
    /\ UNCHANGED <<state, requeues, files, step, paused, milestones, refused, robbed, others>>

\* the state an active job is left in
SettledState(s) ==
    IF s \in {"running", "validating"} THEN "interrupted"
    ELSE IF s \in {"inspecting", "planned"} THEN "failed" ELSE s

\* an abort that settles a job this window never claimed takes it from the
\* window that did
Robbing(w, j) ==
    /\ At(w, j, "unclaimed") /\ state[j] \in Active
    /\ \E v \in Windows : j \in Owned(v)

Robs(w, j) == robbed' = IF Robbing(w, j) THEN robbed \cup {j} ELSE robbed

\* (mutant) only a job whose engine ran is settled
AbortSettlesRunning(w, j) ==
    /\ pc[w] = "settle" /\ j \in ActiveJobs(w) /\ Go(w, j, "no")
    /\ \/ /\ Move(j, IF state[j] \in {"running", "validating"} THEN "interrupted" ELSE state[j])
          /\ Robs(w, j) /\ UNCHANGED refused
       \/ UNCHANGED <<state, robbed>> /\ refused' = [refused EXCEPT ![w] = @ \cup {j}]
    /\ UNCHANGED <<requeues, files, pc, paused, milestones, others>>

\* one active job is settled by what the store says of it (get_job and the
\* transition are one step: an owner that moves on between them changes only
\* which of the two end states is written), or the store refuses; the others
\* are still tried
AbortSettles(w, j) ==
    /\ pc[w] = "settle" /\ j \in ActiveJobs(w) /\ Go(w, j, "no")
    /\ \/ Move(j, SettledState(state[j])) /\ Robs(w, j) /\ UNCHANGED refused
       \/ UNCHANGED <<state, robbed>> /\ refused' = [refused EXCEPT ![w] = @ \cup {j}]
    /\ UNCHANGED <<requeues, files, pc, paused, milestones, others>>

AbortReturns(w) ==
    /\ pc[w] = "settle" /\ ActiveJobs(w) = {}
    /\ EndWindow(w, IF refused[w] # {} THEN "lossy" ELSE "failed")
    /\ UNCHANGED <<state, requeues, files, robbed, others>>

\* the process of the window dies, its engines with it; files stay
Crash(w) ==
    /\ Running(w) /\ EndWindow(w, "dead")
    /\ UNCHANGED <<state, requeues, files, robbed, others>>

-----------------------------------------------------------------------------
(* Recovery: interrupt_active_jobs, then a cleanup per interrupted job.    *)

\* (mutant) the SELECT names one state only
InterruptibleRunningOnly == {j \in Jobs : state[j] = "running"}

\* the jobs the SELECT of interrupt_active_jobs returns
Interruptible == {j \in Jobs : state[j] \in {"running", "validating"}}

RecoveryBegins ==
    /\ recovery = RecoveryIdle
    /\ LiveRecovery \/ \A w \in Windows : ~Running(w)
    /\ \E j \in Jobs : state[j] \in Active
    /\ recovery' = [phase |-> "mark", todo |-> Interruptible, hit |-> {}]
    /\ UNCHANGED <<state, requeues, files, window, cli>>

RecoveryInterrupts(j) ==
    /\ recovery.phase = "mark" /\ j \in recovery.todo
    /\ CanTransition(state[j], "interrupted") /\ Move(j, "interrupted")
    /\ recovery' = [recovery EXCEPT !.todo = @ \ {j}, !.hit = @ \cup {j}]
    /\ UNCHANGED <<requeues, files, window, cli>>

RecoveryTurnsToFiles ==
    /\ recovery.phase = "mark" /\ recovery.todo = {}
    /\ recovery' = [phase |-> "clean", todo |-> recovery.hit, hit |-> recovery.hit]
    /\ UNCHANGED <<state, requeues, files, window, cli>>

RecoveryCleans(j) ==
    /\ recovery.phase = "clean" /\ j \in recovery.todo
    /\ RemoveStaged(j)
    /\ recovery' = [recovery EXCEPT !.todo = @ \ {j}]
    /\ UNCHANGED <<state, requeues, final, reported, window, cli>>

RecoveryReturns ==
    /\ recovery.phase = "clean" /\ recovery.todo = {}
    /\ recovery' = RecoveryIdle
    /\ UNCHANGED <<state, requeues, files, window, cli>>

\* the process dies, or an error return skips the rest
RecoveryStops ==
    /\ recovery.phase # "idle" /\ recovery.todo # {}
    /\ recovery' = RecoveryIdle
    /\ UNCHANGED <<state, requeues, files, window, cli>>

-----------------------------------------------------------------------------
(* Users: bulk service, staging cleanup, CLI commands, desktop requeue.    *)

MayCommand == Overlapping \/ cli = CliIdle

Requeue(j, next) ==
    /\ next = "queued" => requeues[j] < MaxRequeues
    /\ requeues' = [requeues EXCEPT ![j] = IF next = "queued" THEN @ + 1 ELSE @]

\* BulkJobService::apply: check, cleanup and transition under one writer lock
BulkActs(j, action) ==
    /\ "bulk" \in Surfaces /\ MayCommand /\ BulkEligible(action, state[j])
    /\ Requeue(j, BulkTarget(action))
    /\ RemoveStaged(j) /\ Move(j, BulkTarget(action))
    /\ UNCHANGED <<final, reported, window, others>>

\* JobRecoveryService::cleanup_staging, under the writer lock too
CleanupStaging(j) ==
    /\ state[j] \in {"blocked", "failed", "cancelled", "interrupted"}
    /\ staged[j] # NoFile /\ RemoveStaged(j)
    /\ UNCHANGED <<state, requeues, final, reported, window, others>>

\* transition_stored_job: three calls, each with its own look at the database
CliChecks(j, action) ==
    /\ "cli" \in Surfaces /\ cli = CliIdle /\ BulkEligible(action, state[j])
    /\ cli' = [phase |-> "checked", job |-> j, target |-> BulkTarget(action)]
    /\ UNCHANGED <<state, requeues, files, window, recovery>>

CliCleans ==
    /\ cli.phase = "checked" /\ RemoveStaged(cli.job)
    /\ cli' = [cli EXCEPT !.phase = "cleaned"]
    /\ UNCHANGED <<state, requeues, final, reported, window, recovery>>

CliTransitions ==
    /\ cli.phase = "cleaned" /\ cli' = CliIdle
    /\ \/ /\ CanTransition(state[cli.job], cli.target)
          /\ Requeue(cli.job, cli.target) /\ Move(cli.job, cli.target)
       \/ UNCHANGED <<state, requeues>>     \* refused, or the process died
    /\ UNCHANGED <<files, window, recovery>>

\* requeue_job of the desktop: no staging cleanup
DesktopRequeues(j) ==
    /\ "desktop" \in Surfaces /\ MayCommand
    /\ state[j] \in {"interrupted", "blocked", "failed", "cancelled"}
    /\ Requeue(j, "queued") /\ Move(j, "queued")
    /\ UNCHANGED <<files, window, others>>

\* somebody else creates a file at a job's destination
ForeignFileAppears(j) ==
    /\ final[j] = "none" /\ final' = [final EXCEPT ![j] = "foreign"]
    /\ UNCHANGED <<state, requeues, staged, reported, window, others>>

-----------------------------------------------------------------------------
\* what the loop of a window does by itself; the cancellation of an engine is
\* prompt, its own exit is not promised (no conversion timeout exists here)
Loop(w) ==
    \/ LeaveAdmission(w) \/ Finish(w)
    \/ AbortDrains(w) \/ AbortReturns(w) \/ ControlPlaneFails(w)
    \/ \E j \in Jobs :
        \/ Claim(w, j) \/ ClaimErrs(w, j)
        \/ PrepareRejects(w, j) \/ PreparePlans(w, j) \/ PrepareStarts(w, j)
        \/ TakeMilestone(w, j) \/ JoinOk(w, j) \/ OutcomeMarks(w, j)
        \/ OutcomeCompletes(w, j) \/ OutcomeStops(w, j) \/ AbortSettles(w, j)

Worker(w, j) ==
    \/ EngineStarts(w, j) \/ EngineCancelled(w, j)
    \/ Validates(w, j) \/ DestinationClear(w, j) \/ Publish(w, j) \/ WorkerFails(w, j)

Engine(w, j) == EngineFinishes(w, j) \/ EngineFails(w, j)

Recover ==
    \/ RecoveryBegins \/ RecoveryTurnsToFiles \/ RecoveryReturns \/ RecoveryStops
    \/ \E j \in Jobs : RecoveryInterrupts(j) \/ RecoveryCleans(j)

Users ==
    \/ CliCleans \/ CliTransitions
    \/ \E j \in Jobs :
        \/ CleanupStaging(j) \/ DesktopRequeues(j) \/ ForeignFileAppears(j)
        \/ \E action \in Commands : BulkActs(j, action) \/ CliChecks(j, action)

Faults(w) == Crash(w) \/ \E j \in Jobs : WorkerPanics(w, j)

Next ==
    \/ \E w \in Windows :
        \/ OpenWindow(w) \/ PauseFinishCurrent(w) \/ PauseImmediate(w)
        \/ Loop(w) \/ Faults(w)
        \/ \E j \in Jobs : Worker(w, j) \/ Engine(w, j)
    \/ Recover \/ Users

Spec == Init /\ [][Next]_vars

\* the runtime polls every task: a window's loop and its workers keep moving
FairSpec ==
    /\ Spec
    /\ \A w \in Windows : WF_vars(Loop(w)) /\ \A j \in Jobs : WF_vars(Worker(w, j))

-----------------------------------------------------------------------------
(* Safety.                                                                 *)

\* A job recorded as a success has a validated file at its destination and a
\* persisted report, whatever crashed or raced on the way
\* (docs/specs/JOB_RECOVERY.md: "No crash point may produce a false completed
\* state"); a job that an abort took from another window is excepted.
NoFalseCompletion ==
    \A j \in Jobs \ robbed : state[j] \in {"completed", "warning"} =>
        final[j] = "valid" /\ j \in reported

\* The claim gives a job to one window: no two windows work on the same job,
\* and a job somebody works on is not back in the queue, unless the abort of
\* a window whose own claim of it failed took the job from its owner
\* (active_jobs.insert before prepare_queued_job, and abort_active_window).
OneOwner ==
    \A w \in Windows : \A j \in Owned(w) \ robbed :
        /\ \A v \in Windows \ {w} : j \notin Owned(v)
        /\ state[j] # "queued"

\* A window lets go of a job only in a state that says nobody is working on
\* it; the exceptions are the death of the process and a settling write that
\* the store refused and the window's error mentions.
NothingDropped ==
    [][\A w \in Windows : \A j \in ActiveJobs(w) :
            step'[w][j] = "no" =>
                \/ state'[j] \notin Active
                \/ pc'[w] = "dead" \/ j \in refused'[w]]_vars

\* Once something is at a destination no step of any process replaces it: the
\* commit never overwrites, even a file that appeared after the last look.
NeverOverwrites ==
    [][\A j \in Jobs : final[j] # "none" => final'[j] = final[j]]_vars

\* Recovery that runs to its end after the windows' processes are gone leaves
\* no job Running or Validating.
RecoveryInterruptsAll ==
    [][recovery.phase = "clean" /\ recovery' = RecoveryIdle /\ recovery.todo = {} =>
            \A j \in Jobs : state[j] \notin {"running", "validating"}]_vars

\* A job is handed to the queue with a clean staging path, so that the next
\* attempt is not turned away by the leftovers of the last one.
QueuedHasNoLeftover ==
    \A j \in Jobs \ robbed : state[j] = "queued" => staged[j] = NoFile

\* What the store says of a job is true of its files: a completed job has its
\* validated output and its report, a queued one a clean staging path
\* (job_execution.rs and every command that re-queues, against the runner).
\* A robbed job is excepted from both.
StatesAreTrue == NoFalseCompletion /\ QueuedHasNoLeftover

-----------------------------------------------------------------------------
(* The queue delivers what Delivery promises.                              *)

\* some attempt has published and still knows it
Published(j) == \E w \in Windows : step[w][j] \in {"ok", "reported", "marked"}

Phase(j) ==
    IF j \in robbed THEN "lost"
    ELSE IF state[j] = "queued" THEN "waiting"
    ELSE IF state[j] \in {"completed", "warning"} THEN "delivered"
    ELSE IF state[j] \notin Active THEN "stopped"
    ELSE IF Published(j) THEN "published" ELSE "working"

Promise == INSTANCE Delivery WITH
    Freeing <- FALSE, phase <- [j \in Jobs |-> Phase(j)], product <- final

\* Every behaviour of windows, workers, recovery and users is one that
\* Delivery allows; of a job that a failed claim took from its owner only that
\* nothing at its destination is replaced.
DeliversAsPromised == Promise!Spec

-----------------------------------------------------------------------------
(* Liveness.                                                               *)

\* An immediate pause ends the window although no engine ever exits by
\* itself: cancelled engines are killed, results are drained, and even a
\* failing control plane comes to an end.
PauseImmediateEnds ==
    \A w \in Windows : (paused[w] = "now") ~> ~Running(w)

-----------------------------------------------------------------------------
(* What the documents say and the code keeps only so far (see README.md).  *)

\* docs/testing/JOB_EXECUTION_SERVICE.md: the claim is one transaction, so
\* independent processes cannot execute the same job.
OneExecutor ==
    \A w, v \in Windows, j \in Jobs :
        step[w][j] \in Working /\ step[v][j] \in Working => w = v

\* crates/core/src/runner.rs: only an output that passes required validation
\* is committed; here, of a job no abort took from its owner.
CommitsOnlyValidated == \A j \in Jobs \ robbed : final[j] # "unvalidated"
=============================================================================
