-------------------------- MODULE QueueWindowProofs --------------------------
(***************************************************************************)
(* Proofs about QueueWindow, for any number of jobs, windows and requeues. *)
(*                                                                         *)
(* The heart is who works on a job: whoever holds it is a running window,  *)
(* alone, and what the store says of the job fits what the window is doing *)
(* with it, as long as no abort of another window robbed it of the job; of *)
(* a robbed job the invariant says nothing any more.  From that follow what is at the destination (a publishing     *)
(* worker moved a file that was validated as its own), what the store says *)
(* of it, and that the windows implement Delivery.  The hypotheses are the *)
(* ones without which these facts are false (README.md, section 7): no     *)
(* recovery while a window is alive, no second command while a command of  *)
(* the CLI is between its steps, and no cancelling of planned jobs where   *)
(* another window could claim them again.                                  *)
(***************************************************************************)
EXTENDS QueueWindow, TLAPS

Alone == \A v, w \in Windows : v = w

Calm ==
    /\ ~LiveRecovery /\ ~Overlapping
    /\ "cancel" \in Commands => Alone /\ "cli" \notin Surfaces

-----------------------------------------------------------------------------
(* What the writers of single variables do.                                *)

AnyFile == StagedFile \cup {NoFile}
Place == Stopped \cup {"admit", "select", "abort", "settle"}

LEMMA Names ==
    /\ {"no", "pending", "unclaimed", "claimed", "planned", "reported", "marked", "starting", "engine",
        "staged", "checked", "clear", "ok", "error", "cancelled", "panic"} \subseteq Step
    /\ {"queued", "inspecting", "planned", "blocked", "running", "validating", "completed",
        "warning", "failed", "cancelled", "interrupted"} \subseteq JobState
  BY DEF Step, InLoop, Working, Ended, JobState

LEMMA Going ==
    ASSUME step \in [Windows -> [Jobs -> Step]], NEW w \in Windows, NEW j \in Jobs,
           NEW s \in Step, Go(w, j, s)
    PROVE  /\ step' \in [Windows -> [Jobs -> Step]]
           /\ step'[w][j] = s
           /\ \A v \in Windows, k \in Jobs : v # w \/ k # j => step'[v][k] = step[v][k]
  <1>1. step' = [v \in Windows |-> IF v = w THEN [step[w] EXCEPT ![j] = s] ELSE step[v]]
    BY DEF Go
  <1>. QED
    BY <1>1

LEMMA Moving ==
    ASSUME state \in [Jobs -> JobState], NEW j \in Jobs, NEW t \in JobState, Move(j, t)
    PROVE  /\ state' \in [Jobs -> JobState]
           /\ state'[j] = t
           /\ \A k \in Jobs : k # j => state'[k] = state[k]
  BY DEF Move

LEMMA Marking ==
    ASSUME state \in [Jobs -> JobState], NEW j \in Jobs, MarkJobValidating(j)
    PROVE  /\ state' \in [Jobs -> JobState]
           /\ state'[j] = IF state[j] = "running" THEN "validating" ELSE state[j]
           /\ \A k \in Jobs : k # j => state'[k] = state[k]
  BY Moving, Names DEF MarkJobValidating

LEMMA Removing ==
    ASSUME staged \in [Jobs -> AnyFile], NEW j \in Jobs, RemoveStaged(j)
    PROVE  /\ staged' \in [Jobs -> AnyFile]
           /\ staged'[j] = NoFile
           /\ \A k \in Jobs : k # j => staged'[k] = staged[k]
  BY DEF RemoveStaged, AnyFile

LEMMA Writing ==
    ASSUME staged \in [Jobs -> AnyFile], NEW j \in Jobs, NEW f \in AnyFile,
           staged' = [staged EXCEPT ![j] = f]
    PROVE  /\ staged' \in [Jobs -> AnyFile]
           /\ staged'[j] = f
           /\ \A k \in Jobs : k # j => staged'[k] = staged[k]
  OBVIOUS

LEMMA Records ==
    /\ \A w \in Windows : [NoFile EXCEPT !.by = w] \in AnyFile
    /\ \A f \in StagedFile, b \in BOOLEAN :
           /\ [f EXCEPT !.done = b] \in AnyFile /\ [f EXCEPT !.checked = b] \in AnyFile
           /\ [f EXCEPT !.checked = b].checked = b
    /\ \A f \in StagedFile : f.done \in BOOLEAN
    /\ ~NoFile.done /\ ~NoFile.checked
  BY DEF StagedFile, NoFile, AnyFile

LEMMA Settling == \A s \in JobState : SettledState(s) \in JobState \ Active
  BY DEF SettledState, JobState, Active

LEMMA Requeueing ==
    ASSUME requeues \in [Jobs -> 0..MaxRequeues], NEW j \in Jobs, NEW next, Requeue(j, next)
    PROVE  requeues' \in [Jobs -> 0..MaxRequeues]
  BY MaxRequeuesAssumption DEF Requeue

LEMMA Ending ==
    ASSUME TypeOK, NEW w \in Windows, NEW how \in Stopped, EndWindow(w, how)
    PROVE  /\ pc' \in [Windows -> Place]
           /\ step' \in [Windows -> [Jobs -> Step]]
           /\ paused' \in [Windows -> {"no", "finish", "now"}]
           /\ milestones' \in [Windows -> SUBSET Jobs]
           /\ refused' \in [Windows -> SUBSET Jobs]
           /\ pc'[w] = how
           /\ \A j \in Jobs : step'[w][j] = "no"
           /\ \A v \in Windows : v # w => step'[v] = step[v] /\ pc'[v] = pc[v]
  BY Names DEF EndWindow, TypeOK, Place

-----------------------------------------------------------------------------
(* Types.                                                                  *)

LEMMA EngineTypes ==
    ASSUME TypeOK, NEW w \in Windows, NEW j \in Jobs,
           EngineFinishes(w, j) \/ Validates(w, j)
    PROVE  /\ TypeOK' /\ \A k \in Jobs : k # j => staged'[k] = staged[k]
           /\ Validates(w, j) => staged'[j].checked
  <1>1. CASE EngineFinishes(w, j)
    <2>1. staged[j] \in StagedFile
      BY <1>1 DEF TypeOK, EngineFinishes
    <2>2. PICK b \in BOOLEAN : staged' = [staged EXCEPT ![j] = [staged[j] EXCEPT !.done = b]]
      BY <1>1, <2>1, Records DEF EngineFinishes, TypeOK, AnyFile
    <2>3. staged' \in [Jobs -> AnyFile] /\ \A k \in Jobs : k # j => staged'[k] = staged[k]
      <3>1. staged \in [Jobs -> AnyFile]
        BY DEF TypeOK, AnyFile
      <3>2. [staged[j] EXCEPT !.done = b] \in AnyFile
        BY <2>1, Records
      <3>. QED
        BY ONLY <2>2, <3>1, <3>2, Writing, j \in Jobs
    <2>. QED
      BY <1>1, <2>3, Names, Going
      DEF TypeOK, EngineFinishes, Validates, At, AnyFile, others
  <1>2. CASE Validates(w, j)
    <2>1. staged[j] \in StagedFile
      BY <1>2, Records DEF TypeOK, Validates
    <2>2. staged' = [staged EXCEPT ![j] = [staged[j] EXCEPT !.checked = TRUE]]
      BY <1>2 DEF Validates
    <2>0. staged \in [Jobs -> AnyFile] /\ [staged[j] EXCEPT !.checked = TRUE] \in AnyFile
      <3>1. staged \in [Jobs -> AnyFile]
        BY DEF TypeOK, AnyFile
      <3>2. [staged[j] EXCEPT !.checked = TRUE] \in AnyFile
        BY <2>1, Records
      <3>. QED
        BY <3>1, <3>2
    <2>3. staged' \in [Jobs -> AnyFile] /\ \A k \in Jobs : k # j => staged'[k] = staged[k]
      BY ONLY <2>0, <2>2, Writing, j \in Jobs
    <2>4. staged'[j].checked
      <3>1. staged'[j] = [staged[j] EXCEPT !.checked = TRUE]
        BY ONLY <2>0, <2>2, Writing, j \in Jobs
      <3>. QED
        BY <2>1, <3>1
    <2>. QED
      BY <1>2, <2>4, <2>3, Names, Going DEF TypeOK, Validates, AnyFile, others
  <1>. QED
    BY <1>1, <1>2

LEMMA LoopTypes ==
    ASSUME TypeOK, NEW w \in Windows, Loop(w)
    PROVE  TypeOK'
  <1>1. ASSUME LeaveAdmission(w) \/ AbortDrains(w) \/ ControlPlaneFails(w) PROVE TypeOK'
    <2>1. CASE LeaveAdmission(w)
      BY <2>1 DEF TypeOK, LeaveAdmission, files, others
    <2>2. CASE AbortDrains(w)
      BY <2>2 DEF TypeOK, AbortDrains, files, others
    <2>3. CASE ControlPlaneFails(w)
      BY <2>3 DEF TypeOK, ControlPlaneFails, files, others
    <2>. QED
      BY <1>1, <2>1, <2>2, <2>3
  <1>2. ASSUME Finish(w) \/ AbortReturns(w) PROVE TypeOK'
    BY <1>2, Ending DEF TypeOK, Finish, AbortReturns, files, others, Stopped, Place
  <1>3. ASSUME NEW j \in Jobs, Claim(w, j) \/ ClaimErrs(w, j) \/ JoinOk(w, j) PROVE TypeOK'
    <2>1. CASE Claim(w, j)
      BY <2>1, Names, Going, Moving DEF TypeOK, Claim, files, others
    <2>2. CASE ClaimErrs(w, j)
      BY <2>2, Names, Going DEF TypeOK, ClaimErrs, files, others
    <2>3. CASE JoinOk(w, j)
      BY <2>3, Names, Going DEF TypeOK, JoinOk, others
    <2>. QED
      BY <1>3, <2>1, <2>2, <2>3
  <1>4. ASSUME NEW j \in Jobs, PrepareRejects(w, j) PROVE TypeOK'
    BY <1>4, Names, Going, Moving DEF TypeOK, PrepareRejects, files, others
  <1>5. ASSUME NEW j \in Jobs, PreparePlans(w, j) \/ PrepareStarts(w, j) PROVE TypeOK'
    BY <1>5, Names, Going, Moving DEF TypeOK, PreparePlans, PrepareStarts, files, others
  <1>6. ASSUME NEW j \in Jobs, TakeMilestone(w, j) \/ OutcomeMarks(w, j) PROVE TypeOK'
    <2>1. state' \in [Jobs -> JobState]
      BY <1>6, Marking DEF TypeOK, TakeMilestone, OutcomeMarks
    <2>2. step' \in [Windows -> [Jobs -> Step]]
      BY <1>6, Names, Going DEF TypeOK, TakeMilestone, OutcomeMarks
    <2>3. pc' \in [Windows -> Place]
      BY <1>6 DEF TypeOK, TakeMilestone, OutcomeMarks, NextPass, Place
    <2>5. milestones' \in [Windows -> SUBSET Jobs]
      <3>1. CASE TakeMilestone(w, j)
        BY <3>1 DEF TypeOK, TakeMilestone
      <3>2. CASE OutcomeMarks(w, j)
        BY <3>2 DEF TypeOK, OutcomeMarks
      <3>. QED
        BY <1>6, <3>1, <3>2
    <2>4. UNCHANGED <<requeues, files, paused, refused, robbed, others>>
      BY <1>6 DEF TakeMilestone, OutcomeMarks
    <2>. QED
      BY <2>1, <2>2, <2>3, <2>4, <2>5 DEF TypeOK, Place, files, others
  <1>7. ASSUME NEW j \in Jobs, OutcomeCompletes(w, j) PROVE TypeOK'
    BY <1>7, Names, Going, Moving DEF TypeOK, OutcomeCompletes, NextPass, files, others
  <1>8. ASSUME NEW j \in Jobs, OutcomeStops(w, j) PROVE TypeOK'
    BY <1>8, Names, Going, Moving DEF TypeOK, OutcomeStops, StopState, NextPass, files, others
  <1>9. ASSUME NEW j \in Jobs, AbortSettles(w, j) PROVE TypeOK'
    <2>1. step' \in [Windows -> [Jobs -> Step]]
      BY <1>9, Names, Going DEF TypeOK, AbortSettles
    <2>2. state' \in [Jobs -> JobState] /\ refused' \in [Windows -> SUBSET Jobs]
      BY <1>9, Moving, Settling DEF TypeOK, AbortSettles
    <2>3. robbed' \subseteq Jobs
      BY <1>9 DEF TypeOK, AbortSettles, Robs
    <2>. QED
      BY <1>9, <2>1, <2>2, <2>3 DEF TypeOK, AbortSettles, files, others
  <1>. QED
    BY <1>1, <1>2, <1>3, <1>4, <1>5, <1>6, <1>7, <1>8, <1>9 DEF Loop

LEMMA WorkerTypes ==
    ASSUME TypeOK, NEW w \in Windows, NEW j \in Jobs,
           Worker(w, j) \/ Engine(w, j) \/ WorkerPanics(w, j)
    PROVE  TypeOK'
  <1>1. ASSUME EngineStarts(w, j) PROVE TypeOK'
    BY <1>1, Names, Going, Writing, Records DEF TypeOK, EngineStarts, AnyFile, others
  <1>2. ASSUME EngineCancelled(w, j) \/ EngineFails(w, j) PROVE TypeOK'
    BY <1>2, Names, Going, Removing DEF TypeOK, EngineCancelled, EngineFails, AnyFile, others
  <1>3. ASSUME DestinationClear(w, j) \/ WorkerPanics(w, j) PROVE TypeOK'
    BY <1>3, Names, Going DEF TypeOK, DestinationClear, WorkerPanics, files, others
  <1>4. ASSUME Publish(w, j) PROVE TypeOK'
    BY <1>4, Names, Going, Removing DEF TypeOK, Publish, AnyFile, others
  <1>5. ASSUME WorkerFails(w, j) PROVE TypeOK'
    BY <1>5, Names, Going, Removing DEF TypeOK, WorkerFails, AnyFile, others
  <1>. QED
    BY <1>1, <1>2, <1>3, <1>4, <1>5, EngineTypes DEF Worker, Engine

LEMMA RecoveryTypes ==
    ASSUME TypeOK, Recover
    PROVE  TypeOK'
  <1>1. ASSUME RecoveryBegins \/ RecoveryTurnsToFiles \/ RecoveryReturns \/ RecoveryStops
        PROVE  TypeOK'
    BY <1>1 DEF TypeOK, RecoveryBegins, RecoveryTurnsToFiles, RecoveryReturns, RecoveryStops,
                RecoveryIdle, Interruptible, files, window
  <1>2. ASSUME NEW j \in Jobs, RecoveryInterrupts(j) PROVE TypeOK'
    <2>1. state' \in [Jobs -> JobState]
      BY <1>2, Names, Moving DEF TypeOK, RecoveryInterrupts
    <2>2. recovery' = [recovery EXCEPT !.todo = @ \ {j}, !.hit = @ \cup {j}]
      BY <1>2 DEF RecoveryInterrupts
    <2>3. recovery' \in [phase : {"idle", "mark", "clean"}, todo : SUBSET Jobs, hit : SUBSET Jobs]
      BY <2>2 DEF TypeOK
    <2>. QED
      BY <1>2, <2>1, <2>3 DEF TypeOK, RecoveryInterrupts, files, window
  <1>3. ASSUME NEW j \in Jobs, RecoveryCleans(j) PROVE TypeOK'
    BY <1>3, Removing DEF TypeOK, RecoveryCleans, AnyFile, window
  <1>. QED
    BY <1>1, <1>2, <1>3 DEF Recover

LEMMA UserTypes ==
    ASSUME TypeOK, Users
    PROVE  TypeOK'
  <1>1. ASSUME CliCleans PROVE TypeOK'
    <2>1. cli \in [phase : {"checked", "cleaned"}, job : Jobs, target : JobState]
      BY <1>1 DEF TypeOK, CliCleans, CliIdle
    <2>2. staged' \in [Jobs -> AnyFile]
      BY <1>1, <2>1, Removing DEF TypeOK, CliCleans, AnyFile
    <2>. QED
      BY <1>1, <2>1, <2>2 DEF TypeOK, CliCleans, AnyFile, window
  <1>2. ASSUME CliTransitions PROVE TypeOK'
    BY <1>2, Moving, Requeueing DEF TypeOK, CliTransitions, CliIdle, files, window
  <1>3. ASSUME NEW j \in Jobs, CleanupStaging(j) PROVE TypeOK'
    BY <1>3, Removing DEF TypeOK, CleanupStaging, AnyFile, window, others
  <1>4. ASSUME NEW j \in Jobs, DesktopRequeues(j) PROVE TypeOK'
    BY <1>4, Names, Moving, Requeueing DEF TypeOK, DesktopRequeues, files, window, others
  <1>5. ASSUME NEW j \in Jobs, ForeignFileAppears(j) PROVE TypeOK'
    BY <1>5 DEF TypeOK, ForeignFileAppears, window, others
  <1>6. ASSUME NEW j \in Jobs, NEW action \in Commands, BulkActs(j, action) PROVE TypeOK'
    <2>1. BulkTarget(action) \in JobState
      BY Names DEF BulkTarget
    <2>. QED
      BY <1>6, <2>1, Moving, Removing, Requeueing
      DEF TypeOK, BulkActs, AnyFile, window, others
  <1>7. ASSUME NEW j \in Jobs, NEW action \in Commands, CliChecks(j, action) PROVE TypeOK'
    BY <1>7, Names DEF TypeOK, CliChecks, BulkTarget, files, window
  <1>. QED
    BY <1>1, <1>2, <1>3, <1>4, <1>5, <1>6, <1>7 DEF Users

LEMMA TypeStep ==
    ASSUME TypeOK, [Next]_vars
    PROVE  TypeOK'
  <1>1. ASSUME NEW w \in Windows, OpenWindow(w) PROVE TypeOK'
    BY <1>1, Names DEF TypeOK, OpenWindow, files, others
  <1>4. ASSUME NEW w \in Windows, PauseFinishCurrent(w) \/ PauseImmediate(w) PROVE TypeOK'
    BY <1>4 DEF TypeOK, PauseFinishCurrent, PauseImmediate, files, others
  <1>2. ASSUME NEW w \in Windows, Crash(w) PROVE TypeOK'
    BY <1>2, Ending DEF TypeOK, Crash, files, others, Stopped, Place
  <1>3. CASE UNCHANGED vars
    BY <1>3 DEF TypeOK, vars, files, window, others
  <1>. QED
    BY <1>1, <1>2, <1>3, <1>4, LoopTypes, WorkerTypes, RecoveryTypes, UserTypes DEF Next, Faults

\* Types: every variable keeps to what the code can put there, whatever the
\* hypotheses of the other theorems.
THEOREM TypeCorrect == Spec => []TypeOK
  <1>1. Init => TypeOK
    BY MaxRequeuesAssumption, Names DEF Init, TypeOK, RecoveryIdle, CliIdle, Stopped
  <1>. QED
    BY <1>1, TypeStep, PTL DEF Spec

-----------------------------------------------------------------------------
(* Who works on a job.                                                     *)

Holds(w, j) == step[w][j] \notin {"no", "pending"}
Owns(w, j) == step[w][j] \notin {"no", "pending", "unclaimed"}
Rest == {"blocked", "failed", "cancelled", "interrupted"}

\* the states t that the store may give a job with which a window is at s; a
\* Planned job may be cancelled, and requeued, while its only window holds it
Fits(s, t) ==
    /\ s = "claimed" => t = "inspecting"
    /\ s = "planned" => t = "planned" \/ ("cancel" \in Commands /\ t \in Rest \cup {"queued"})
    /\ s \notin {"no", "pending", "unclaimed", "claimed", "planned"} => t \in {"running", "validating"}

OnlyRunning == \A w \in Windows, j \in Jobs : Holds(w, j) => Running(w)
\* a claim that failed has ended its window's loop
ClaimErrors ==
    \A w \in Windows, j \in Jobs : step[w][j] = "unclaimed" => pc[w] \in {"abort", "settle"}
RecoveryAlone == recovery # RecoveryIdle => \A w \in Windows : ~Running(w)
WorkFits == \A w \in Windows, j \in Jobs \ robbed : Fits(step[w][j], state[j])
OneWindow == \A v, w \in Windows, j \in Jobs \ robbed : Owns(v, j) /\ Owns(w, j) => v = w
\* a CLI command between its steps: nothing happened to its job since
CommandHolds ==
    cli # CliIdle =>
        /\ "cli" \in Surfaces
        /\ cli.job \in Jobs /\ cli.target = "queued"
        /\ cli.job \notin robbed =>
               /\ state[cli.job] \in Rest
               /\ cli.phase = "cleaned" => staged[cli.job] = NoFile

Ownership ==
    /\ OnlyRunning /\ ClaimErrors /\ RecoveryAlone
    /\ WorkFits /\ OneWindow /\ CommandHolds

\* what a window does with a job that it claimed
JobStep(w, j) ==
    /\ Owns(w, j)
    /\ \A v \in Windows, k \in Jobs : v # w \/ k # j => step'[v][k] = step[v][k]
    /\ \A k \in Jobs : k # j => state'[k] = state[k] /\ staged'[k] = staged[k]
    /\ \/ step'[w][j] = "no"
       \/ Owns(w, j)' /\ (j \notin robbed => Fits(step'[w][j], state'[j]))
    /\ \A v \in Windows : Running(v)' <=> Running(v)
    /\ \A v \in Windows : pc'[v] = pc[v] \/ pc[v] = "select"
    /\ UNCHANGED <<robbed, others>>

LEMMA JobStepKeeps ==
    ASSUME Calm, Ownership, NEW w \in Windows, NEW j \in Jobs, JobStep(w, j)
    PROVE  Ownership'
  <1>0. \A v \in Windows, k \in Jobs :
            (Holds(v, k)' => Holds(v, k)) /\ (Owns(v, k)' => Owns(v, k))
    BY DEF JobStep, Holds, Owns
  <1>1. OnlyRunning'
    BY <1>0 DEF JobStep, Ownership, OnlyRunning
  <1>6. ClaimErrors'
    BY DEF JobStep, Ownership, ClaimErrors, Owns
  <1>2. RecoveryAlone'
    BY DEF JobStep, Ownership, RecoveryAlone, others
  <1>3. WorkFits'
    <2>. SUFFICES ASSUME NEW v \in Windows, NEW k \in Jobs, k \notin robbed'
                  PROVE  Fits(step'[v][k], state'[k])
      BY DEF WorkFits
    <2>0. k \notin robbed
      BY DEF JobStep
    <2>1. CASE k # j
      BY <2>0, <2>1 DEF JobStep, Ownership, WorkFits
    <2>2. CASE k = j /\ v # w
      <3>1. ~Owns(v, k)
        BY <2>0, <2>2 DEF JobStep, Ownership, OneWindow
      <3>. QED
        BY <2>2, <3>1 DEF JobStep, Owns, Fits
    <2>3. CASE k = j /\ v = w
      BY <2>0, <2>3 DEF JobStep, Fits
    <2>. QED
      BY <2>1, <2>2, <2>3
  <1>4. OneWindow'
    BY <1>0 DEF JobStep, Ownership, OneWindow
  <1>5. CommandHolds'
    <2>1. cli # CliIdle /\ cli.job \notin robbed => cli.job # j
      BY DEF JobStep, Ownership, WorkFits, Fits, Owns, CommandHolds, Rest, Calm
    <2>. QED
      BY <2>1 DEF JobStep, Ownership, CommandHolds, others
  <1>. QED
    BY <1>1, <1>2, <1>3, <1>4, <1>5, <1>6 DEF Ownership

\* the steps of Loop, Worker and Engine that are JobSteps
Preparing(w, j) == PrepareRejects(w, j) \/ PreparePlans(w, j) \/ PrepareStarts(w, j)
Applying(w, j) ==
    JoinOk(w, j) \/ OutcomeMarks(w, j) \/ OutcomeCompletes(w, j) \/ OutcomeStops(w, j)
Executing(w, j) == Worker(w, j) \/ Engine(w, j) \/ WorkerPanics(w, j)

LEMMA PreparingIsJobStep ==
    ASSUME TypeOK, WorkFits, NEW w \in Windows, NEW j \in Jobs, Preparing(w, j)
    PROVE  JobStep(w, j)
  <1>1. CASE PrepareRejects(w, j)
    BY <1>1, Names, Going, Moving
    DEF JobStep, Owns, TypeOK, PrepareRejects, At, Running, files, others
  <1>2. CASE PreparePlans(w, j)
    BY <1>2, Names, Going, Moving
    DEF JobStep, Owns, Fits, TypeOK, PreparePlans, At, Running, files, others
  <1>3. CASE PrepareStarts(w, j)
    BY <1>3, Names, Going, Moving
    DEF JobStep, Owns, Fits, TypeOK, PrepareStarts, At, Running, files, others
  <1>. QED
    BY <1>1, <1>2, <1>3 DEF Preparing

LEMMA ApplyingIsJobStep ==
    ASSUME TypeOK, WorkFits, NEW w \in Windows, NEW j \in Jobs, Applying(w, j)
    PROVE  JobStep(w, j)
  <1>0. j \notin robbed => Fits(step[w][j], state[j])
    BY DEF WorkFits
  <1>1. CASE JoinOk(w, j)
    BY <1>0, <1>1, Names, Going
    DEF JobStep, Owns, Fits, TypeOK, JoinOk, At, Running, others
  <1>2. CASE OutcomeMarks(w, j)
    BY <1>0, <1>2, Names, Going, Marking
    DEF JobStep, Owns, Fits, TypeOK, OutcomeMarks, At, Running, files, others
  <1>3. CASE OutcomeCompletes(w, j)
    BY <1>3, Names, Going, Moving
    DEF JobStep, Owns, TypeOK, OutcomeCompletes, At, NextPass, Running, Stopped, files, others
  <1>4. CASE OutcomeStops(w, j)
    <2>1. StopState(w, j) \in JobState
      BY Names DEF StopState
    <2>2. \A k \in Jobs : k # j => state'[k] = state[k]
      BY <1>4, <2>1, Moving DEF OutcomeStops, TypeOK
    <2>3. /\ step'[w][j] = "no"
          /\ \A v \in Windows, k \in Jobs : v # w \/ k # j => step'[v][k] = step[v][k]
      BY <1>4, Names, Going DEF OutcomeStops, TypeOK
    <2>. QED
      BY <1>4, <2>2, <2>3
      DEF JobStep, Owns, TypeOK, OutcomeStops, AtSelect, NextPass, Running, Stopped,
          files, others
  <1>. QED
    BY <1>1, <1>2, <1>3, <1>4 DEF Applying

LEMMA SettlingIsJobStep ==
    ASSUME TypeOK, NEW w \in Windows, NEW j \in Jobs, AbortSettles(w, j), ~At(w, j, "unclaimed")
    PROVE  /\ JobStep(w, j) /\ step'[w][j] = "no"
           /\ state'[j] \in {state[j], SettledState(state[j])}
  BY Names, Going, Moving, Settling
  DEF JobStep, Owns, TypeOK, AbortSettles, Robs, Robbing, At, ActiveJobs, Running, files, others

\* the settling of a job that the window never claimed: what changes the job
\* of an owner robs it
Disowns(w, j) ==
    /\ pc[w] = "settle" /\ step[w][j] = "unclaimed" /\ step'[w][j] = "no"
    /\ \A v \in Windows, k \in Jobs : v # w \/ k # j => step'[v][k] = step[v][k]
    /\ \A k \in Jobs : k # j => state'[k] = state[k]
    /\ \/ state'[j] = state[j] /\ robbed' = robbed
       \/ /\ state[j] \in Active /\ state'[j] \in {"interrupted", "failed"}
          /\ \/ robbed' = robbed \cup {j}
             \/ robbed' = robbed /\ \A v \in Windows : ~Owns(v, j)
    /\ UNCHANGED <<pc, files, others>>

LEMMA SettlingDisowns ==
    ASSUME TypeOK, NEW w \in Windows, NEW j \in Jobs, AbortSettles(w, j), At(w, j, "unclaimed")
    PROVE  Disowns(w, j)
  <1>1. /\ pc[w] = "settle" /\ step[w][j] = "unclaimed" /\ step'[w][j] = "no"
        /\ \A v \in Windows, k \in Jobs : v # w \/ k # j => step'[v][k] = step[v][k]
        /\ UNCHANGED <<pc, files, others>>
    BY Names, Going DEF AbortSettles, At, TypeOK
  <1>2. (\E v \in Windows : j \in Owned(v)) <=> \E v \in Windows : Owns(v, j)
    BY DEF Owned, ActiveJobs, Owns
  <1>3. CASE UNCHANGED <<state, robbed>>
    BY <1>1, <1>3 DEF Disowns
  <1>4. CASE Move(j, SettledState(state[j])) /\ Robs(w, j)
    <2>1. /\ state'[j] = SettledState(state[j])
          /\ \A k \in Jobs : k # j => state'[k] = state[k]
      BY <1>4, Moving, Settling DEF TypeOK
    <2>2. CASE state[j] \in Active
      <3>1. state'[j] \in {"interrupted", "failed"}
        BY <2>1, <2>2 DEF SettledState, Active
      <3>2. \/ robbed' = robbed \cup {j}
            \/ robbed' = robbed /\ \A v \in Windows : ~Owns(v, j)
        BY <1>1, <1>2, <1>4, <2>2 DEF Robs, Robbing, At
      <3>. QED
        BY <1>1, <2>1, <2>2, <3>1, <3>2 DEF Disowns
    <2>3. CASE state[j] \notin Active
      <3>1. state'[j] = state[j]
        BY <2>1, <2>3 DEF SettledState, Active
      <3>2. robbed' = robbed
        BY <1>4, <2>3 DEF Robs, Robbing
      <3>. QED
        BY <1>1, <2>1, <3>1, <3>2 DEF Disowns
    <2>. QED
      BY <2>2, <2>3
  <1>. QED
    BY <1>3, <1>4 DEF AbortSettles

LEMMA DisowningKeeps ==
    ASSUME Calm, TypeOK, Ownership, NEW w \in Windows, NEW j \in Jobs, Disowns(w, j)
    PROVE  Ownership'
  <1>0. /\ robbed \subseteq robbed'
        /\ \A v \in Windows, k \in Jobs :
               (Holds(v, k)' => Holds(v, k)) /\ (Owns(v, k)' <=> Owns(v, k))
    BY DEF Disowns, Holds, Owns
  <1>5. ClaimErrors'
    BY DEF Disowns, Ownership, ClaimErrors
  <1>1. OnlyRunning' /\ RecoveryAlone'
    BY <1>0 DEF Disowns, Ownership, OnlyRunning, RecoveryAlone, Running, others
  <1>2. OneWindow'
    BY <1>0 DEF Ownership, OneWindow
  <1>3. WorkFits'
    <2>. SUFFICES ASSUME NEW v \in Windows, NEW k \in Jobs, k \notin robbed'
                  PROVE  Fits(step'[v][k], state'[k])
      BY DEF WorkFits
    <2>1. CASE state'[k] = state[k]
      BY <1>0, <2>1 DEF Disowns, Ownership, WorkFits, Fits
    <2>2. CASE state'[k] # state[k]
      BY <1>0, <2>2 DEF Disowns, Owns, Fits
    <2>. QED
      BY <2>1, <2>2
  <1>4. CommandHolds'
    BY <1>0 DEF Disowns, Ownership, CommandHolds, Rest, Active, files, others
  <1>. QED
    BY <1>1, <1>2, <1>3, <1>4, <1>5 DEF Ownership

LEMMA ExecutingIsJobStep ==
    ASSUME TypeOK, WorkFits, NEW w \in Windows, NEW j \in Jobs, Executing(w, j)
    PROVE  JobStep(w, j) /\ UNCHANGED state /\ Owns(w, j)'
  <1>0. j \notin robbed => Fits(step[w][j], state[j])
    BY DEF WorkFits
  <1>1. CASE EngineStarts(w, j)
    BY <1>0, <1>1, Names, Going
    DEF JobStep, Owns, Fits, TypeOK, EngineStarts, At, Running, others
  <1>2. CASE EngineFinishes(w, j) \/ Validates(w, j)
    BY <1>0, <1>2, Names, Going, EngineTypes
    DEF JobStep, Owns, Fits, TypeOK, EngineFinishes, Validates, At, Running, others
  <1>3. CASE EngineCancelled(w, j) \/ EngineFails(w, j)
    BY <1>0, <1>3, Names, Going, Removing
    DEF JobStep, Owns, Fits, TypeOK, EngineCancelled, EngineFails, At, AnyFile, Running, others
  <1>4. CASE DestinationClear(w, j)
    BY <1>0, <1>4, Names, Going
    DEF JobStep, Owns, Fits, TypeOK, DestinationClear, At, Running, files, others
  <1>5. CASE Publish(w, j)
    BY <1>0, <1>5, Names, Going, Removing
    DEF JobStep, Owns, Fits, TypeOK, Publish, At, AnyFile, Running, others
  <1>6. CASE WorkerFails(w, j)
    BY <1>0, <1>6, Names, Going, Removing
    DEF JobStep, Owns, Fits, TypeOK, WorkerFails, At, AnyFile, Running, others
  <1>7. CASE WorkerPanics(w, j)
    BY <1>0, <1>7, Names, Going
    DEF JobStep, Owns, Fits, TypeOK, WorkerPanics, Working, At, Running, files, others
  <1>. QED
    BY <1>1, <1>2, <1>3, <1>4, <1>5, <1>6, <1>7 DEF Executing, Worker, Engine

\* what happens to a window as a whole
Opening(w) == OpenWindow(w)
Turning(w) ==
    \/ PauseFinishCurrent(w) \/ PauseImmediate(w)
    \/ LeaveAdmission(w) \/ AbortDrains(w) \/ ControlPlaneFails(w)
Leaving(w) == Finish(w) \/ AbortReturns(w) \/ Crash(w)

\* a job at rest is held by nobody, or by its only window, which does not know
LEMMA RestingFits ==
    ASSUME Ownership, NEW j \in Jobs \ robbed, state[j] \in Rest \cup {"queued"}
    PROVE  \A w \in Windows : Owns(w, j) => At(w, j, "planned") /\ "cancel" \in Commands
  BY DEF Ownership, WorkFits, Fits, Owns, Rest, At

LEMMA ClaimKeeps ==
    ASSUME Calm, TypeOK, Ownership, NEW w \in Windows, NEW j \in Jobs, Claim(w, j)
    PROVE  Ownership'
  <1>1. CASE state[j] = "queued"
    <2>1. /\ state'[j] = "inspecting" /\ step'[w][j] = "claimed"
          /\ \A k \in Jobs : k # j => state'[k] = state[k]
          /\ \A v \in Windows, k \in Jobs : v # w \/ k # j => step'[v][k] = step[v][k]
      BY <1>1, Names, Going, Moving DEF TypeOK, Claim, JobState
    <2>2. /\ pc[w] = "admit" /\ At(w, j, "pending")
          /\ UNCHANGED <<pc, staged, robbed, recovery, cli>>
      BY DEF Claim, CanAdmit, files, others
    <2>3. j \notin robbed => \A v \in Windows : ~Owns(v, j)
      BY <1>1, <2>2, RestingFits DEF Calm, Alone, At, Owns
    <2>4. OnlyRunning'
      BY <2>1, <2>2 DEF Ownership, OnlyRunning, Holds, Running, Stopped
    <2>5. WorkFits'
      BY <2>1, <2>2, <2>3 DEF Ownership, WorkFits, Owns, Fits
    <2>6. OneWindow'
      BY <2>1, <2>2, <2>3 DEF Ownership, OneWindow, Owns
    <2>7. CommandHolds'
      BY <1>1, <2>1, <2>2 DEF Ownership, CommandHolds, Rest
    <2>8. ClaimErrors'
      BY <2>1, <2>2 DEF Ownership, ClaimErrors
    <2>. QED
      BY <2>2, <2>4, <2>5, <2>6, <2>7, <2>8 DEF Ownership, RecoveryAlone, Running
  <1>2. CASE state[j] # "queued"
    <2>1. /\ step'[w][j] = "no"
          /\ \A v \in Windows, k \in Jobs : v # w \/ k # j => step'[v][k] = step[v][k]
      BY <1>2, Names, Going DEF TypeOK, Claim
    <2>2. UNCHANGED <<state, pc, staged, robbed, recovery, cli>>
      BY <1>2 DEF Claim, files, others
    <2>3. \A v \in Windows, k \in Jobs :
              (Holds(v, k)' => Holds(v, k)) /\ (Owns(v, k)' => Owns(v, k))
      BY <2>1 DEF Holds, Owns
    <2>4. WorkFits'
      BY <2>1, <2>2 DEF Ownership, WorkFits, Fits
    <2>5. ClaimErrors'
      BY <2>1, <2>2 DEF Ownership, ClaimErrors
    <2>. QED
      BY <2>2, <2>3, <2>4, <2>5
      DEF Ownership, OnlyRunning, RecoveryAlone, OneWindow, CommandHolds, Running
  <1>. QED
    BY <1>1, <1>2

LEMMA ClaimErrsKeeps ==
    ASSUME TypeOK, Ownership, NEW w \in Windows, NEW j \in Jobs, ClaimErrs(w, j)
    PROVE  Ownership'
  <1>1. /\ step[w][j] = "pending" /\ step'[w][j] = "unclaimed"
        /\ \A v \in Windows, k \in Jobs : v # w \/ k # j => step'[v][k] = step[v][k]
    BY Names, Going DEF ClaimErrs, At, TypeOK
  <1>2. UNCHANGED <<state, staged, robbed, recovery, cli>>
    BY DEF ClaimErrs, files, others
  <1>3. Running(w) /\ \A v \in Windows : Running(v)' <=> Running(v)
    BY DEF ClaimErrs, CanAdmit, TypeOK, Running, Stopped
  <1>4. \A v \in Windows, k \in Jobs : Owns(v, k)' <=> Owns(v, k)
    BY <1>1 DEF Owns
  <1>5. OnlyRunning' /\ RecoveryAlone' /\ OneWindow'
    BY <1>1, <1>2, <1>3, <1>4 DEF Ownership, OnlyRunning, RecoveryAlone, OneWindow, Holds
  <1>6. WorkFits' /\ CommandHolds'
    BY <1>1, <1>2 DEF Ownership, WorkFits, Fits, CommandHolds
  <1>7. ClaimErrors'
    <2>1. pc'[w] = "abort" /\ \A v \in Windows : v # w => pc'[v] = pc[v]
      BY DEF ClaimErrs, TypeOK
    <2>. QED
      BY <1>1, <2>1 DEF Ownership, ClaimErrors
  <1>. QED
    BY <1>5, <1>6, <1>7 DEF Ownership

LEMMA MilestoneKeeps ==
    ASSUME Ownership, TypeOK, NEW w \in Windows, NEW j \in Jobs, TakeMilestone(w, j)
    PROVE  Ownership'
  <1>1. \A k \in Jobs : state'[k] = state[k] \/ (state[k] = "running" /\ state'[k] = "validating")
    BY Marking DEF TakeMilestone, TypeOK
  <1>2. /\ UNCHANGED <<step, staged, robbed, recovery, cli>>
        /\ \A v \in Windows : Running(v)' <=> Running(v)
    BY DEF TakeMilestone, AtSelect, NextPass, TypeOK, Running, Stopped, files, others
  <1>3. WorkFits'
    BY <1>1, <1>2 DEF Ownership, WorkFits, Fits, Rest
  <1>4. CommandHolds'
    BY <1>1, <1>2 DEF Ownership, CommandHolds, Rest
  <1>5. ClaimErrors'
    BY <1>2 DEF TakeMilestone, AtSelect, NextPass, Ownership, ClaimErrors, TypeOK
  <1>. QED
    BY <1>2, <1>3, <1>4, <1>5 DEF Ownership, OnlyRunning, RecoveryAlone, OneWindow, Holds, Owns

LEMMA WindowKeeps ==
    ASSUME Calm, TypeOK, Ownership, NEW w \in Windows, Opening(w) \/ Turning(w) \/ Leaving(w)
    PROVE  Ownership'
  <1>1. CASE Opening(w)
    <2>1. /\ \A j \in Jobs : ~Holds(w, j)'
          /\ \A v \in Windows : v # w => step'[v] = step[v] /\ pc'[v] = pc[v]
          /\ pc'[w] = "admit" /\ recovery = RecoveryIdle /\ UNCHANGED <<state, staged, robbed, others>>
      BY <1>1 DEF Opening, OpenWindow, Calm, TypeOK, Holds, files
    <2>2. \A v \in Windows, j \in Jobs :
              /\ Holds(v, j)' => v # w /\ Holds(v, j)
              /\ Owns(v, j)' => v # w /\ Owns(v, j)
      BY <2>1 DEF Holds, Owns
    <2>3. WorkFits'
      BY <2>1 DEF Ownership, WorkFits, Fits, Holds
    <2>4. ClaimErrors'
      BY <2>1 DEF Ownership, ClaimErrors, Holds
    <2>. QED
      BY <2>1, <2>2, <2>3, <2>4
      DEF Ownership, OnlyRunning, RecoveryAlone, OneWindow, CommandHolds, Running, others
  <1>2. CASE Turning(w)
    <2>1. UNCHANGED <<state, step, staged, robbed, others>>
      BY <1>2 DEF Turning, PauseFinishCurrent, PauseImmediate, LeaveAdmission, AbortDrains,
                  ControlPlaneFails, files
    <2>2. \A v \in Windows : Running(v)' <=> Running(v)
      BY <1>2 DEF Turning, PauseFinishCurrent, PauseImmediate, LeaveAdmission, AbortDrains,
                  ControlPlaneFails, AtCall, CanAdmit, AtSelect, TypeOK, Running, Stopped
    <2>3. ClaimErrors'
      <3>1. \A v \in Windows : pc[v] \in {"abort", "settle"} => pc'[v] \in {"abort", "settle"}
        BY <1>2 DEF Turning, PauseFinishCurrent, PauseImmediate, LeaveAdmission, AbortDrains,
                    ControlPlaneFails, TypeOK
      <3>. QED
        BY <2>1, <3>1 DEF Ownership, ClaimErrors
    <2>. QED
      BY <2>1, <2>2, <2>3 DEF Ownership, OnlyRunning, RecoveryAlone, WorkFits, OneWindow,
                        CommandHolds, Holds, Owns, others
  <1>3. CASE Leaving(w)
    <2>1. /\ \A j \in Jobs : step'[w][j] = "no"
          /\ \A v \in Windows : v # w => step'[v] = step[v] /\ pc'[v] = pc[v]
          /\ pc'[w] \in Stopped /\ UNCHANGED <<state, staged, robbed, others>>
      BY <1>3, Ending DEF Leaving, Finish, AbortReturns, Crash, Stopped, files
    <2>2. \A v \in Windows, j \in Jobs :
              /\ Holds(v, j)' => v # w /\ Holds(v, j)
              /\ Owns(v, j)' => v # w /\ Owns(v, j)
      BY <2>1 DEF Holds, Owns
    <2>3. WorkFits'
      BY <2>1 DEF Ownership, WorkFits, Fits
    <2>4. ClaimErrors'
      BY <2>1 DEF Ownership, ClaimErrors
    <2>. QED
      BY <2>1, <2>2, <2>3, <2>4
      DEF Ownership, OnlyRunning, RecoveryAlone, OneWindow, CommandHolds, Running, others
  <1>. QED
    BY <1>1, <1>2, <1>3

LEMMA RecoveryKeeps ==
    ASSUME Calm, TypeOK, Ownership, Recover
    PROVE  Ownership'
  <1>1. \A w \in Windows : ~Running(w) /\ \A j \in Jobs : ~Holds(w, j)
    <2>1. CASE RecoveryBegins
      BY <2>1 DEF RecoveryBegins, Ownership, OnlyRunning, Calm
    <2>2. CASE ~RecoveryBegins
      <3>1. recovery.phase # "idle"
        BY <2>2 DEF Recover, RecoveryTurnsToFiles, RecoveryReturns, RecoveryStops,
                    RecoveryInterrupts, RecoveryCleans
      <3>. QED
        BY <3>1 DEF RecoveryIdle, Ownership, OnlyRunning, RecoveryAlone
    <2>. QED
      BY <2>1, <2>2
  <1>2. UNCHANGED <<pc, step, robbed, cli>>
    BY DEF Recover, RecoveryBegins, RecoveryTurnsToFiles, RecoveryReturns, RecoveryStops,
           RecoveryInterrupts, RecoveryCleans, window
  <1>3. \A w \in Windows : ~Running(w)' /\ \A j \in Jobs : ~Holds(w, j)'
    BY <1>1, <1>2 DEF Running, Holds
  <1>4. WorkFits'
    BY <1>3 DEF WorkFits, Fits, Holds
  <1>5. CommandHolds'
    <2>1. \A j \in Jobs : state'[j] = state[j] \/ state'[j] = "interrupted"
      BY Names, Moving DEF Recover, RecoveryBegins, RecoveryTurnsToFiles, RecoveryReturns,
             RecoveryStops, RecoveryInterrupts, RecoveryCleans, TypeOK, files
    <2>2. \A j \in Jobs : staged'[j] = staged[j] \/ staged'[j] = NoFile
      BY Removing DEF Recover, RecoveryBegins, RecoveryTurnsToFiles, RecoveryReturns,
             RecoveryStops, RecoveryInterrupts, RecoveryCleans, TypeOK, AnyFile, files
    <2>. QED
      BY <1>2, <2>1, <2>2 DEF Ownership, CommandHolds, Rest
  <1>6. OnlyRunning' /\ RecoveryAlone' /\ OneWindow'
    BY <1>3 DEF OnlyRunning, RecoveryAlone, OneWindow, Holds, Owns
  <1>7. ClaimErrors'
    BY <1>2 DEF Ownership, ClaimErrors
  <1>. QED
    BY <1>4, <1>5, <1>6, <1>7 DEF Ownership

LEMMA UsersKeep ==
    ASSUME Calm, TypeOK, Ownership, Users
    PROVE  Ownership'
  <1>0. UNCHANGED <<pc, step, robbed, recovery>>
    BY DEF Users, CliCleans, CliTransitions, CleanupStaging, DesktopRequeues,
           ForeignFileAppears, BulkActs, CliChecks, window, others
  <1>1. SUFFICES WorkFits' /\ CommandHolds'
    BY <1>0 DEF Ownership, OnlyRunning, ClaimErrors, RecoveryAlone, OneWindow, Running, Holds,
                Owns
  <1>2. CASE CliCleans
    <2>1. cli # CliIdle /\ cli.job \in Jobs /\ UNCHANGED state
      BY <1>2 DEF CliCleans, CliIdle, Ownership, CommandHolds
    <2>2. cli \in [phase : {"checked", "cleaned"}, job : Jobs, target : JobState]
      BY <2>1 DEF TypeOK
    <2>3. cli'.job = cli.job /\ cli'.target = cli.target
      BY <1>2, <2>2 DEF CliCleans
    <2>4. staged'[cli.job] = NoFile
      BY <1>2, <2>1, Removing DEF CliCleans, TypeOK, AnyFile
    <2>. QED
      BY <1>0, <2>1, <2>3, <2>4 DEF Ownership, WorkFits, CommandHolds
  <1>3. CASE CliTransitions
    <2>1. cli # CliIdle /\ cli' = CliIdle
      BY <1>3 DEF CliTransitions, CliIdle
    <2>2. /\ cli.job \in Jobs /\ cli.target = "queued" /\ "cancel" \notin Commands
          /\ cli.job \notin robbed => state[cli.job] \in Rest
      BY <2>1 DEF Ownership, CommandHolds, Calm
    <2>3. cli.job \notin robbed => \A w \in Windows : ~Owns(w, cli.job)
      BY <2>2, RestingFits
    <2>4. \A j \in Jobs : j # cli.job => state'[j] = state[j]
      BY <1>3, <2>2, Names, Moving DEF CliTransitions, TypeOK
    <2>5. WorkFits'
      BY <1>0, <2>3, <2>4 DEF Ownership, WorkFits, Fits, Owns
    <2>. QED
      BY <2>1, <2>5 DEF CommandHolds
  <1>4. ASSUME NEW j \in Jobs, CleanupStaging(j) \/ ForeignFileAppears(j)
        PROVE  WorkFits' /\ CommandHolds'
    <2>1. UNCHANGED <<state, cli>>
      BY <1>4 DEF CleanupStaging, ForeignFileAppears, others
    <2>2. \A k \in Jobs : staged'[k] = staged[k] \/ staged'[k] = NoFile
      BY <1>4, Removing DEF CleanupStaging, ForeignFileAppears, TypeOK, AnyFile
    <2>. QED
      BY <1>0, <2>1, <2>2 DEF Ownership, WorkFits, CommandHolds
  <1>5. ASSUME NEW j \in Jobs, DesktopRequeues(j) PROVE WorkFits' /\ CommandHolds'
    <2>1. state[j] \in Rest /\ cli = CliIdle /\ cli' = CliIdle
      BY <1>5 DEF DesktopRequeues, MayCommand, Calm, Rest, others
    <2>2. state'[j] = "queued" /\ \A k \in Jobs : k # j => state'[k] = state[k]
      BY <1>5, Names, Moving DEF DesktopRequeues, TypeOK
    <2>3. WorkFits'
      BY <1>0, <2>1, <2>2, RestingFits DEF Ownership, WorkFits, Fits, Owns, At
    <2>. QED
      BY <2>1, <2>3 DEF CommandHolds
  <1>6. ASSUME NEW j \in Jobs, NEW action \in Commands, BulkActs(j, action)
        PROVE  WorkFits' /\ CommandHolds'
    <2>1. cli = CliIdle /\ cli' = CliIdle
      BY <1>6 DEF BulkActs, MayCommand, Calm, others
    <2>2. /\ state'[j] = BulkTarget(action)
          /\ \A k \in Jobs : k # j => state'[k] = state[k]
      BY <1>6, Names, Moving DEF BulkActs, BulkTarget, TypeOK
    <2>3. j \notin robbed =>
              \A w \in Windows : Owns(w, j) => At(w, j, "planned") /\ "cancel" \in Commands
      <3>1. CASE state[j] \in Rest \cup {"queued"}
        BY <3>1, RestingFits
      <3>2. CASE state[j] = "planned" /\ action = "cancel"
        BY <3>2 DEF Ownership, WorkFits, Fits, Owns, At
      <3>. QED
        BY <1>6, <3>1, <3>2 DEF BulkActs, BulkEligible, Rest
    <2>4. WorkFits'
      BY <1>0, <2>2, <2>3 DEF Ownership, WorkFits, Fits, Owns, At, BulkTarget, Rest
    <2>. QED
      BY <2>1, <2>4 DEF CommandHolds
  <1>7. ASSUME NEW j \in Jobs, NEW action \in Commands, CliChecks(j, action)
        PROVE  WorkFits' /\ CommandHolds'
    <2>1. action # "cancel" /\ "cli" \in Surfaces /\ UNCHANGED state
      BY <1>7 DEF CliChecks, Calm
    <2>2. state[j] \in Rest
      BY <1>7, <2>1 DEF CliChecks, BulkEligible, Rest
    <2>3. cli' = [phase |-> "checked", job |-> j, target |-> "queued"]
      BY <1>7, <2>1 DEF CliChecks, BulkTarget
    <2>. QED
      BY <1>0, <2>1, <2>2, <2>3 DEF Ownership, WorkFits, CommandHolds
  <1>. QED
    BY <1>2, <1>3, <1>4, <1>5, <1>6, <1>7 DEF Users

\* Next, seen as steps of windows, jobs, recovery and users
LEMMA Steps ==
    ASSUME Next
    PROVE  \/ \E w \in Windows :
                \/ Opening(w) \/ Turning(w) \/ Leaving(w)
                \/ \E j \in Jobs :
                    \/ Claim(w, j) \/ ClaimErrs(w, j) \/ TakeMilestone(w, j)
                    \/ Preparing(w, j) \/ Applying(w, j) \/ Executing(w, j)
                    \/ AbortSettles(w, j)
           \/ Recover \/ Users
  BY DEF Next, Loop, Faults, Opening, Turning, Leaving, Preparing, Applying, Executing

LEMMA OwnershipStep ==
    ASSUME Calm, TypeOK, Ownership, [Next]_vars
    PROVE  Ownership'
  <1>0. WorkFits
    BY DEF Ownership
  <1>1. CASE UNCHANGED vars
    BY <1>1 DEF Ownership, OnlyRunning, ClaimErrors, RecoveryAlone, WorkFits, OneWindow, CommandHolds,
                Holds, Owns, Running, vars, files, window, others
  <1>2. CASE Next
    BY <1>0, <1>2, Steps, ClaimKeeps, ClaimErrsKeeps, MilestoneKeeps, WindowKeeps,
       RecoveryKeeps, UsersKeep, JobStepKeeps, PreparingIsJobStep, ApplyingIsJobStep,
       SettlingIsJobStep, ExecutingIsJobStep, SettlingDisowns, DisowningKeeps
  <1>. QED
    BY <1>1, <1>2

LEMMA OwnershipInit == Init => Ownership
  BY DEF Init, Ownership, OnlyRunning, ClaimErrors, RecoveryAlone, WorkFits, Fits, OneWindow, CommandHolds,
         Holds, Owns

-----------------------------------------------------------------------------
(* What is at the destination, and what the store says of it.              *)

Staging ==
    \A w \in Windows, j \in Jobs \ robbed :
        step[w][j] \in {"checked", "clear"} => staged[j] = NoFile \/ staged[j].checked
Product ==
    \A w \in Windows, j \in Jobs \ robbed :
        step[w][j] \in {"ok", "reported", "marked"} => final[j] = "valid"
ReportFirst ==
    \A w \in Windows, j \in Jobs \ robbed :
        step[w][j] \in {"reported", "marked"} => j \in reported
Clean == "desktop" \notin Surfaces => QueuedHasNoLeftover

FileInv ==
    Staging /\ Product /\ ReportFirst /\ NoFalseCompletion /\ CommitsOnlyValidated /\ Clean

\* a JobStep's part in it, while the job is not robbed
JobFiles(w, j) ==
    /\ \A k \in Jobs : k # j => final'[k] = final[k]
    /\ reported \subseteq reported'
    /\ j \notin robbed =>
        /\ final'[j] = final[j] \/ (final[j] = "none" /\ final'[j] = "valid")
        /\ step'[w][j] \in {"checked", "clear"} => staged'[j] = NoFile \/ staged'[j].checked
        /\ step'[w][j] \in {"ok", "reported", "marked"} => final'[j] = "valid"
        /\ step'[w][j] \in {"reported", "marked"} => j \in reported'
        /\ state'[j] \in {"completed", "warning"} => final'[j] = "valid" /\ j \in reported'
        /\ state'[j] = "queued" => state[j] = "queued" /\ UNCHANGED staged

\* the part of every other step
Aside ==
    /\ \A w \in Windows, j \in Jobs :
           step'[w][j] = step[w][j] \/ step'[w][j] \in {"no", "pending", "unclaimed", "claimed"}
    /\ \A j \in Jobs :
           /\ staged'[j] = staged[j] \/ staged'[j] = NoFile
           /\ final'[j] = final[j] \/ (final[j] = "none" /\ final'[j] = "foreign")
           /\ state'[j] \in {"completed", "warning"} => state'[j] = state[j]
           /\ state'[j] = "queued" /\ j \notin robbed =>
                  state[j] = "queued" \/ staged'[j] = NoFile \/ "desktop" \in Surfaces
    /\ UNCHANGED reported /\ robbed \subseteq robbed'

LEMMA JobFilesKeep ==
    ASSUME Ownership, FileInv, NEW w \in Windows, NEW j \in Jobs, JobStep(w, j), JobFiles(w, j)
    PROVE  FileInv'
  <1>0. robbed' = robbed
    BY DEF JobStep
  <1>1. j \notin robbed =>
            \A v \in Windows : v # w => step'[v][j] \in {"no", "pending", "unclaimed"}
    BY DEF JobStep, Owns, Ownership, OneWindow
  <1>2. \A v \in Windows, k \in Jobs : k # j =>
            /\ step'[v][k] = step[v][k] /\ state'[k] = state[k]
            /\ staged'[k] = staged[k] /\ final'[k] = final[k]
    BY DEF JobStep, JobFiles
  <1>3. Staging'
    BY <1>0, <1>1, <1>2 DEF FileInv, Staging, JobFiles
  <1>4. Product' /\ ReportFirst'
    BY <1>0, <1>1, <1>2 DEF FileInv, Product, ReportFirst, JobFiles
  <1>5. NoFalseCompletion'
    BY <1>0, <1>2 DEF FileInv, NoFalseCompletion, JobFiles
  <1>6. CommitsOnlyValidated'
    BY <1>0, <1>2 DEF FileInv, CommitsOnlyValidated, JobFiles
  <1>7. Clean'
    BY <1>0, <1>2 DEF FileInv, Clean, QueuedHasNoLeftover, JobFiles
  <1>. QED
    BY <1>3, <1>4, <1>5, <1>6, <1>7 DEF FileInv

LEMMA AsideKeeps ==
    ASSUME FileInv, Aside
    PROVE  FileInv'
  <1>1. Staging'
    BY DEF FileInv, Staging, Aside
  <1>2. Product' /\ ReportFirst'
    BY DEF FileInv, Product, ReportFirst, Aside
  <1>3. NoFalseCompletion' /\ CommitsOnlyValidated'
    BY DEF FileInv, NoFalseCompletion, CommitsOnlyValidated, Aside
  <1>4. Clean'
    BY DEF FileInv, Clean, QueuedHasNoLeftover, Aside
  <1>. QED
    BY <1>1, <1>2, <1>3, <1>4 DEF FileInv

LEMMA PreparingFiles ==
    ASSUME TypeOK, NEW w \in Windows, NEW j \in Jobs, Preparing(w, j)
    PROVE  JobFiles(w, j)
  BY Names, Going, Moving
  DEF Preparing, PrepareRejects, PreparePlans, PrepareStarts, JobFiles, TypeOK, files

LEMMA ApplyingFiles ==
    ASSUME TypeOK, WorkFits, FileInv, NEW w \in Windows, NEW j \in Jobs, Applying(w, j)
    PROVE  JobFiles(w, j)
  <1>0. j \notin robbed => Fits(step[w][j], state[j])
    BY DEF WorkFits
  <1>1. CASE JoinOk(w, j)
    BY <1>0, <1>1, Names, Going DEF JobFiles, TypeOK, JoinOk, At, Fits, FileInv, Product
  <1>2. CASE OutcomeMarks(w, j)
    BY <1>0, <1>2, Names, Going, Marking
    DEF JobFiles, TypeOK, OutcomeMarks, At, Fits, FileInv, Product, ReportFirst, files
  <1>3. CASE OutcomeCompletes(w, j)
    BY <1>3, Names, Going, Moving
    DEF JobFiles, TypeOK, OutcomeCompletes, At, FileInv, Product, ReportFirst, files
  <1>4. CASE OutcomeStops(w, j)
    <2>1. StopState(w, j) \in {"failed", "interrupted", "cancelled"}
      BY DEF StopState
    <2>2. state'[j] = StopState(w, j) /\ step'[w][j] = "no"
      BY <1>4, <2>1, Names, Going, Moving DEF OutcomeStops, TypeOK
    <2>. QED
      BY <1>4, <2>1, <2>2 DEF JobFiles, OutcomeStops, files
  <1>. QED
    BY <1>1, <1>2, <1>3, <1>4 DEF Applying

LEMMA SettlingFiles ==
    ASSUME TypeOK, WorkFits, NEW w \in Windows, NEW j \in Jobs, AbortSettles(w, j),
           ~At(w, j, "unclaimed")
    PROVE  JobFiles(w, j)
  <1>1. step'[w][j] = "no" /\ state'[j] \in {state[j], SettledState(state[j])}
    BY SettlingIsJobStep
  <1>2. j \notin robbed => state[j] \notin {"completed", "warning"}
    BY DEF AbortSettles, ActiveJobs, At, WorkFits, Fits, Rest
  <1>3. UNCHANGED <<staged, final, reported>>
    BY DEF AbortSettles, files
  <1>. QED
    BY <1>1, <1>2, <1>3 DEF JobFiles, SettledState

LEMMA ExecutingFiles ==
    ASSUME TypeOK, WorkFits, FileInv, NEW w \in Windows, NEW j \in Jobs, Executing(w, j)
    PROVE  JobFiles(w, j)
  <1>0. /\ UNCHANGED state /\ UNCHANGED reported
        /\ j \notin robbed => state[j] \notin {"completed", "warning", "queued"}
    <2>1. step[w][j] \in Working
      BY DEF Executing, Worker, Engine, EngineStarts, EngineCancelled, Validates,
             DestinationClear, Publish, WorkerFails, EngineFinishes, EngineFails,
             WorkerPanics, At, Working
    <2>2. j \notin robbed => state[j] \in {"running", "validating"}
      BY <2>1 DEF WorkFits, Fits, Working
    <2>. QED
      BY <2>2 DEF Executing, Worker, Engine, EngineStarts, EngineCancelled, Validates,
             DestinationClear, Publish, WorkerFails, EngineFinishes, EngineFails,
             WorkerPanics, files
  <1>1. CASE EngineStarts(w, j)
    BY <1>0, <1>1, Names, Going DEF JobFiles, TypeOK, EngineStarts
  <1>2. CASE EngineFinishes(w, j)
    BY <1>0, <1>2, Names, Going DEF JobFiles, TypeOK, EngineFinishes
  <1>3. CASE Validates(w, j)
    BY <1>0, <1>3, Names, Going, EngineTypes DEF JobFiles, TypeOK, Validates
  <1>4. CASE EngineCancelled(w, j) \/ EngineFails(w, j) \/ WorkerFails(w, j)
    BY <1>0, <1>4, Names, Going
    DEF JobFiles, TypeOK, EngineCancelled, EngineFails, WorkerFails
  <1>5. CASE DestinationClear(w, j)
    BY <1>0, <1>5, Names, Going
    DEF JobFiles, TypeOK, DestinationClear, At, FileInv, Staging, files
  <1>6. CASE Publish(w, j)
    <2>1. j \notin robbed => staged[j].checked
      BY <1>6 DEF Publish, At, FileInv, Staging
    <2>2. /\ j \notin robbed => final'[j] = "valid"
          /\ final[j] = "none" /\ \A k \in Jobs : k # j => final'[k] = final[k]
      BY <1>6, <2>1 DEF Publish, TypeOK
    <2>3. step'[w][j] = "ok"
      BY <1>6, Names, Going DEF Publish, TypeOK
    <2>. QED
      BY <1>0, <2>2, <2>3 DEF JobFiles
  <1>7. CASE WorkerPanics(w, j)
    BY <1>0, <1>7, Names, Going DEF JobFiles, TypeOK, WorkerPanics, files
  <1>. QED
    BY <1>1, <1>2, <1>3, <1>4, <1>5, <1>6, <1>7 DEF Executing, Worker, Engine

LEMMA WindowAside ==
    ASSUME TypeOK, NEW w \in Windows,
           \/ Opening(w) \/ Turning(w) \/ Leaving(w)
           \/ \E j \in Jobs : \/ Claim(w, j) \/ ClaimErrs(w, j) \/ TakeMilestone(w, j)
                              \/ Disowns(w, j)
    PROVE  Aside
  <1>1. CASE Opening(w)
    BY <1>1 DEF Opening, OpenWindow, Aside, TypeOK, files
  <1>2. CASE Turning(w)
    BY <1>2 DEF Turning, PauseFinishCurrent, PauseImmediate, LeaveAdmission, AbortDrains,
                ControlPlaneFails, Aside, files
  <1>3. CASE Leaving(w)
    <2>1. UNCHANGED <<state, files, robbed>>
      BY <1>3 DEF Leaving, Finish, AbortReturns, Crash
    <2>2. /\ \A j \in Jobs : step'[w][j] = "no"
          /\ \A v \in Windows : v # w => step'[v] = step[v]
      BY <1>3, Ending DEF Leaving, Finish, AbortReturns, Crash, Stopped
    <2>. QED
      BY <2>1, <2>2 DEF Aside, files
  <1>4. ASSUME NEW j \in Jobs, Claim(w, j) PROVE Aside
    BY <1>4, Names, Going, Moving DEF Claim, Aside, TypeOK, files
  <1>5. ASSUME NEW j \in Jobs, TakeMilestone(w, j) PROVE Aside
    BY <1>5, Marking DEF TakeMilestone, Aside, TypeOK, files
  <1>6. ASSUME NEW j \in Jobs, ClaimErrs(w, j) PROVE Aside
    BY <1>6, Names, Going DEF ClaimErrs, Aside, TypeOK, files
  <1>7. ASSUME NEW j \in Jobs, Disowns(w, j) PROVE Aside
    BY <1>7 DEF Disowns, Aside, files
  <1>. QED
    BY <1>1, <1>2, <1>3, <1>4, <1>5, <1>6, <1>7

LEMMA RecoveryAside ==
    ASSUME TypeOK, Recover
    PROVE  Aside
  <1>1. UNCHANGED <<step, final, reported, robbed>>
    BY DEF Recover, RecoveryBegins, RecoveryTurnsToFiles, RecoveryReturns, RecoveryStops,
           RecoveryInterrupts, RecoveryCleans, window, files
  <1>2. ASSUME NEW j \in Jobs, RecoveryInterrupts(j) PROVE Aside
    BY <1>1, <1>2, Names, Moving DEF RecoveryInterrupts, Aside, TypeOK, files
  <1>3. ASSUME NEW j \in Jobs, RecoveryCleans(j) PROVE Aside
    BY <1>1, <1>3, Removing DEF RecoveryCleans, Aside, TypeOK, AnyFile
  <1>4. ASSUME UNCHANGED <<state, staged>> PROVE Aside
    BY <1>1, <1>4 DEF Aside
  <1>. QED
    BY <1>2, <1>3, <1>4 DEF Recover, RecoveryBegins, RecoveryTurnsToFiles, RecoveryReturns,
                            RecoveryStops, files

LEMMA UsersAside ==
    ASSUME Calm, TypeOK, Ownership, Users
    PROVE  Aside
  <1>0. UNCHANGED <<step, reported, robbed>>
    BY DEF Users, CliCleans, CliTransitions, CleanupStaging, DesktopRequeues,
           ForeignFileAppears, BulkActs, CliChecks, window, files
  <1>1. CASE CliCleans
    <2>1. cli.job \in Jobs
      BY <1>1 DEF CliCleans, CliIdle, Ownership, CommandHolds
    <2>. QED
      BY <1>0, <1>1, <2>1, Removing DEF CliCleans, Aside, TypeOK, AnyFile
  <1>2. CASE CliTransitions
    <2>1. /\ cli.job \in Jobs /\ cli.target = "queued" /\ UNCHANGED <<staged, final>>
          /\ cli.job \notin robbed => staged[cli.job] = NoFile
      BY <1>2 DEF CliTransitions, CliIdle, Ownership, CommandHolds, files
    <2>2. \A j \in Jobs : state'[j] = state[j] \/ (j = cli.job /\ state'[j] = "queued")
      BY <1>2, <2>1, Names, Moving DEF CliTransitions, TypeOK
    <2>. QED
      BY <1>0, <2>1, <2>2 DEF Aside
  <1>3. ASSUME NEW j \in Jobs, CleanupStaging(j) PROVE Aside
    BY <1>0, <1>3, Removing DEF CleanupStaging, Aside, TypeOK, AnyFile
  <1>4. ASSUME NEW j \in Jobs, DesktopRequeues(j) PROVE Aside
    BY <1>0, <1>4, Names, Moving DEF DesktopRequeues, Aside, TypeOK, files
  <1>5. ASSUME NEW j \in Jobs, ForeignFileAppears(j) PROVE Aside
    BY <1>0, <1>5 DEF ForeignFileAppears, Aside, TypeOK
  <1>6. ASSUME NEW j \in Jobs, NEW action \in Commands, BulkActs(j, action) PROVE Aside
    <2>1. /\ state'[j] = BulkTarget(action)
          /\ \A k \in Jobs : k # j => state'[k] = state[k]
      BY <1>6, Names, Moving DEF BulkActs, BulkTarget, TypeOK
    <2>2. staged'[j] = NoFile /\ \A k \in Jobs : k # j => staged'[k] = staged[k]
      BY <1>6, Removing DEF BulkActs, TypeOK, AnyFile
    <2>. QED
      BY <1>0, <1>6, <2>1, <2>2 DEF BulkActs, BulkTarget, Aside
  <1>7. ASSUME NEW j \in Jobs, NEW action \in Commands, CliChecks(j, action) PROVE Aside
    BY <1>0, <1>7 DEF CliChecks, Aside, files
  <1>. QED
    BY <1>1, <1>2, <1>3, <1>4, <1>5, <1>6, <1>7 DEF Users

LEMMA FilesStep ==
    ASSUME Calm, TypeOK, Ownership, FileInv, [Next]_vars
    PROVE  FileInv'
  <1>0. WorkFits
    BY DEF Ownership
  <1>1. CASE UNCHANGED vars
    BY <1>1, AsideKeeps DEF Aside, vars, files, window
  <1>2. ASSUME NEW w \in Windows, NEW j \in Jobs,
               \/ Preparing(w, j) \/ Applying(w, j) \/ Executing(w, j)
               \/ AbortSettles(w, j) /\ ~At(w, j, "unclaimed")
        PROVE  JobStep(w, j) /\ JobFiles(w, j)
    BY <1>0, <1>2, PreparingIsJobStep, ApplyingIsJobStep, SettlingIsJobStep,
       ExecutingIsJobStep, PreparingFiles, ApplyingFiles, SettlingFiles, ExecutingFiles
  <1>3. CASE Next
    BY <1>2, <1>3, Steps, JobFilesKeep, AsideKeeps, SettlingDisowns, WindowAside,
       RecoveryAside, UsersAside
  <1>. QED
    BY <1>1, <1>3

LEMMA FilesInit == Init => FileInv
  BY DEF Init, FileInv, Staging, Product, ReportFirst, NoFalseCompletion,
         CommitsOnlyValidated, Clean, QueuedHasNoLeftover

IInv == TypeOK /\ Ownership /\ FileInv

LEMMA Invariance ==
    ASSUME Calm
    PROVE  Spec => []IInv
  <1>1. Init => IInv
    BY OwnershipInit, FilesInit, MaxRequeuesAssumption, Names
    DEF Init, IInv, TypeOK, RecoveryIdle, CliIdle, Stopped
  <1>2. IInv /\ [Next]_vars => IInv'
    BY TypeStep, OwnershipStep, FilesStep DEF IInv
  <1>. QED
    BY <1>1, <1>2, PTL DEF Spec

-----------------------------------------------------------------------------
(* The properties.                                                         *)

\* One owner: without cancelling, no two windows work on one job, and a job
\* somebody works on is not back in the queue, unless an abort robbed its owner.
THEOREM OwnersAreAlone ==
    ASSUME Calm, "cancel" \notin Commands
    PROVE  Spec => []OneOwner
  <1>1. ASSUME IInv PROVE OneOwner
    <2>. SUFFICES ASSUME NEW w \in Windows, NEW j \in Jobs \ robbed, Owns(w, j)
                  PROVE  /\ \A v \in Windows : Owns(v, j) => v = w
                         /\ state[j] # "queued"
      BY DEF OneOwner, Owned, ActiveJobs, Owns
    <2>. QED
      BY <1>1, RestingFits DEF IInv, Ownership, OneWindow
  <1>2. Spec => []IInv
    BY Invariance
  <1>. QED
    BY <1>1, <1>2, PTL

\* True states: a job recorded as a success has its validated output and its
\* report; where nobody requeues without cleaning, a queued one has a clean
\* staging path; robbed jobs are excepted.
THEOREM StoreIsTrue ==
    ASSUME Calm, "desktop" \notin Surfaces
    PROVE  Spec => []StatesAreTrue
  <1>1. IInv => StatesAreTrue
    BY DEF IInv, FileInv, Clean, StatesAreTrue
  <1>2. Spec => []IInv
    BY Invariance
  <1>. QED
    BY <1>1, <1>2, PTL

\* Only validated outputs are committed, and no success is false, with every
\* surface that gives commands; robbed jobs are excepted.
THEOREM NothingUnvalidated ==
    ASSUME Calm
    PROVE  Spec => [](NoFalseCompletion /\ CommitsOnlyValidated)
  <1>1. IInv => NoFalseCompletion /\ CommitsOnlyValidated
    BY DEF IInv, FileInv
  <1>2. Spec => []IInv
    BY Invariance
  <1>. QED
    BY <1>1, <1>2, PTL

\* No step of anybody replaces what is at a destination; this needs none of
\* the hypotheses.
THEOREM DestinationsAreKept == Spec => NeverOverwrites
  <1>1. ASSUME TypeOK, [Next]_vars
        PROVE  \A j \in Jobs : final[j] # "none" => final'[j] = final[j]
    <2>1. ASSUME NEW w \in Windows, NEW j \in Jobs, Publish(w, j)
          PROVE  final[j] = "none" /\ \A k \in Jobs : k # j => final'[k] = final[k]
      BY <2>1 DEF Publish, TypeOK
    <2>2. ASSUME NEW j \in Jobs, ForeignFileAppears(j)
          PROVE  final[j] = "none" /\ \A k \in Jobs : k # j => final'[k] = final[k]
      BY <2>2 DEF ForeignFileAppears, TypeOK
    <2>3. ASSUME NEW w \in Windows, NEW j \in Jobs, Executing(w, j), ~Publish(w, j)
          PROVE  UNCHANGED final
      BY <2>3 DEF Executing, Worker, Engine, EngineStarts, EngineCancelled, Validates,
                  DestinationClear, WorkerFails, EngineFinishes, EngineFails, WorkerPanics,
                  files
    <2>4. ASSUME NEW w \in Windows, NEW j \in Jobs,
                 \/ Claim(w, j) \/ ClaimErrs(w, j) \/ TakeMilestone(w, j)
                 \/ AbortSettles(w, j) \/ Preparing(w, j) \/ Applying(w, j)
          PROVE  UNCHANGED final
      BY <2>4 DEF Claim, ClaimErrs, TakeMilestone, AbortSettles, Preparing,
                  PrepareRejects, PreparePlans, PrepareStarts, Applying, JoinOk,
                  OutcomeMarks, OutcomeCompletes, OutcomeStops, files
    <2>5. ASSUME NEW w \in Windows, Opening(w) \/ Turning(w) \/ Leaving(w)
          PROVE  UNCHANGED final
      BY <2>5 DEF Opening, OpenWindow, Turning, PauseFinishCurrent, PauseImmediate,
                  LeaveAdmission, AbortDrains, ControlPlaneFails, Leaving, Finish,
                  AbortReturns, Crash, files
    <2>6. ASSUME Recover \/ UNCHANGED vars
          PROVE  UNCHANGED final
      BY <2>6 DEF Recover, RecoveryBegins, RecoveryTurnsToFiles, RecoveryReturns,
                  RecoveryStops, RecoveryInterrupts, RecoveryCleans, vars, files
    <2>7. ASSUME Users, ~\E j \in Jobs : ForeignFileAppears(j)
          PROVE  UNCHANGED final
      BY <2>7 DEF Users, CliCleans, CliTransitions, CleanupStaging, DesktopRequeues,
                  BulkActs, CliChecks, files
    <2>8. \/ UNCHANGED final
          \/ \E j \in Jobs : final[j] = "none" /\ \A k \in Jobs : k # j => final'[k] = final[k]
      <3>1. CASE UNCHANGED vars \/ Recover
        BY <3>1, <2>6
      <3>3. CASE \E j \in Jobs : ForeignFileAppears(j)
        BY <3>3, <2>2
      <3>4. CASE Users /\ ~\E j \in Jobs : ForeignFileAppears(j)
        BY <3>4, <2>7
      <3>2. CASE Next /\ ~Recover /\ ~Users
        BY <3>2, <2>1, <2>3, <2>4, <2>5, Steps
      <3>. QED
        BY <1>1, <3>1, <3>2, <3>3, <3>4
    <2>. QED
      BY <2>8
  <1>. QED
    BY <1>1, TypeCorrect, PTL DEF Spec, NeverOverwrites

\* A window lets go of a job only in a state that says that nobody is working
\* on it, unless its process died or its settling write was refused.
THEOREM JobsAreLetGoProperly ==
    ASSUME Calm
    PROVE  Spec => NothingDropped
  <1> DEFINE
        Proper(w, j) == step'[w][j] = "no" =>
            state'[j] \notin Active \/ pc'[w] = "dead" \/ j \in refused'[w]
  <1>1. ASSUME IInv, [Next]_vars, NEW w \in Windows, NEW j \in Jobs, Holds(w, j)
        PROVE  Proper(w, j)
    <2>0. TypeOK /\ WorkFits
      BY <1>1 DEF IInv, Ownership
    <2>1. ASSUME NEW v \in Windows, NEW k \in Jobs, JobStep(v, k), v # w \/ k # j
          PROVE  Proper(w, j)
      BY <1>1, <2>1 DEF JobStep, Holds
    <2>2. CASE Executing(w, j)
      BY <2>0, <2>2, ExecutingIsJobStep DEF Owns
    <2>3. CASE Preparing(w, j)
      BY <2>0, <2>3, Names, Going, Moving
      DEF Preparing, PrepareRejects, PreparePlans, PrepareStarts, TypeOK, Active
    <2>4. CASE Applying(w, j)
      <3>1. CASE JoinOk(w, j) \/ OutcomeMarks(w, j)
        BY <2>0, <3>1, Names, Going DEF JoinOk, OutcomeMarks, TypeOK
      <3>2. CASE OutcomeCompletes(w, j)
        BY <2>0, <3>2, Names, Moving DEF OutcomeCompletes, TypeOK, Active
      <3>3. CASE OutcomeStops(w, j)
        BY <2>0, <3>3, Names, Moving DEF OutcomeStops, StopState, TypeOK, Active
      <3>. QED
        BY <2>4, <3>1, <3>2, <3>3 DEF Applying
    <2>5. CASE AbortSettles(w, j)
      BY <2>0, <2>5, Moving, Settling DEF AbortSettles, TypeOK
    <2>10. ASSUME NEW v \in Windows, NEW k \in Jobs, AbortSettles(v, k), v # w \/ k # j
           PROVE  Proper(w, j)
      BY <1>1, <2>0, <2>10, Names, Going DEF AbortSettles, TypeOK, Holds
    <2>6. ASSUME NEW v \in Windows, NEW k \in Jobs,
                 Claim(v, k) \/ ClaimErrs(v, k) \/ TakeMilestone(v, k)
          PROVE  Proper(w, j)
      <3>1. CASE TakeMilestone(v, k)
        BY <1>1, <3>1 DEF TakeMilestone, Holds
      <3>2. CASE Claim(v, k) \/ ClaimErrs(v, k)
        <4>1. step[v][k] = "pending"
          BY <3>2 DEF Claim, ClaimErrs, At
        <4>2. \A u \in Windows, i \in Jobs : u # v \/ i # k => step'[u][i] = step[u][i]
          BY <2>0, <3>2, Names, Going DEF Claim, ClaimErrs, TypeOK
        <4>. QED
          BY <1>1, <4>1, <4>2 DEF Holds
      <3>. QED
        BY <2>6, <3>1, <3>2
    <2>7. ASSUME NEW v \in Windows, Opening(v) \/ Turning(v)
          PROVE  Proper(w, j)
      <3>1. CASE Opening(v)
        <4>1. v # w
          BY <1>1, <3>1 DEF Opening, OpenWindow, IInv, Ownership, OnlyRunning
        <4>. QED
          BY <1>1, <2>0, <3>1, <4>1 DEF Opening, OpenWindow, TypeOK, Holds
      <3>2. CASE Turning(v)
        BY <1>1, <3>2 DEF Turning, PauseFinishCurrent, PauseImmediate, LeaveAdmission,
                          AbortDrains, ControlPlaneFails, Holds
      <3>. QED
        BY <2>7, <3>1, <3>2
    <2>8. ASSUME NEW v \in Windows, Leaving(v)
          PROVE  Proper(w, j)
      <3>1. CASE v # w
        BY <1>1, <2>0, <2>8, <3>1, Ending
        DEF Leaving, Finish, AbortReturns, Crash, Stopped, Holds
      <3>2. CASE v = w
        <4>1. ~Finish(w) /\ ~AbortReturns(w)
          BY <1>1, <2>0 DEF Finish, AbortReturns, Workers, Busy, ActiveJobs, Holds, TypeOK, Step,
                            IInv, Ownership, ClaimErrors
        <4>. QED
          BY <2>0, <2>8, <3>2, <4>1, Ending DEF Leaving, Crash, Stopped
      <3>. QED
        BY <3>1, <3>2
    <2>9. CASE Recover \/ Users \/ UNCHANGED vars
      BY <1>1, <2>9 DEF Recover, RecoveryBegins, RecoveryTurnsToFiles, RecoveryReturns,
         RecoveryStops, RecoveryInterrupts, RecoveryCleans, Users, CliCleans, CliTransitions,
         CleanupStaging, DesktopRequeues, ForeignFileAppears, BulkActs, CliChecks, vars,
         window, Holds
    <2>. QED
      BY <1>1, <2>0, <2>1, <2>2, <2>3, <2>4, <2>5, <2>6, <2>7, <2>8, <2>9, <2>10, Steps,
         PreparingIsJobStep, ApplyingIsJobStep, ExecutingIsJobStep
  <1>2. IInv /\ [Next]_vars =>
            [\A w \in Windows : \A j \in ActiveJobs(w) :
                step'[w][j] = "no" =>
                    \/ state'[j] \notin Active
                    \/ pc'[w] = "dead" \/ j \in refused'[w]]_vars
    BY <1>1 DEF ActiveJobs, Holds
  <1>3. Spec => []IInv
    BY Invariance
  <1>. QED
    BY <1>2, <1>3, PTL DEF Spec, NothingDropped

-----------------------------------------------------------------------------
(* Recovery.                                                               *)

\* while recovery runs, the jobs still Running or Validating are on its list
Marked ==
    /\ recovery.phase = "mark" =>
           \A j \in Jobs : state[j] \in {"running", "validating"} => j \in recovery.todo
    /\ recovery.phase = "clean" => \A j \in Jobs : state[j] \notin {"running", "validating"}

LEMMA MarkedStep ==
    ASSUME Calm, IInv, Marked, [Next]_vars
    PROVE  Marked'
  <1>0. TypeOK /\ Ownership /\ WorkFits
    BY DEF IInv, Ownership
  <1>1. ASSUME UNCHANGED recovery,
               \A j \in Jobs : state'[j] = state[j] \/ state'[j] \notin {"running", "validating"}
        PROVE  Marked'
    BY <1>1 DEF Marked
  <1>2. CASE UNCHANGED vars
    BY <1>1, <1>2 DEF vars, others
  <1>3. ASSUME NEW w \in Windows,
               \/ Opening(w) \/ Turning(w) \/ Leaving(w)
               \/ \E j \in Jobs : \/ Claim(w, j) \/ ClaimErrs(w, j) \/ TakeMilestone(w, j)
                                  \/ Preparing(w, j) \/ Applying(w, j) \/ Executing(w, j)
                                  \/ AbortSettles(w, j)
        PROVE  Marked'
    <2>1. CASE Opening(w) \/ Turning(w) \/ Leaving(w)
      BY <1>1, <2>1 DEF Opening, OpenWindow, Turning, PauseFinishCurrent, PauseImmediate,
         LeaveAdmission, AbortDrains, ControlPlaneFails, Leaving, Finish, AbortReturns,
         Crash, others
    <2>2. ASSUME NEW j \in Jobs,
                 \/ Claim(w, j) \/ ClaimErrs(w, j) \/ TakeMilestone(w, j)
                 \/ AbortSettles(w, j) \/ JobStep(w, j)
          PROVE  Marked'
      <3>1. Running(w) /\ UNCHANGED recovery
        BY <1>0, <2>2 DEF Claim, ClaimErrs, CanAdmit, TakeMilestone, AtSelect, AbortSettles,
           Running, Stopped, JobStep, Ownership, OnlyRunning, Holds, Owns, others
      <3>2. recovery' = RecoveryIdle
        BY <1>0, <3>1 DEF Ownership, RecoveryAlone
      <3>. QED
        BY <3>2 DEF Marked, RecoveryIdle
    <2>. QED
      BY <1>0, <1>3, <2>1, <2>2, PreparingIsJobStep, ApplyingIsJobStep,
         ExecutingIsJobStep
  <1>4. CASE Recover
    <2>1. CASE RecoveryBegins
      BY <2>1 DEF RecoveryBegins, Marked, Interruptible, files
    <2>2. ASSUME NEW j \in Jobs, RecoveryInterrupts(j) PROVE Marked'
      <3>1. state'[j] = "interrupted" /\ \A k \in Jobs : k # j => state'[k] = state[k]
        BY <1>0, <2>2, Names, Moving DEF RecoveryInterrupts, TypeOK
      <3>2. recovery.phase = "mark" /\ recovery'.phase = "mark"
            /\ recovery'.todo = recovery.todo \ {j}
        BY <1>0, <2>2 DEF RecoveryInterrupts, TypeOK
      <3>. QED
        BY <3>1, <3>2 DEF Marked
    <2>3. CASE RecoveryTurnsToFiles
      BY <2>3 DEF RecoveryTurnsToFiles, Marked
    <2>4. ASSUME NEW j \in Jobs, RecoveryCleans(j) PROVE Marked'
      BY <1>0, <2>4 DEF RecoveryCleans, Marked, TypeOK
    <2>5. CASE RecoveryReturns \/ RecoveryStops
      BY <2>5 DEF RecoveryReturns, RecoveryStops, Marked, RecoveryIdle
    <2>. QED
      BY <1>4, <2>1, <2>2, <2>3, <2>4, <2>5 DEF Recover
  <1>5. CASE Users
    <2>1. UNCHANGED recovery
      BY <1>5 DEF Users, CliCleans, CliTransitions, CleanupStaging, DesktopRequeues,
         ForeignFileAppears, BulkActs, CliChecks, others
    <2>2. CASE CliTransitions
      <3>1. cli.job \in Jobs /\ cli.target = "queued"
        BY <1>0, <2>2 DEF CliTransitions, CliIdle, Ownership, CommandHolds
      <3>. QED
        BY <1>0, <1>1, <2>1, <2>2, <3>1, Names, Moving DEF CliTransitions, TypeOK
    <2>3. ASSUME NEW j \in Jobs, DesktopRequeues(j) PROVE Marked'
      BY <1>0, <1>1, <2>1, <2>3, Names, Moving DEF DesktopRequeues, TypeOK
    <2>4. ASSUME NEW j \in Jobs, NEW action \in Commands, BulkActs(j, action) PROVE Marked'
      BY <1>0, <1>1, <2>1, <2>4, Names, Moving DEF BulkActs, BulkTarget, TypeOK
    <2>5. ASSUME UNCHANGED state PROVE Marked'
      BY <1>1, <2>1, <2>5
    <2>. QED
      BY <1>5, <2>2, <2>3, <2>4, <2>5
      DEF Users, CliCleans, CleanupStaging, ForeignFileAppears, CliChecks
  <1>. QED
    BY <1>2, <1>3, <1>4, <1>5, Steps

\* Recovery that runs to its end leaves no job Running or Validating.
THEOREM RecoveryIsThorough ==
    ASSUME Calm
    PROVE  Spec => RecoveryInterruptsAll
  <1>1. Init => Marked
    BY DEF Init, Marked, RecoveryIdle
  <1>2. IInv /\ Marked /\ [Next]_vars => Marked'
    BY MarkedStep
  <1>3. Marked /\ [Next]_vars =>
            [recovery.phase = "clean" /\ recovery' = RecoveryIdle /\ recovery.todo = {} =>
                \A j \in Jobs : state[j] \notin {"running", "validating"}]_vars
    BY DEF Marked
  <1>4. Spec => []IInv
    BY Invariance
  <1>. QED
    BY <1>1, <1>2, <1>3, <1>4, PTL DEF Spec, RecoveryInterruptsAll

-----------------------------------------------------------------------------
(* The windows implement Delivery.                                         *)

Publishing == {"ok", "reported", "marked"}
PromiseStep == [Promise!Next]_(Promise!vars)

LEMMA Stutters ==
    ASSUME UNCHANGED final, \A j \in Jobs : Phase(j)' = Phase(j)
    PROVE  PromiseStep
  BY DEF PromiseStep, Promise!vars

LEMMA Turns ==
    ASSUME NEW j \in Jobs, NEW from, NEW to, Phase(j) \in from, Phase(j)' = to,
           \A k \in Jobs : k # j => Phase(k)' = Phase(k)
    PROVE  Promise!Turn(j, from, to)
  BY DEF Promise!Turn

LEMMA StopsOrRequeues ==
    ASSUME NEW j \in Jobs, UNCHANGED final, \A k \in Jobs : k # j => Phase(k)' = Phase(k),
           \/ Phase(j)' = Phase(j)
           \/ Phase(j) \in {"waiting", "working", "published"} /\ Phase(j)' = "stopped"
           \/ Phase(j) = "stopped" /\ Phase(j)' = "waiting"
           \/ Phase(j) \in {"working", "published"} /\ Phase(j)' = "lost"
    PROVE  PromiseStep
  <1>1. CASE Phase(j)' = Phase(j)
    BY <1>1, Stutters
  <1>2. CASE Phase(j) \in {"waiting", "working", "published"} /\ Phase(j)' = "stopped"
    <2>1. Promise!Stop(j)
      BY <1>2, Turns DEF Promise!Stop
    <2>. QED
      BY <2>1 DEF PromiseStep, Promise!Next
  <1>3. CASE Phase(j) = "stopped" /\ Phase(j)' = "waiting"
    <2>1. Promise!Requeue(j)
      BY <1>3, Turns DEF Promise!Requeue
    <2>. QED
      BY <2>1 DEF PromiseStep, Promise!Next
  <1>4. CASE Phase(j) \in {"working", "published"} /\ Phase(j)' = "lost"
    <2>1. Promise!Lose(j)
      BY <1>4, Turns DEF Promise!Lose
    <2>. QED
      BY <2>1 DEF PromiseStep, Promise!Next
  <1>. QED
    BY <1>1, <1>2, <1>3, <1>4

\* a JobStep is about its own job, whose only holder takes it
LEMMA JobStepPhase ==
    ASSUME Ownership, NEW w \in Windows, NEW j \in Jobs, JobStep(w, j)
    PROVE  /\ \A k \in Jobs : k # j => Phase(k)' = Phase(k)
           /\ j \notin robbed =>
                  /\ Published(j) <=> step[w][j] \in Publishing
                  /\ Published(j)' <=> step'[w][j] \in Publishing
  <1>1. ASSUME NEW k \in Jobs, k # j PROVE Phase(k)' = Phase(k)
    <2>1. Published(k)' <=> Published(k)
      BY <1>1 DEF JobStep, Published
    <2>2. state'[k] = state[k]
      BY <1>1 DEF JobStep
    <2>3. robbed' = robbed
      BY DEF JobStep
    <2>. QED
      BY <2>1, <2>2, <2>3 DEF Phase
  <1>2. \A v \in Windows : v # w =>
            /\ step'[v][j] = step[v][j]
            /\ j \notin robbed => step[v][j] \in {"no", "pending", "unclaimed"}
    BY DEF JobStep, Ownership, OneWindow, Owns
  <1>. QED
    BY <1>1, <1>2 DEF Published, Publishing

\* of a robbed job only what it publishes is seen
LEMMA RobbedPromise ==
    ASSUME TypeOK, NEW w \in Windows, NEW j \in Jobs, JobStep(w, j), j \in robbed,
           \/ UNCHANGED final
           \/ Publish(w, j)
    PROVE  PromiseStep
  <1>0. robbed' = robbed
    BY DEF JobStep
  <1>1. \A k \in Jobs : Phase(k)' = Phase(k)
    <2>. SUFFICES ASSUME NEW k \in Jobs
                  PROVE  Phase(k)' = Phase(k)
      OBVIOUS
    <2>1. CASE k = j
      BY <1>0, <2>1 DEF Phase
    <2>2. CASE k # j
      <3>1. (Published(k)' <=> Published(k)) /\ state'[k] = state[k]
        BY <2>2 DEF JobStep, Published
      <3>. QED
        BY <1>0, <3>1 DEF Phase
    <2>. QED
      BY <2>1, <2>2
  <1>2. CASE UNCHANGED final
    BY <1>1, <1>2, Stutters
  <1>3. CASE Publish(w, j)
    <2>1. PICK file \in {"valid", "unvalidated"} : final' = [final EXCEPT ![j] = file]
      BY <1>3 DEF Publish
    <2>2. Phase(j) = "lost" /\ final[j] = "none"
      BY <1>3 DEF Phase, Publish
    <2>3. Promise!Stray(j)
      BY <1>1, <2>1, <2>2 DEF Promise!Stray
    <2>. QED
      BY <2>3 DEF PromiseStep, Promise!Next
  <1>. QED
    BY <1>2, <1>3

LEMMA PreparingPromise ==
    ASSUME TypeOK, Ownership, NEW w \in Windows, NEW j \in Jobs, Preparing(w, j)
    PROVE  PromiseStep
  <1>0. JobStep(w, j) /\ robbed' = robbed /\ (j \notin robbed => Fits(step[w][j], state[j]))
    BY PreparingIsJobStep DEF Ownership, WorkFits, JobStep
  <1>1. UNCHANGED final /\ step[w][j] \in {"claimed", "planned"}
    BY DEF Preparing, PrepareRejects, PreparePlans, PrepareStarts, At, files
  <1>2. step'[w][j] \notin Publishing
    BY Names, Going DEF Preparing, PrepareRejects, PreparePlans, PrepareStarts, TypeOK, Publishing
  <1>6. CASE j \in robbed
    BY <1>0, <1>1, <1>6, RobbedPromise
  <1>. SUFFICES ASSUME j \notin robbed
                PROVE  PromiseStep
    BY <1>6
  <1>3. ~Published(j) /\ ~Published(j)'
    BY <1>0, <1>1, <1>2, JobStepPhase DEF Publishing
  <1>4. state[j] \in Active /\ state'[j] \in {"planned", "running", "blocked", "failed"}
    BY <1>0, Names, Moving
    DEF Preparing, PrepareRejects, PreparePlans, PrepareStarts, At, Fits, TypeOK, Active,
        CanTransition, LegalMoves
  <1>5. Phase(j) = "working" /\ Phase(j)' \in {"working", "stopped"}
    BY <1>0, <1>3, <1>4 DEF Phase, Active
  <1>. QED
    BY <1>0, <1>1, <1>5, JobStepPhase, StopsOrRequeues

LEMMA ExecutingPromise ==
    ASSUME TypeOK, Ownership, FileInv, NEW w \in Windows, NEW j \in Jobs, Executing(w, j)
    PROVE  PromiseStep
  <1>0. /\ JobStep(w, j) /\ UNCHANGED <<state, robbed>>
        /\ j \notin robbed => Fits(step[w][j], state[j])
    BY ExecutingIsJobStep DEF Ownership, WorkFits, JobStep
  <1>1. step[w][j] \in Working
    BY DEF Executing, Worker, Engine, EngineStarts, EngineCancelled, Validates,
           DestinationClear, Publish, WorkerFails, EngineFinishes, EngineFails,
           WorkerPanics, At, Working
  <1>5. ~Publish(w, j) => UNCHANGED final
    BY DEF Executing, Worker, Engine, EngineStarts, EngineCancelled, Validates,
           DestinationClear, WorkerFails, EngineFinishes, EngineFails, WorkerPanics, files
  <1>6. CASE j \in robbed
    BY <1>0, <1>5, <1>6, RobbedPromise
  <1>. SUFFICES ASSUME j \notin robbed
                PROVE  PromiseStep
    BY <1>6
  <1>2. state[j] \in {"running", "validating"} /\ ~Published(j)
    BY <1>0, <1>1, JobStepPhase DEF Fits, Working, Publishing
  <1>3. CASE Publish(w, j)
    <2>1. step'[w][j] = "ok"
      BY <1>3, Names, Going DEF Publish, TypeOK
    <2>2. Phase(j) = "working" /\ Phase(j)' = "published"
      BY <1>0, <1>2, <2>1, JobStepPhase DEF Phase, Active, Publishing
    <2>3. staged[j].checked
      BY <1>3 DEF Publish, At, FileInv, Staging
    <2>4. Promise!Publish(j)
      BY <1>0, <1>3, <2>2, <2>3, JobStepPhase, Turns DEF Promise!Publish, Publish
    <2>. QED
      BY <2>4 DEF PromiseStep, Promise!Next
  <1>4. CASE ~Publish(w, j)
    <2>1. UNCHANGED final
      BY <1>4, <1>5
    <2>2. step'[w][j] \notin Publishing
      BY <1>4, Names, Going
      DEF Executing, Worker, Engine, EngineStarts, EngineCancelled, Validates,
          DestinationClear, WorkerFails, EngineFinishes, EngineFails, WorkerPanics, TypeOK,
          Publishing
    <2>3. Phase(j)' = Phase(j)
      BY <1>0, <1>2, <2>2, JobStepPhase DEF Phase
    <2>. QED
      BY <1>0, <2>1, <2>3, JobStepPhase, StopsOrRequeues
  <1>. QED
    BY <1>3, <1>4

LEMMA ApplyingPromise ==
    ASSUME TypeOK, Ownership, NEW w \in Windows, NEW j \in Jobs, Applying(w, j)
    PROVE  PromiseStep
  <1>0. JobStep(w, j) /\ UNCHANGED <<final, robbed>>
    BY ApplyingIsJobStep
    DEF Ownership, JobStep, Applying, JoinOk, OutcomeMarks, OutcomeCompletes, OutcomeStops, files
  <1>1. step[w][j] \in Publishing \cup {"cancelled", "error"}
    BY DEF Applying, JoinOk, OutcomeMarks, OutcomeCompletes, OutcomeStops, At, Publishing
  <1>6. CASE j \in robbed
    BY <1>0, <1>6, RobbedPromise
  <1>. SUFFICES ASSUME j \notin robbed
                PROVE  PromiseStep
    BY <1>6
  <1>2. state[j] \in {"running", "validating"}
    BY <1>1 DEF Ownership, WorkFits, Fits, Publishing
  <1>3. CASE JoinOk(w, j) \/ OutcomeMarks(w, j)
    <2>1. step[w][j] \in Publishing /\ step'[w][j] \in Publishing
      BY <1>3, Names, Going DEF JoinOk, OutcomeMarks, At, TypeOK, Publishing
    <2>2. state'[j] \in {"running", "validating"}
      BY <1>2, <1>3, Marking DEF JoinOk, OutcomeMarks, TypeOK
    <2>3. Phase(j)' = Phase(j)
      BY <1>0, <1>2, <2>1, <2>2, JobStepPhase DEF Phase, Active
    <2>. QED
      BY <1>0, <2>3, JobStepPhase, StopsOrRequeues
  <1>4. CASE OutcomeCompletes(w, j)
    <2>1. step[w][j] \in Publishing /\ state'[j] \in {"completed", "warning"}
      BY <1>4, Names, Moving DEF OutcomeCompletes, At, TypeOK, Publishing
    <2>2. Phase(j) = "published" /\ Phase(j)' = "delivered"
      BY <1>0, <1>2, <2>1, JobStepPhase DEF Phase, Active
    <2>3. Promise!Deliver(j)
      BY <1>0, <2>2, JobStepPhase, Turns DEF Promise!Deliver
    <2>. QED
      BY <2>3 DEF PromiseStep, Promise!Next
  <1>5. CASE OutcomeStops(w, j)
    <2>1. state'[j] \in {"failed", "interrupted", "cancelled"}
      BY <1>5, Names, Moving DEF OutcomeStops, StopState, TypeOK
    <2>2. Phase(j) \in {"working", "published"} /\ Phase(j)' = "stopped"
      BY <1>0, <1>2, <2>1 DEF Phase, Active
    <2>. QED
      BY <1>0, <2>2, JobStepPhase, StopsOrRequeues
  <1>. QED
    BY <1>3, <1>4, <1>5 DEF Applying

LEMMA SettlingPromise ==
    ASSUME TypeOK, Ownership, NEW w \in Windows, NEW j \in Jobs, AbortSettles(w, j),
           ~At(w, j, "unclaimed")
    PROVE  PromiseStep
  <1>0. /\ JobStep(w, j) /\ step'[w][j] = "no" /\ UNCHANGED <<final, robbed>>
        /\ state'[j] \in {state[j], SettledState(state[j])}
    BY SettlingIsJobStep DEF AbortSettles, JobStep, files
  <1>6. CASE j \in robbed
    BY <1>0, <1>6, RobbedPromise
  <1>. SUFFICES ASSUME j \notin robbed
                PROVE  PromiseStep
    BY <1>6
  <1>1. ~Published(j)'
    BY <1>0, JobStepPhase DEF Publishing
  <1>2. state[j] \in Active \cup Rest \cup {"queued"}
    BY <1>0 DEF JobStep, Owns, Ownership, WorkFits, Fits, Active
  <1>3. CASE state[j] \notin Active
    BY <1>0, <1>2, <1>3, JobStepPhase, StopsOrRequeues DEF Phase, SettledState, Active, Rest
  <1>4. CASE state[j] \in Active /\ state'[j] # state[j]
    <2>1. state'[j] \in {"interrupted", "failed"}
      BY <1>0, <1>4 DEF SettledState, Active
    <2>2. Phase(j) \in {"working", "published"} /\ Phase(j)' = "stopped"
      BY <1>0, <1>4, <2>1 DEF Phase, Active
    <2>. QED
      BY <1>0, <2>2, JobStepPhase, StopsOrRequeues
  <1>5. CASE state[j] \in Active /\ state'[j] = state[j]
    <2>1. Phase(j) \in {"working", "published"} /\ Phase(j)' = "working"
      BY <1>0, <1>1, <1>5 DEF Phase, Active
    <2>2. CASE Phase(j) = "working"
      BY <1>0, <2>1, <2>2, JobStepPhase, StopsOrRequeues
    <2>3. CASE Phase(j) = "published"
      <3>1. Promise!Forget({j})
        BY <1>0, <2>1, <2>3, JobStepPhase DEF Promise!Forget
      <3>. QED
        BY <3>1 DEF PromiseStep, Promise!Next
    <2>. QED
      BY <2>1, <2>2, <2>3
  <1>. QED
    BY <1>3, <1>4, <1>5

\* a job that nobody works on is stopped; one that somebody works on is lost
LEMMA DisowningPromise ==
    ASSUME TypeOK, NEW w \in Windows, NEW j \in Jobs, Disowns(w, j)
    PROVE  PromiseStep
  <1>0. UNCHANGED final /\ \A k \in Jobs : k # j => (k \in robbed' <=> k \in robbed)
    BY DEF Disowns, files
  <1>1. \A k \in Jobs : Published(k)' <=> Published(k)
    BY DEF Disowns, Published
  <1>2. \A k \in Jobs : k # j => Phase(k)' = Phase(k)
    BY <1>0, <1>1 DEF Disowns, Phase
  <1>3. CASE j \in robbed \/ (state'[j] = state[j] /\ robbed' = robbed)
    <2>1. Phase(j)' = Phase(j)
      BY <1>1, <1>3 DEF Disowns, Phase
    <2>. QED
      BY <1>0, <1>2, <2>1, StopsOrRequeues
  <1>4. CASE j \notin robbed /\ state[j] \in Active /\ state'[j] \in {"interrupted", "failed"}
    <2>1. Phase(j) \in {"working", "published"} /\ Phase(j)' \in {"lost", "stopped"}
      BY <1>4 DEF Phase, Active
    <2>. QED
      BY <1>0, <1>2, <2>1, StopsOrRequeues
  <1>. QED
    BY <1>3, <1>4 DEF Disowns

LEMMA WindowPromise ==
    ASSUME Calm, TypeOK, Ownership, NEW w \in Windows,
           \/ Opening(w) \/ Turning(w) \/ Leaving(w)
           \/ \E j \in Jobs : Claim(w, j) \/ ClaimErrs(w, j) \/ TakeMilestone(w, j)
    PROVE  PromiseStep
  <1>1. CASE Opening(w)
    <2>1. /\ UNCHANGED <<state, final, robbed>> /\ \A j \in Jobs : ~Holds(w, j) /\ ~Holds(w, j)'
          /\ \A v \in Windows : v # w => step'[v] = step[v]
      BY <1>1 DEF Opening, OpenWindow, Ownership, OnlyRunning, TypeOK, Holds, files
    <2>2. \A j \in Jobs : Published(j)' <=> Published(j)
      BY <2>1 DEF Published, Holds
    <2>. QED
      BY <2>1, <2>2, Stutters DEF Phase
  <1>2. CASE Turning(w)
    <2>1. UNCHANGED <<state, final, step, robbed>>
      BY <1>2 DEF Turning, PauseFinishCurrent, PauseImmediate, LeaveAdmission, AbortDrains,
                  ControlPlaneFails, files
    <2>. QED
      BY <2>1, Stutters DEF Phase, Published
  <1>3. CASE Leaving(w)
    <2>1. /\ UNCHANGED <<state, final, robbed>> /\ \A j \in Jobs : step'[w][j] = "no"
          /\ \A v \in Windows : v # w => step'[v] = step[v]
      BY <1>3, Ending DEF Leaving, Finish, AbortReturns, Crash, Stopped, files
    <2> DEFINE gone == {j \in Jobs \ robbed : step[w][j] \in Publishing}
    <2>2. \A j \in gone : Phase(j) = "published" /\ Phase(j)' = "working"
      <3>. SUFFICES ASSUME NEW j \in gone
                    PROVE  Phase(j) = "published" /\ Phase(j)' = "working"
        OBVIOUS
      <3>1. state[j] \in {"running", "validating"} /\ Published(j)
        BY DEF Ownership, WorkFits, Fits, Published, Publishing
      <3>2. ~Published(j)'
        BY <2>1 DEF Ownership, OneWindow, Owns, Published, Publishing
      <3>. QED
        BY <2>1, <3>1, <3>2 DEF Phase, Active
    <2>3. \A j \in Jobs \ gone : Phase(j)' = Phase(j)
      <3>. SUFFICES ASSUME NEW j \in Jobs \ gone
                    PROVE  Phase(j)' = Phase(j)
        OBVIOUS
      <3>1. j \in robbed \/ (Published(j)' <=> Published(j))
        BY <2>1 DEF Published, Publishing
      <3>. QED
        BY <2>1, <3>1 DEF Phase
    <2>4. Promise!Forget(gone)
      <3> HIDE DEF gone
      <3>1. gone \subseteq Jobs
        BY DEF gone
      <3>. QED
        BY <2>1, <2>2, <2>3, <3>1 DEF Promise!Forget
    <2>. QED
      BY <2>4 DEF PromiseStep, Promise!Next
  <1>4. ASSUME NEW j \in Jobs, Claim(w, j) PROVE PromiseStep
    <2>1. /\ \A v \in Windows, k \in Jobs :
                 step'[v][k] = step[v][k]
                 \/ (step[v][k] = "pending" /\ step'[v][k] \in {"no", "claimed"})
          /\ UNCHANGED <<final, robbed>>
      BY <1>4, Names, Going DEF Claim, At, TypeOK, files
    <2>2. \A k \in Jobs : Published(k)' <=> Published(k)
      BY <2>1 DEF Published
    <2>3. CASE state[j] = "queued"
      <3>1. state'[j] = "inspecting" /\ \A k \in Jobs : k # j => state'[k] = state[k]
        BY <1>4, <2>3, Names, Moving DEF Claim, TypeOK
      <3>5. CASE j \in robbed
        BY <2>1, <2>2, <3>1, <3>5, Stutters DEF Phase
      <3>. SUFFICES ASSUME j \notin robbed
                    PROVE  PromiseStep
        BY <3>5
      <3>2. ~Published(j)
        BY <2>3, RestingFits DEF Published, Owns, At
      <3>3. Phase(j) = "waiting" /\ Phase(j)' = "working"
        BY <2>1, <2>2, <2>3, <3>1, <3>2 DEF Phase, Active
      <3>4. Promise!Claim(j)
        BY <2>1, <2>2, <3>1, <3>3, Turns DEF Promise!Claim, Phase
      <3>. QED
        BY <3>4 DEF PromiseStep, Promise!Next
    <2>4. CASE state[j] # "queued"
      BY <1>4, <2>1, <2>2, <2>4, Stutters DEF Claim, Phase
    <2>. QED
      BY <2>3, <2>4
  <1>5. ASSUME NEW j \in Jobs, TakeMilestone(w, j) PROVE PromiseStep
    <2>1. UNCHANGED <<step, final, robbed>>
      BY <1>5 DEF TakeMilestone, files
    <2>2. \A k \in Jobs : state'[k] = state[k] \/ (state[k] = "running" /\ state'[k] = "validating")
      BY <1>5, Marking DEF TakeMilestone, TypeOK
    <2>3. \A k \in Jobs : Phase(k)' = Phase(k)
      BY <2>1, <2>2 DEF Phase, Published, Active
    <2>. QED
      BY <2>1, <2>3, Stutters
  <1>6. ASSUME NEW j \in Jobs, ClaimErrs(w, j) PROVE PromiseStep
    <2>1. /\ \A v \in Windows, k \in Jobs :
                 step'[v][k] = step[v][k]
                 \/ (step[v][k] = "pending" /\ step'[v][k] = "unclaimed")
          /\ UNCHANGED <<state, final, robbed>>
      BY <1>6, Names, Going DEF ClaimErrs, At, TypeOK, files
    <2>2. \A k \in Jobs : Published(k)' <=> Published(k)
      BY <2>1 DEF Published
    <2>. QED
      BY <2>1, <2>2, Stutters DEF Phase
  <1>. QED
    BY <1>1, <1>2, <1>3, <1>4, <1>5, <1>6

LEMMA OthersPromise ==
    ASSUME Calm, TypeOK, Ownership, Recover \/ Users
    PROVE  PromiseStep
  <1>0. UNCHANGED <<step, robbed>> /\ \A j \in Jobs : Published(j)' <=> Published(j)
    BY DEF Recover, RecoveryBegins, RecoveryTurnsToFiles, RecoveryReturns, RecoveryStops,
           RecoveryInterrupts, RecoveryCleans, Users, CliCleans, CliTransitions,
           CleanupStaging, DesktopRequeues, ForeignFileAppears, BulkActs, CliChecks, window,
           Published
  <1>1. ASSUME UNCHANGED <<state, final>> PROVE PromiseStep
    BY <1>0, <1>1, Stutters DEF Phase
  <1>2. ASSUME NEW j \in Jobs, UNCHANGED final, \A k \in Jobs : k # j => state'[k] = state[k],
               \/ state'[j] = state[j] \/ j \in robbed
               \/ state[j] \in Rest /\ state'[j] = "queued"
               \/ state[j] \in Active \cup Rest \cup {"queued"} /\ state'[j] \in Rest
        PROVE  PromiseStep
    <2>1. \A k \in Jobs : k # j => Phase(k)' = Phase(k)
      BY <1>0, <1>2 DEF Phase
    <2>2. \/ Phase(j)' = Phase(j)
          \/ Phase(j) \in {"waiting", "working", "published"} /\ Phase(j)' = "stopped"
          \/ Phase(j) = "stopped" /\ Phase(j)' = "waiting"
      BY <1>0, <1>2 DEF Phase, Active, Rest
    <2>. QED
      BY <1>2, <2>1, <2>2, StopsOrRequeues
  <1>3. ASSUME NEW j \in Jobs, RecoveryInterrupts(j) PROVE PromiseStep
    BY <1>2, <1>3, Names, Moving
    DEF RecoveryInterrupts, CanTransition, LegalMoves, TypeOK, Active, Rest, files
  <1>4. ASSUME NEW j \in Jobs, DesktopRequeues(j) PROVE PromiseStep
    BY <1>2, <1>4, Names, Moving DEF DesktopRequeues, TypeOK, Rest, files
  <1>5. ASSUME NEW j \in Jobs, NEW action \in Commands, BulkActs(j, action) PROVE PromiseStep
    <2>1. /\ state'[j] = BulkTarget(action) /\ UNCHANGED final
          /\ \A k \in Jobs : k # j => state'[k] = state[k]
      BY <1>5, Names, Moving DEF BulkActs, BulkTarget, TypeOK
    <2>2. BulkEligible(action, state[j])
      BY <1>5 DEF BulkActs
    <2>. QED
      BY <1>2, <2>1, <2>2 DEF BulkEligible, BulkTarget, Rest, Active
  <1>6. CASE CliTransitions
    <2>1. /\ cli.job \in Jobs /\ cli.target = "queued"
          /\ cli.job \in robbed \/ state[cli.job] \in Rest
      BY <1>6 DEF CliTransitions, CliIdle, Ownership, CommandHolds
    <2>. QED
      BY <1>2, <1>6, <2>1, Names, Moving DEF CliTransitions, TypeOK, files
  <1>7. ASSUME NEW j \in Jobs, ForeignFileAppears(j) PROVE PromiseStep
    <2>1. \A k \in Jobs : Phase(k)' = Phase(k)
      BY <1>0, <1>7 DEF ForeignFileAppears, Phase
    <2>2. Promise!Intrude(j)
      BY <1>7, <2>1 DEF ForeignFileAppears, Promise!Intrude
    <2>. QED
      BY <2>2 DEF PromiseStep, Promise!Next
  <1>8. CASE \/ RecoveryBegins \/ RecoveryTurnsToFiles \/ RecoveryReturns \/ RecoveryStops
             \/ CliCleans
             \/ \E j \in Jobs : \/ RecoveryCleans(j) \/ CleanupStaging(j)
                                \/ \E action \in Commands : CliChecks(j, action)
    BY <1>1, <1>8 DEF RecoveryBegins, RecoveryTurnsToFiles, RecoveryReturns, RecoveryStops,
       RecoveryCleans, CliCleans, CleanupStaging, CliChecks, files
  <1>. QED
    BY <1>3, <1>4, <1>5, <1>6, <1>7, <1>8 DEF Recover, Users

\* The refinement: each behaviour of windows, workers, recovery and users is
\* one of Delivery, where every step delivers, stops or requeues one job,
\* forgets what a dead process had published, or takes one job from its owner,
\* after which only its destination is still vouched for.
THEOREM DeliveryIsKept ==
    ASSUME Calm
    PROVE  Spec => DeliversAsPromised
  <1>1. Init => Promise!Init
    BY DEF Init, Promise!Init, Phase
  <1>2. IInv /\ [Next]_vars => [Promise!Next]_(Promise!vars)
    <2>. SUFFICES ASSUME IInv, [Next]_vars PROVE PromiseStep
      BY DEF PromiseStep
    <2>0. TypeOK /\ Ownership /\ FileInv
      BY DEF IInv
    <2>1. CASE UNCHANGED vars
      BY <2>1, Stutters DEF vars, files, window, Phase, Published
    <2>2. CASE Next
      BY <2>0, <2>2, Steps, PreparingPromise, ExecutingPromise, ApplyingPromise,
         SettlingPromise, SettlingDisowns, DisowningPromise, WindowPromise, OthersPromise
    <2>. QED
      BY <2>1, <2>2
  <1>3. Spec => []IInv
    BY Invariance
  <1>. QED
    BY <1>1, <1>2, <1>3, PTL DEF Spec, DeliversAsPromised, Promise!Spec
=============================================================================
