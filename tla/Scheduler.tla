----------------------------- MODULE Scheduler -----------------------------
(***************************************************************************)
(* The resource scheduler of one queue window (ResourceScheduler) and the  *)
(* loop that asks it: which of the hydrated jobs may start now, and what   *)
(* is given back when.                                                     *)
(*                                                                         *)
(* A plan is a sequence of hops, each a sequence of steps; one hop for     *)
(* most jobs, two for a job that runs a chain.  The request of a job is    *)
(* made from the steps stored with it, which are those of its first hop.   *)
(* Job states and files are the subject of QueueWindow and ChainRun.       *)
(***************************************************************************)
EXTENDS Naturals, Sequences, FiniteSets, FiniteSetsExt

CONSTANTS
    Jobs,           \* the jobs the window hydrates
    Order,          \* the order list_queued_jobs_fair returns them in
    Plans,          \* the plans they may have
    Parallel,       \* the parallelism the user asks for
    LogicalCpus     \* available_parallelism of the machine

StepKind == {"office", "browser", "gpu", "transcode", "render", "remux", "probe"}

NoJob == "no job"

ASSUME JobsAssumption == IsFiniteSet(Jobs) /\ NoJob \notin Jobs /\ Order \in Seq(Jobs)
ASSUME OrderAssumption ==
    \A i, k \in DOMAIN Order : i # k => Order[i] # Order[k]
ASSUME PlansAssumption ==
    \A p \in Plans :
        p \in Seq(Seq(StepKind)) /\ Len(p) > 0
ASSUME MachineAssumption == Parallel \in Nat /\ LogicalCpus \in Nat

-----------------------------------------------------------------------------
(* The policy and the request of a plan.                                   *)

Clamp(n, low, high) == IF n < low THEN low ELSE IF n > high THEN high ELSE n

\* SchedulerPolicy::bounded, memory in MiB
MaxProcesses == Clamp(Parallel, 1, 16)
MaxCpuHeavy == Clamp((LogicalCpus + 1) \div 2, 1, MaxProcesses)
MaxIoHeavy == Clamp(2, 1, MaxProcesses)
MaxGpu == 1
MemoryBudget == 2048

WorkClass == {"lightweight", "io", "cpu", "memory", "gpu", "serial"}

Rank == [c \in WorkClass |->
    CASE c = "lightweight" -> 0 [] c = "io" -> 1 [] c = "cpu" -> 2
      [] c = "memory" -> 3 [] c = "gpu" -> 4 [] c = "serial" -> 5]

ClassMemory == [lightweight |-> 64, io |-> 192, cpu |-> 1024,
                memory |-> 768, gpu |-> 512, serial |-> 1024]

ClassLimit == [cpu |-> MaxCpuHeavy, io |-> MaxIoHeavy, gpu |-> MaxGpu,
               lightweight |-> MaxProcesses, memory |-> MaxProcesses, serial |-> MaxProcesses]

StepClass == [k \in StepKind |->
    CASE k \in {"office", "browser"} -> "serial" [] k = "gpu" -> "gpu"
      [] k = "transcode" -> "cpu" [] k = "render" -> "memory" [] k = "remux" -> "io"
      [] k = "probe" -> "lightweight"]

\* the class of the heaviest step
Class(steps) ==
    LET classes == {"lightweight"} \cup {StepClass[steps[i]] : i \in DOMAIN steps}
    IN  CHOOSE c \in classes : \A d \in classes : Rank[d] <= Rank[c]

NoKey == "none"
Serial == {"office", "browser"}

\* the first serial engine, else the GPU encoder
Key(steps) ==
    IF \E i \in DOMAIN steps : steps[i] \in Serial
    THEN steps[CHOOSE i \in DOMAIN steps :
                steps[i] \in Serial /\ \A k \in 1..(i - 1) : steps[k] \notin Serial]
    ELSE IF Class(steps) = "gpu" THEN "gpu" ELSE NoKey

Memory(steps) == ClassMemory[Class(steps)]

-----------------------------------------------------------------------------
VARIABLES
    plan,       \* the plan of each job
    pending,    \* hydrated jobs still to be admitted, in scanning order
    active,     \* the scheduler's active requests, by job
    keys,       \* the scheduler's exclusivity keys
    reserved,   \* the scheduler's reserved memory
    preparing,  \* the admitted job that is being prepared, or NoJob
    worker,     \* what the worker of each job is doing
    hop,        \* the hop it is in
    listed,     \* active_jobs of the window
    paused,     \* whether admission is cancelled
    phase       \* "run", "abort" or "over"

ledger == <<active, keys, reserved>>
workers == <<worker, hop>>
schedulerVars == <<plan, pending, ledger, preparing, workers, listed, paused, phase>>

Steps(j) == plan[j][1]
Request(j) == Steps(j)      \* request_for_plan looks at the stored steps
Key0(j) == Key(Request(j))

SchedulerTypeOK ==
    /\ plan \in [Jobs -> Plans]
    /\ pending \in Seq(Jobs)
    /\ active \subseteq Jobs
    /\ keys \subseteq {Key0(j) : j \in Jobs}
    /\ reserved \in Nat
    /\ preparing \in Jobs \cup {NoJob}
    /\ worker \in [Jobs -> {"none", "running", "done", "panicked"}]
    /\ hop \in [Jobs -> Nat] /\ \A j \in Jobs : hop[j] \in DOMAIN plan[j]
    /\ listed \subseteq Jobs
    /\ paused \in BOOLEAN
    /\ phase \in {"run", "abort", "over"}

SchedulerInit ==
    /\ plan \in [Jobs -> Plans]
    /\ pending = Order
    /\ active = {} /\ keys = {} /\ reserved = 0
    /\ preparing = NoJob
    /\ worker = [j \in Jobs |-> "none"] /\ hop = [j \in Jobs |-> 1]
    /\ listed = {} /\ paused = FALSE /\ phase = "run"

-----------------------------------------------------------------------------
(* The scheduler.                                                          *)

SameClass(j) == {i \in active : Class(Request(i)) = Class(Request(j))}

\* (mutants) the candidate's own memory is not added; keys are not compared
AdmissibleIfBelow(j) ==
    /\ j \notin active /\ Cardinality(active) < MaxProcesses
    /\ reserved <= MemoryBudget /\ Key0(j) \notin keys
    /\ Cardinality(SameClass(j)) < ClassLimit[Class(Request(j))]
AdmissibleAnyKey(j) ==
    /\ j \notin active /\ Cardinality(active) < MaxProcesses
    /\ reserved + Memory(Request(j)) <= MemoryBudget
    /\ Cardinality(SameClass(j)) < ClassLimit[Class(Request(j))]

\* admission_blocker finds nothing
Admissible(j) ==
    /\ j \notin active
    /\ Cardinality(active) < MaxProcesses
    /\ reserved + Memory(Request(j)) <= MemoryBudget
    /\ Key0(j) \notin keys
    /\ Cardinality(SameClass(j)) < ClassLimit[Class(Request(j))]

TakeResources(j) ==
    /\ active' = active \cup {j}
    /\ reserved' = reserved + Memory(Request(j))
    /\ keys' = keys \cup ({Key0(j)} \ {NoKey})

SaturatingSub(m, n) == IF m > n THEN m - n ELSE 0

\* (mutant) a release that does not ask whether the job is still active
ReleaseAgain(j) ==
    /\ active' = active \ {j}
    /\ reserved' = SaturatingSub(reserved, Memory(Request(j)))
    /\ keys' = keys \ {Key0(j)}

\* release: a job that is not active any more gives nothing back
Release(j) ==
    \/ /\ j \in active /\ active' = active \ {j}
       /\ reserved' = SaturatingSub(reserved, Memory(Request(j)))
       /\ keys' = keys \ {Key0(j)}
    \/ j \notin active /\ UNCHANGED ledger

-----------------------------------------------------------------------------
(* The window loop.                                                        *)

Go(j, w) == worker' = [worker EXCEPT ![j] = w]
NoWorker == \A j \in Jobs : worker[j] = "none"

\* the first candidate of the scan that is admissible is at position k
FirstAdmissible(k) ==
    /\ k \in DOMAIN pending /\ Admissible(pending[k])
    /\ \A i \in 1..(k - 1) : ~Admissible(pending[i])

AtAdmission ==
    /\ phase = "run" /\ preparing = NoJob /\ ~paused
    /\ \E k \in DOMAIN pending : Admissible(pending[k])

\* (mutant) a candidate that is blocked is not put back
ScanForgets(k) == pending' = SubSeq(pending, k + 1, Len(pending))

\* the candidates looked at before went to the back of the queue
Scanned(k) ==
    pending' = SubSeq(pending, k + 1, Len(pending)) \o SubSeq(pending, 1, k - 1)

Admit ==
    /\ phase = "run" /\ preparing = NoJob /\ ~paused
    /\ \E k \in DOMAIN pending :
        /\ FirstAdmissible(k)
        /\ Scanned(k) /\ TakeResources(pending[k])
        /\ preparing' = pending[k] /\ listed' = listed \cup {pending[k]}
    /\ UNCHANGED <<plan, workers, paused, phase>>

\* QueuePreparation::Ready: the worker is spawned
Prepared(j) ==
    /\ phase = "run" /\ preparing = j /\ j \in Jobs
    /\ preparing' = NoJob /\ Go(j, "running")
    /\ UNCHANGED <<plan, pending, ledger, hop, listed, paused, phase>>

\* Blocked, Failed or Contended
Drop(j) ==
    /\ phase = "run" /\ preparing = j /\ j \in Jobs
    /\ preparing' = NoJob /\ listed' = listed \ {j} /\ Release(j)
    /\ UNCHANGED <<plan, pending, workers, paused, phase>>

\* the preparation itself fails: the window is aborted
PrepareErrs(j) ==
    /\ phase = "run" /\ preparing = j /\ j \in Jobs
    /\ preparing' = NoJob /\ phase' = "abort" /\ paused' = TRUE
    /\ UNCHANGED <<plan, pending, ledger, workers, listed>>

\* a joined worker gives its resources back before its outcome is applied,
\* which may fail and abort the window with the job still listed
Join(j) ==
    /\ phase = "run" /\ preparing = NoJob /\ ~AtAdmission
    /\ worker[j] = "done" /\ Go(j, "none") /\ Release(j)
    /\ \/ listed' = listed \ {j} /\ UNCHANGED <<paused, phase>>
       \/ phase' = "abort" /\ paused' = TRUE /\ UNCHANGED listed
    /\ UNCHANGED <<plan, pending, preparing, hop>>

\* a panicked worker does not say which job it had: nothing is released yet
JoinPanicked(j) ==
    /\ phase = "run" /\ preparing = NoJob /\ ~AtAdmission
    /\ worker[j] = "panicked" /\ Go(j, "none")
    /\ phase' = "abort" /\ paused' = TRUE
    /\ UNCHANGED <<plan, pending, ledger, preparing, hop, listed>>

Finish ==
    /\ phase = "run" /\ preparing = NoJob /\ NoWorker
    /\ paused \/ pending = <<>>
    /\ phase' = "over"
    /\ UNCHANGED <<plan, pending, ledger, preparing, workers, listed, paused>>

\* abort_active_window: workers are joined, then every listed job is released,
\* those that were released before included
AbortJoins(j) ==
    /\ phase = "abort" /\ worker[j] \in {"done", "panicked"} /\ Go(j, "none")
    /\ \/ worker[j] = "done" /\ Release(j)
       \/ worker[j] = "panicked" /\ UNCHANGED ledger
    /\ UNCHANGED <<plan, pending, preparing, hop, listed, paused, phase>>

AbortReleases(j) ==
    /\ phase = "abort" /\ NoWorker /\ j \in listed
    /\ Release(j) /\ listed' = listed \ {j}
    /\ UNCHANGED <<plan, pending, preparing, workers, paused, phase>>

AbortReturns ==
    /\ phase = "abort" /\ NoWorker /\ listed = {}
    /\ phase' = "over"
    /\ UNCHANGED <<plan, pending, ledger, preparing, workers, listed, paused>>

Pause ==
    /\ phase = "run" /\ ~paused /\ paused' = TRUE
    /\ UNCHANGED <<plan, pending, ledger, preparing, workers, listed, phase>>

-----------------------------------------------------------------------------
(* The workers.                                                            *)

\* run_chain_segments goes on to the next hop
NextHop(j) ==
    /\ worker[j] = "running" /\ hop[j] < Len(plan[j])
    /\ hop' = [hop EXCEPT ![j] = @ + 1]
    /\ UNCHANGED <<plan, pending, ledger, preparing, worker, listed, paused, phase>>

\* with a success or an error
WorkerEnds(j) ==
    /\ worker[j] = "running" /\ Go(j, "done")
    /\ UNCHANGED <<plan, pending, ledger, preparing, hop, listed, paused, phase>>

WorkerPanics(j) ==
    /\ worker[j] = "running" /\ Go(j, "panicked")
    /\ UNCHANGED <<plan, pending, ledger, preparing, hop, listed, paused, phase>>

Loop ==
    \/ Admit \/ Finish \/ AbortReturns
    \/ \E j \in Jobs :
        \/ Prepared(j) \/ Drop(j) \/ PrepareErrs(j) \/ Join(j) \/ JoinPanicked(j)
        \/ AbortJoins(j) \/ AbortReleases(j)

SchedulerNext ==
    \/ Loop \/ Pause
    \/ \E j \in Jobs : NextHop(j) \/ WorkerEnds(j) \/ WorkerPanics(j)

SchedulerSpec == SchedulerInit /\ [][SchedulerNext]_schedulerVars

\* the loop keeps going, and every conversion ends some day
FairSchedulerSpec ==
    SchedulerSpec /\ WF_schedulerVars(Loop) /\ \A j \in Jobs : WF_schedulerVars(WorkerEnds(j))

-----------------------------------------------------------------------------
Total(js) == MapThenSumSet(LAMBDA j : Memory(Request(j)), js)

Busy == {j \in Jobs : worker[j] # "none"}

\* The ledger is what the active jobs hold, no more and no less, although jobs
\* are released in some paths twice, and every job with a worker is among them
\* (ResourceScheduler::release).
AccountingExact ==
    /\ reserved = Total(active)
    /\ keys = {Key0(j) : j \in active} \ {NoKey}
    /\ Busy \subseteq active

\* The jobs that have a worker never exceed the policy, whichever of them came
\* and went before (admission_blocker).
WithinPolicy ==
    /\ Cardinality(Busy) <= MaxProcesses
    /\ reserved <= MemoryBudget
    /\ \A c \in WorkClass :
        Cardinality({j \in Busy : Class(Request(j)) = c}) <= ClassLimit[c]

\* No two active jobs hold the same exclusivity key (try_admit, release).
ExclusiveKeys ==
    \A i, j \in active : i # j => Key0(i) = NoKey \/ Key0(i) # Key0(j)

\* The error "No queued job fits within the configured scheduler resource
\* budget" is never returned: with no worker left to wait for, a candidate
\* that is still pending is admissible.
NeverExhausted ==
    phase = "run" /\ preparing = NoJob /\ NoWorker /\ ~paused /\ pending # <<>> =>
        AtAdmission

\* The ledger of the scheduler is exact and lets the window go on: what it
\* holds is what its active jobs reserved, and it never blocks without one
\* (try_admit, release and their callers on every way out of a job).
LedgerHolds == AccountingExact /\ NeverExhausted

\* Every hydrated job gets its turn unless the window is paused or aborted: a
\* heavy job is not passed over for ever by lighter ones behind it.
EveryoneServed ==
    \A j \in Jobs :
        (\E i \in DOMAIN pending : pending[i] = j) ~> (j \in active \/ paused)

-----------------------------------------------------------------------------
(* What the documents say and the code does not keep (see README.md).      *)

\* crates/core/src/scheduler.rs: one browser instance prints at a time, and one
\* office renderer, whatever hop of its plan a worker is in.
OneInstance ==
    \A i, j \in Jobs :
        i # j /\ worker[i] = "running" /\ worker[j] = "running" =>
            LET held == Key(plan[i][hop[i]])
            IN  held = NoKey \/ held # Key(plan[j][hop[j]])
=============================================================================
