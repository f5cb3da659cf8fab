--------------------------- MODULE ChainRunProofs ---------------------------
(* Theorems about ChainRun for chains of every length and any number of     *)
(* attempts.  DeliversLastHop and FailedDeliversNothing are not inductive:  *)
(* they speak of recorded states, so the invariant carries the publication  *)
(* of the last hop along the way from the commit to the record.  From the   *)
(* same invariant the chain is shown to implement Delivery, as QueueWindow  *)
(* is in QueueWindowProofs: what is published and delivered is the output   *)
(* of the job and not of a hop.                                             *)
EXTENDS ChainRun, TLAPS

Success == {"completed", "warning"}

\* the current attempt has published
Own == final.from = "chain" /\ final.attempt = attempt

\* what the position in the window says about the stored state
StateFollows ==
    /\ at \in Working \cup {"ended", "panic"} => state = "running"
    /\ at = "reported" => state = "validating"
    /\ recovery => at = "no"

\* a result on its way to the store is the product of the last hop
OnItsWay ==
    /\ final.from = "chain" => final.hop = Hops /\ final.attempt <= attempt
    /\ at \in {"cleaning", "ended"} /\ outcome = "ok" => final = Product(Hops)
    /\ at = "reported" \/ state \in Success => final = Product(Hops)

\* where a job can be whose attempt has published
OwnPlaces ==
    \/ littered \/ at \in {"reported", "panic"}
    \/ at \in {"cleaning", "ended"} /\ outcome = "ok"
    \/ /\ at = "no"
       /\ state \in Success \cup {"running", "validating", "interrupted", "cancelled"}

\* where a partial of the last hop can be
PartialsKnown ==
    /\ partials \subseteq 0..attempt
    /\ attempt \in partials => \/ littered \/ (leaked /\ outcome = "error")
                               \/ (at \in InHop /\ hop = Hops)
    /\ state = "queued" \/ at = "starting" => attempt \notin partials
    /\ at \in InHop => dir # NoDir /\ ~leaked

IInv ==
    /\ TypeOK /\ StateFollows /\ OnItsWay /\ (Own => OwnPlaces) /\ PartialsKnown
    /\ LeftoverExplained /\ QueuedHasNoChainDir

-----------------------------------------------------------------------------
LEMMA InitInv == Init => IInv
<1> SUFFICES ASSUME Init PROVE IInv
  OBVIOUS
<1> USE HopsAssumption, MaxRequeuesAssumption DEF Init, Nothing, NoDir
<1>1. TypeOK
  <2>1. final \in [from : {"nobody", "elsewhere", "chain"}, attempt : 0..MaxRequeues, hop : 0..Hops]
    OBVIOUS
  <2>2. 1 \in 1..Hops /\ 0 \in 0..MaxRequeues
    OBVIOUS
  <2>3. "queued" \in JobState
    BY DEF JobState
  <2> QED
    BY <2>1, <2>2, <2>3 DEF TypeOK, Segments, Working, InHop
<1>2. StateFollows /\ OnItsWay /\ ~Own
  BY DEF StateFollows, OnItsWay, Own, Working, InHop, Success
<1>3. PartialsKnown
  BY DEF PartialsKnown, InHop
<1>4. LeftoverExplained /\ QueuedHasNoChainDir
  BY DEF LeftoverExplained, QueuedHasNoChainDir
<1> QED
  BY <1>1, <1>2, <1>3, <1>4 DEF IInv

USE HopsAssumption, MaxRequeuesAssumption
    DEF At, Go, Working, InHop, StateFollows, OnItsWay, Own, OwnPlaces, Success, Product,
        Segments, LeftoverExplained, QueuedHasNoChainDir, PartialsKnown, NoDir, Nothing, files, run

\* A step of the worker keeps the invariant.
LEMMA ChainStep == IInv /\ (Chain \/ HopFinishes \/ HopFails \/ WorkerPanics \/ PauseImmediate) => IInv'
<1> SUFFICES ASSUME IInv, Chain \/ HopFinishes \/ HopFails \/ WorkerPanics \/ PauseImmediate
             PROVE  IInv'
  OBVIOUS
<1> USE DEF IInv, TypeOK, LeavesHop, LeaksPartial, HopFree, IsFinal
<1>1. CASE ChainStarts
  <2>1. state = "running" /\ dir' = {} /\ at' = "prepare" /\ final = Nothing
    BY <1>1 DEF ChainStarts
  <2>2. hop' \in Segments /\ dir' \subseteq Segments
    BY <1>1, <2>1 DEF ChainStarts
  <2>3. ~Own'
    BY <1>1, <2>1 DEF ChainStarts
  <2>4. TypeOK'
    BY <1>1, <2>1, <2>2 DEF ChainStarts
  <2>5. StateFollows' /\ OnItsWay'
    BY <1>1, <2>1 DEF ChainStarts
  <2>6. LeftoverExplained' /\ QueuedHasNoChainDir'
    BY <1>1, <2>1 DEF ChainStarts
  <2>7. PartialsKnown'
    BY <1>1, <2>1 DEF ChainStarts
  <2> QED
    BY <2>3, <2>4, <2>5, <2>6, <2>7
<1>2. CASE ChainRefused
  BY <1>2 DEF ChainRefused
<1>3. CASE HopStarts
  <2>1. partials' \subseteq 0..MaxRequeues
    BY <1>3 DEF HopStarts
  <2> QED
    BY <1>3, <2>1 DEF HopStarts
<1>4. CASE HopCancelled
  BY <1>4 DEF HopCancelled
<1>5. CASE HopValidated
  BY <1>5 DEF HopValidated
<1>6. CASE HopPublishes
  <2> USE <1>6 DEF HopPublishes
  <2>1. CASE hop = Hops
    <3>1. final' = Product(Hops) /\ at' = "cleaning" /\ outcome' = "ok"
      BY <2>1
    <3>2. partials' = partials \ {attempt} /\ dir' = dir
      BY <2>1
    <3> QED
      BY <2>1, <3>1, <3>2
  <2>2. CASE hop # Hops
    <3>1. dir' = dir \cup {hop} /\ hop' = hop + 1 /\ at' = "prepare"
      BY <2>2
    <3>2. dir' \subseteq Segments /\ hop' \in Segments
      BY <2>2, <3>1
    <3>3. UNCHANGED <<final, partials, outcome>>
      BY <2>2
    <3> QED
      BY <2>2, <3>1, <3>2, <3>3
  <2> QED
    BY <2>1, <2>2
<1>7. CASE ChainCleans
  BY <1>7 DEF ChainCleans
<1>8. CASE CleaningFails
  BY <1>8 DEF CleaningFails
<1>9. CASE HopFinishes
  BY <1>9 DEF HopFinishes
<1>10. CASE HopFails
  <2>1. CASE at \in InHop /\ LeavesHop("error")
    BY <2>1
  <2>2. CASE at \in InHop /\ LeaksPartial
    <3>1. TypeOK' /\ StateFollows' /\ OnItsWay' /\ (Own' => OwnPlaces')
      BY <2>2
    <3>2. PartialsKnown' /\ LeftoverExplained' /\ QueuedHasNoChainDir'
      BY <2>2
    <3> QED
      BY <3>1, <3>2
  <2> QED
    BY <1>10, <2>1, <2>2 DEF HopFails
<1>11. CASE WorkerPanics
  BY <1>11 DEF WorkerPanics
<1>12. CASE PauseImmediate
  BY <1>12 DEF PauseImmediate
<1> QED
  BY <1>1, <1>2, <1>3, <1>4, <1>5, <1>6, <1>7, <1>8, <1>9, <1>10, <1>11, <1>12 DEF Chain

\* A step of the window loop, or the death of its process, keeps the invariant.
LEMMA LoopStep == IInv /\ (WindowStarts \/ Loop \/ Crash) => IInv'
<1> SUFFICES ASSUME IInv, WindowStarts \/ Loop \/ Crash
             PROVE  IInv'
  OBVIOUS
<1> USE DEF IInv, TypeOK, JobState
<1>1. CASE WindowStarts
  BY <1>1 DEF WindowStarts
<1>2. CASE JoinOk
  BY <1>2 DEF JoinOk
<1>3. CASE Completes
  BY <1>3 DEF Completes
<1>4. CASE Stops
  BY <1>4 DEF Stops
<1>5. CASE WindowAborts
  BY <1>5 DEF WindowAborts
<1>6. CASE Crash
  <2>1. /\ at # "no" /\ at' = "no" /\ littered' = (littered \/ dir # NoDir)
        /\ UNCHANGED <<state, attempt, caller, paused, hop, outcome, dir, partials, final, leaked, recovery>>
    BY <1>6 DEF Crash
  <2>2. TypeOK'
    BY ONLY TypeOK, <2>1
  <2>6. StateFollows'
    BY ONLY StateFollows, <2>1
  <2>3. OnItsWay' /\ LeftoverExplained' /\ QueuedHasNoChainDir'
    BY <2>1
  <2>4. Own' => OwnPlaces'
    BY <2>1
  <2>5. PartialsKnown'
    BY <2>1
  <2> QED
    BY <2>2, <2>3, <2>4, <2>5, <2>6
<1> QED
  BY <1>1, <1>2, <1>3, <1>4, <1>5, <1>6 DEF Loop

\* A step of recovery or of a user keeps the invariant.
LEMMA BetweenStep == IInv /\ Between => IInv'
<1> SUFFICES ASSUME IInv, Between
             PROVE  IInv'
  OBVIOUS
<1> USE DEF IInv, TypeOK, JobState, CleanupStagedOutput
<1>1. CASE RecoveryInterrupts
  BY <1>1 DEF RecoveryInterrupts
<1>2. CASE RecoveryCleans
  <2>1. /\ recovery /\ recovery' = FALSE /\ at = "no" /\ dir' = NoDir
        /\ UNCHANGED <<state, attempt, caller, at, hop, outcome, paused, partials, final, littered, leaked>>
    BY <1>2 DEF RecoveryCleans
  <2>2. TypeOK'
    BY ONLY TypeOK, <2>1
  <2>6. StateFollows'
    BY ONLY StateFollows, <2>1
  <2>3. OnItsWay' /\ LeftoverExplained' /\ QueuedHasNoChainDir'
    BY <2>1
  <2>4. Own' => OwnPlaces'
    BY <2>1
  <2>5. PartialsKnown'
    BY <2>1
  <2> QED
    BY <2>2, <2>3, <2>4, <2>5, <2>6
<1>3. CASE RecoveryStops
  <2>1. /\ recovery /\ recovery' = FALSE /\ at = "no"
        /\ UNCHANGED <<state, attempt, caller, at, hop, outcome, paused, dir, partials, final, littered, leaked>>
    BY <1>3 DEF RecoveryStops
  <2>2. TypeOK'
    BY ONLY TypeOK, <2>1
  <2>6. StateFollows'
    BY ONLY StateFollows, <2>1
  <2>3. OnItsWay' /\ LeftoverExplained' /\ QueuedHasNoChainDir'
    BY <2>1
  <2>4. Own' => OwnPlaces'
    BY <2>1
  <2>5. PartialsKnown'
    BY <2>1
  <2> QED
    BY <2>2, <2>3, <2>4, <2>5, <2>6
<1>4. CASE CleanupStaging
  BY <1>4 DEF CleanupStaging
<1>5. CASE ForeignFileAppears
  BY <1>5 DEF ForeignFileAppears, Foreign
<1>6. CASE DestinationFreed
  BY <1>6 DEF DestinationFreed
<1>7. ASSUME NEW action \in {"cancel", "resume", "retry"}, BulkActs(action)
      PROVE  IInv'
  <2> USE DEF BulkEligible, BulkTarget
  <2>1. dir' = NoDir /\ state' \in {"queued", "cancelled"} /\ UNCHANGED <<run, partials, final, littered, leaked, recovery>>
    BY <1>7 DEF BulkActs
  <2>2. \/ state' = "queued" /\ attempt < MaxRequeues /\ attempt' = attempt + 1
        \/ state' = "cancelled" /\ attempt' = attempt
    BY <1>7 DEF BulkActs
  <2>3. state \notin Success \cup {"running", "validating"} /\ at = "no"
    BY <1>7 DEF BulkActs
  <2>4. PartialsKnown'
    BY <2>1, <2>2, <2>3
  <2>5. TypeOK' /\ StateFollows'
    BY <2>1, <2>2, <2>3
  <2>6. OnItsWay' /\ (Own' => OwnPlaces') /\ LeftoverExplained' /\ QueuedHasNoChainDir'
    BY <2>1, <2>2, <2>3
  <2> QED
    BY <2>4, <2>5, <2>6
<1> QED
  BY <1>1, <1>2, <1>3, <1>4, <1>5, <1>6, <1>7 DEF Between

LEMMA NextInv == IInv /\ [Next]_vars => IInv'
<1> SUFFICES ASSUME IInv, [Next]_vars
             PROVE  IInv'
  OBVIOUS
<1>1. CASE UNCHANGED vars
  BY <1>1 DEF IInv, TypeOK, vars
<1> QED
  BY <1>1, ChainStep, LoopStep, BetweenStep DEF Next

\* The conjunction above holds in every reachable state of every chain.
THEOREM InductiveInvariant == Spec => []IInv
BY InitInv, NextInv, PTL DEF Spec

\* Every variable keeps its type (the state of execute_conversion_chain and of
\* the job it runs for).
THEOREM TypeCorrectness == Spec => []TypeOK
<1>1. IInv => TypeOK
  BY DEF IInv
<1> QED
  BY <1>1, InductiveInvariant, PTL

\* Only the last hop of a chain of any length ever reaches the destination, and
\* a job recorded as a success was delivered by its own last attempt.
THEOREM LastHopDelivered == Spec => []DeliversLastHop
<1>1. IInv => DeliversLastHop
  BY DEF IInv, DeliversLastHop
<1> QED
  BY <1>1, InductiveInvariant, PTL

\* A job recorded as Failed by an attempt has nothing of that attempt at its
\* destination, unless the staging directory could not be removed.
THEOREM FailureDeliversNothing == Spec => []FailedDeliversNothing
<1>1. IInv => FailedDeliversNothing
  BY DEF IInv, TypeOK, FailedDeliversNothing
<1> QED
  BY <1>1, InductiveInvariant, PTL

\* No attempt finds the staging directory of an earlier one, and a directory
\* outside a running chain has a crash, a panic or a refused removal to explain
\* it (execute_conversion_chain, staged_output_candidates); a partial beside the
\* destination has one of these or an error that passed the hop's cleanup, and
\* never a hop that published or was cancelled.
THEOREM StagingIsAccountedFor == Spec => [](LeftoverExplained /\ QueuedHasNoChainDir)
<1>1. IInv => LeftoverExplained /\ QueuedHasNoChainDir
  BY DEF IInv
<1> QED
  BY <1>1, InductiveInvariant, PTL

-----------------------------------------------------------------------------
(* A chain keeps the promise of Delivery.                                  *)

PromiseStep == [Promise!Next]_(Promise!vars)

LEMMA Stutters ==
    ASSUME Phase' = Phase, Output' = Output
    PROVE  PromiseStep
BY ONLY Phase' = Phase, Output' = Output DEF PromiseStep, Promise!vars

LEMMA Turns ==
    ASSUME NEW from, NEW to, Phase \in from, Phase' = to
    PROVE  Promise!Turn(ThisJob, from, to)
BY ONLY Phase \in from, Phase' = to DEF Promise!Turn

\* a step that changes the phase alone is a claim, a delivery, a stop, a loss or a requeue
LEMMA PhaseSteps ==
    ASSUME Output' = Output,
           \/ Phase = "waiting" /\ Phase' = "working"
           \/ Phase = "published" /\ Phase' \in {"delivered", "working"}
           \/ Phase \in {"waiting", "working", "published"} /\ Phase' = "stopped"
           \/ Phase = "stopped" /\ Phase' = "waiting"
    PROVE  PromiseStep
<1>1. UNCHANGED [j \in {ThisJob} |-> Output]
  BY ONLY Output' = Output
<1>2. CASE Phase = "waiting" /\ Phase' = "working"
  <2>1. Promise!Claim(ThisJob)
    BY ONLY <1>1, <1>2, Turns DEF Promise!Claim
  <2> QED BY ONLY <2>1 DEF PromiseStep, Promise!Next
<1>3. CASE Phase = "published" /\ Phase' = "delivered"
  <2>1. Promise!Deliver(ThisJob)
    BY ONLY <1>1, <1>3, Turns DEF Promise!Deliver
  <2> QED BY ONLY <2>1 DEF PromiseStep, Promise!Next
<1>4. CASE Phase = "published" /\ Phase' = "working"
  <2>1. Promise!Forget({ThisJob})
    BY ONLY <1>1, <1>4 DEF Promise!Forget
  <2> QED BY ONLY <2>1 DEF PromiseStep, Promise!Next
<1>5. CASE Phase \in {"waiting", "working", "published"} /\ Phase' = "stopped"
  <2>1. Promise!Stop(ThisJob)
    BY ONLY <1>1, <1>5, Turns DEF Promise!Stop
  <2> QED BY ONLY <2>1 DEF PromiseStep, Promise!Next
<1>6. CASE Phase = "stopped" /\ Phase' = "waiting"
  <2>1. Promise!Requeue(ThisJob)
    BY ONLY <1>1, <1>6, Turns DEF Promise!Requeue
  <2> QED BY ONLY <2>1 DEF PromiseStep, Promise!Next
<1> QED BY <1>2, <1>3, <1>4, <1>5, <1>6

\* The worker: only the commit of the last hop is seen, and what is lost after it.
LEMMA WorkerPromise ==
    ASSUME IInv, Chain \/ HopFinishes \/ HopFails \/ WorkerPanics \/ PauseImmediate
    PROVE  PromiseStep
<1> USE DEF IInv, Active, Phase, Published, Output
<1>1. CASE at \in Working /\ state = "running" /\ UNCHANGED <<state, final>>
  <2>1. Output' = Output /\ Phase \in {"working", "published"} /\ Phase' \in {"working", "published"}
    BY <1>1
  <2>2. ~(HopPublishes /\ IsFinal(hop))
    BY <1>1 DEF HopPublishes, HopFree, IsFinal, Nothing, Product
  <2>3. Published' => Published
    BY <1>1, <2>2 DEF Chain, ChainStarts, ChainRefused, HopStarts, HopCancelled, HopValidated,
       IsFinal, HopPublishes, ChainCleans, CleaningFails, HopFinishes, HopFails, LeavesHop, LeaksPartial,
       WorkerPanics, PauseImmediate, Working, InHop
  <2>4. Phase' = "published" => Phase = "published"
    BY <1>1, <2>3
  <2> HIDE DEF Phase, Output
  <2>5. Phase' = Phase \/ (Phase = "published" /\ Phase' = "working")
    BY ONLY <2>1, <2>4
  <2> QED BY ONLY <2>1, <2>5, Stutters, PhaseSteps
<1>2. at \in Working /\ state = "running" /\ UNCHANGED state
  BY DEF Chain, ChainStarts, ChainRefused, HopStarts, HopCancelled, HopValidated, HopPublishes,
     ChainCleans, CleaningFails, HopFinishes, HopFails, LeavesHop, LeaksPartial, WorkerPanics, PauseImmediate
<1>3. CASE HopPublishes /\ IsFinal(hop)
  <2>1. /\ Phase = "working" /\ Phase' = "published"
        /\ Output = "none" /\ Output' = "valid"
    BY <1>2, <1>3 DEF HopPublishes, HopFree, IsFinal, Nothing, Product
  <2> HIDE DEF Phase, Output
  <2>2. Promise!Publish(ThisJob)
    BY ONLY <2>1, Turns DEF Promise!Publish
  <2> QED BY ONLY <2>2 DEF PromiseStep, Promise!Next
<1>4. CASE ~(HopPublishes /\ IsFinal(hop))
  <2>1. UNCHANGED final
    BY <1>4 DEF Chain, ChainStarts, ChainRefused, HopStarts, HopCancelled, HopValidated,
       HopPublishes, ChainCleans, CleaningFails, HopFinishes, HopFails, LeavesHop, LeaksPartial, WorkerPanics,
       PauseImmediate
  <2> QED BY <1>1, <1>2, <2>1
<1> QED BY <1>3, <1>4

\* The window: it claims, delivers what was published, or stops.
LEMMA WindowPromise ==
    ASSUME IInv, WindowStarts \/ Loop \/ Crash
    PROVE  PromiseStep
<1> USE DEF IInv, Active, Phase, Published, Output
<1>1. Output' = Output
  BY DEF WindowStarts, Loop, JoinOk, Completes, Stops, WindowAborts, Crash
<1>2. CASE WindowStarts
  <2>1. Phase = "waiting" /\ Phase' = "working"
    BY <1>2 DEF WindowStarts
  <2> QED BY ONLY <1>1, <2>1, PhaseSteps
<1>3. CASE JoinOk
  <2>1. Phase' = Phase
    BY <1>3 DEF JoinOk
  <2> QED BY ONLY <1>1, <2>1, Stutters
<1>4. CASE Completes
  <2>1. Phase = "published" /\ Phase' = "delivered"
    BY <1>4 DEF Completes
  <2> QED BY ONLY <1>1, <2>1, PhaseSteps
<1>5. CASE Stops \/ WindowAborts
  <2>1. Phase \in {"working", "published"} /\ Phase' = "stopped"
    BY <1>5 DEF Stops, WindowAborts
  <2> QED BY ONLY <1>1, <2>1, PhaseSteps
<1>6. CASE Crash
  <2>1. Phase' = Phase \/ (Phase = "published" /\ Phase' = "working")
    BY <1>6 DEF Crash
  <2> QED BY ONLY <1>1, <2>1, Stutters, PhaseSteps
<1> QED BY <1>2, <1>3, <1>4, <1>5, <1>6 DEF Loop

\* Recovery stops, a user stops or requeues, and the destination is filled or freed by others.
LEMMA OthersPromise ==
    ASSUME IInv, Between
    PROVE  PromiseStep
<1> USE DEF IInv, Active, Phase, Published, Output
<1>1. CASE RecoveryInterrupts
  <2>1. Phase = "working" /\ Phase' = "stopped" /\ Output' = Output
    BY <1>1 DEF RecoveryInterrupts
  <2> QED BY ONLY <2>1, PhaseSteps
<1>2. CASE RecoveryCleans \/ RecoveryStops \/ CleanupStaging
  <2>1. Phase' = Phase /\ Output' = Output
    BY <1>2 DEF RecoveryCleans, RecoveryStops, CleanupStaging
  <2> QED BY ONLY <2>1, Stutters
<1>3. CASE ForeignFileAppears
  <2>1. Phase' = Phase /\ Output = "none" /\ Output' = "foreign"
    BY <1>3 DEF ForeignFileAppears, Foreign, Nothing
  <2> HIDE DEF Phase, Output
  <2>2. Promise!Intrude(ThisJob)
    BY ONLY <2>1 DEF Promise!Intrude
  <2> QED BY ONLY <2>2 DEF PromiseStep, Promise!Next
<1>4. CASE DestinationFreed
  <2>1. /\ Phase' = Phase /\ Phase \notin {"published", "delivered"}
        /\ Output # "none" /\ Output' = "none"
    BY <1>4 DEF DestinationFreed, Nothing
  <2> HIDE DEF Phase, Output
  <2>2. Promise!Free(ThisJob)
    BY ONLY <2>1 DEF Promise!Free
  <2> QED BY ONLY <2>2 DEF PromiseStep, Promise!Next
<1>5. ASSUME NEW action \in {"cancel", "resume", "retry"}, BulkActs(action)
      PROVE  PromiseStep
  <2>1. Output' = Output
    BY <1>5 DEF BulkActs
  <2>2. CASE action = "cancel"
    <3>1. Phase \in {"waiting", "working", "published", "stopped"} /\ Phase' = "stopped"
      BY <1>5, <2>2 DEF BulkActs, BulkEligible, BulkTarget
    <3> HIDE DEF Phase, Output
    <3> QED BY ONLY <2>1, <3>1, Stutters, PhaseSteps
  <2>3. CASE action # "cancel"
    <3>1. Phase = "stopped" /\ Phase' = "waiting"
      BY <1>5, <2>3 DEF BulkActs, BulkEligible, BulkTarget
    <3> QED BY ONLY <2>1, <3>1, PhaseSteps
  <2> QED BY <2>2, <2>3
<1> QED BY <1>1, <1>2, <1>3, <1>4, <1>5 DEF Between

\* A chain of any length, over any number of attempts, implements Delivery: no step of a hop is
\* seen but the commit of the last, which happens into an empty destination, and a success is
\* recorded only by the attempt that made it (execute_conversion_chain, run_chain_segments).
THEOREM ChainKeepsThePromise == Spec => ChainDelivers
<1>1. Init => Promise!Init
  BY DEF Init, Promise!Init, Phase, Output, Nothing
<1>2. IInv /\ [Next]_vars => [Promise!Next]_(Promise!vars)
  <2> SUFFICES ASSUME IInv, [Next]_vars PROVE PromiseStep
    BY DEF PromiseStep
  <2>1. CASE UNCHANGED vars
    <3>1. Phase' = Phase /\ Output' = Output
      BY <2>1 DEF vars, Phase, Output, Published
    <3> QED BY ONLY <3>1, Stutters
  <2>2. CASE Next
    BY <2>2, WorkerPromise, WindowPromise, OthersPromise DEF Next
  <2> QED BY <2>1, <2>2
<1> QED BY <1>1, <1>2, InductiveInvariant, PTL DEF Spec, ChainDelivers, Promise!Spec
=============================================================================
