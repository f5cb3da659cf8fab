------------------------------ MODULE JobStore ------------------------------
(***************************************************************************)
(* The durable job store of crates/core/src/job_store.rs: one SQLite       *)
(* database that every surface (CLI, desktop, server, queue windows) opens *)
(* through its own connection.  Every mutation runs in an IMMEDIATE        *)
(* transaction, so at most one writer exists at a time.  A call that       *)
(* touches one job is one action here.  A call that loops over many jobs   *)
(* (batch creation, queue_jobs, a bulk action) is a transaction whose      *)
(* members are processed one step at a time while `txn' holds the writer   *)
(* lock; it ends in a commit, or in a rollback to the snapshot taken when  *)
(* it began (an error return, a crash of the process, or a failing         *)
(* staging-cleanup callback all drop the transaction uncommitted).         *)
(***************************************************************************)
EXTENDS Naturals, Sequences, JobStates

CONSTANTS
    Jobs,       \* job IDs that may ever be created
    Paths,      \* output_path texts a request may name
    Keys,       \* output identities (canonical_output_path values)
    TextKey,    \* [Paths -> Keys]: the key spelled like the path text itself
    Intents,    \* (input_path, plan_hash) pairs a request may carry
    IdemKeys,   \* idempotency keys clients use
    MaxSeq,     \* bound: no job records more than MaxSeq events after creation
    MaxMembers, \* bound: members of one multi-job transaction
    NoJob       \* the absence of a job

ASSUME TextKeyAssumption == TextKey \in [Paths -> Keys]
ASSUME BoundsAssumption == MaxSeq \in Nat /\ MaxMembers \in Nat
ASSUME NoJobAssumption == NoJob \notin Jobs

VARIABLES
    state,      \* jobs.state, or "absent" before the row exists
    request,    \* jobs.input_path/plan_hash and jobs.output_path, never updated
    sequence,   \* jobs.sequence
    events,     \* job_events of each job in sequence order
    owner,      \* output_reservations: key -> owning job (PRIMARY KEY on the key)
    bound,      \* job_idempotency_keys: key -> job
    evidence,   \* jobs that have a job_revalidations row
    identity,   \* the filesystem: what resolve_output_identity answers per path
    txn         \* the open multi-job transaction, or Idle

store == <<state, request, sequence, events, owner, bound, evidence>>
vars == <<state, request, sequence, events, owner, bound, evidence, identity, txn>>

Request == [intent : Intents, output : Paths]
NoRequest == [intent |-> "none", output |-> "none"]

Event == [sequence : Nat, previous : JobState \cup {"null"}, next : JobState]

Exists(j) == state[j] # "absent"
Live(j) == Exists(j) /\ state[j] \notin SqlTerminal

-----------------------------------------------------------------------------
(* Output reservations.                                                    *)

\* reservation_key of a path, resolved at the moment of the call
KeyOf(path) == identity[path]

OwnedKeys(j) == {k \in Keys : owner[k] = j}

\* (mutant) a key the job itself holds counts as taken
CanReserveFree(j, path) == owner[KeyOf(path)] = NoJob

\* reserve_output succeeds: the key is free or already this job's
CanReserve(j, path) == owner[KeyOf(path)] \in {NoJob, j}

\* (mutant) the key the job held under an earlier resolution is left behind
ReserveKeepsOld(j, path) == [owner EXCEPT ![KeyOf(path)] = j]

\* reserve_output: a different key the job held is deleted first
Reserve(j, path) ==
    [k \in Keys |-> IF k = KeyOf(path) THEN j
                    ELSE IF owner[k] = j THEN NoJob ELSE owner[k]]

\* DELETE FROM output_reservations WHERE job_id = ?
Release(j) == [k \in Keys |-> IF owner[k] = j THEN NoJob ELSE owner[k]]

-----------------------------------------------------------------------------
(* Row writers shared by the operations.                                   *)

\* (mutant) the event is numbered before the row's sequence is advanced
WriteStateEarlyNumber(j, next) ==
    /\ state' = [state EXCEPT ![j] = next]
    /\ sequence' = [sequence EXCEPT ![j] = @ + 1]
    /\ events' = [events EXCEPT ![j] = Append(@,
            [sequence |-> sequence[j], previous |-> state[j], next |-> next])]

\* UPDATE jobs SET state, sequence + 1 ... and its job_events row
WriteState(j, next) ==
    /\ state' = [state EXCEPT ![j] = next]
    /\ sequence' = [sequence EXCEPT ![j] = @ + 1]
    /\ events' = [events EXCEPT ![j] = Append(@,
            [sequence |-> sequence[j] + 1, previous |-> state[j], next |-> next])]

\* a transition's whole write set: reservation first, row and event, release last
ApplyTransition(j, next) ==
    /\ WriteState(j, next)
    /\ \/ next = "queued" /\ owner' = Reserve(j, request[j].output)
       \/ IsTerminal(next) /\ owner' = Release(j)
       \/ next # "queued" /\ ~IsTerminal(next) /\ owner' = owner

\* insert_jobs for one request, plus the second UPDATE of an enqueueing caller
InsertJob(j, r, enqueue) ==
    LET created == [sequence |-> 0, previous |-> "null", next |-> "planned"]
        queued == [sequence |-> 1, previous |-> "planned", next |-> "queued"]
    IN  /\ request' = [request EXCEPT ![j] = r]
        /\ owner' = Reserve(j, r.output)
        /\ state' = [state EXCEPT ![j] = IF enqueue THEN "queued" ELSE "planned"]
        /\ sequence' = [sequence EXCEPT ![j] = IF enqueue THEN 1 ELSE 0]
        /\ events' = [events EXCEPT ![j] =
                        IF enqueue THEN <<created, queued>> ELSE <<created>>]

-----------------------------------------------------------------------------
(* Single-job transactions.                                                *)

Idle == [kind |-> "idle", members |-> <<>>, todo |-> <<>>, saved |-> <<>>,
         outcome |-> <<>>]
NoWriter == txn.kind = "idle"

\* SqliteJobStore::transition, open to every caller and every target
Transition(j, next) ==
    /\ NoWriter
    /\ sequence[j] < MaxSeq
    /\ Exists(j)
    /\ CanTransition(state[j], next)
    /\ next = "queued" => CanReserve(j, request[j].output)
    /\ ApplyTransition(j, next)
    /\ UNCHANGED <<request, bound, evidence, identity, txn>>

\* claim_queued_job: any other state is Ok(None) and writes nothing
ClaimQueuedJob(j) ==
    /\ NoWriter
    /\ sequence[j] < MaxSeq
    /\ state[j] = "queued"
    /\ WriteState(j, "inspecting")
    /\ UNCHANGED <<request, owner, bound, evidence, identity, txn>>

\* cleanup_staging_persisted: a same-state event records the cleanup
CleanupStaging(j) ==
    /\ NoWriter
    /\ sequence[j] < MaxSeq
    /\ state[j] \in {"blocked", "failed", "cancelled", "interrupted"}
    /\ WriteState(j, state[j])
    /\ UNCHANGED <<request, owner, bound, evidence, identity, txn>>

\* record_revalidation of a report whose plan hash matches the stored one
RecordRevalidation(j) ==
    /\ NoWriter
    /\ state[j] \in {"completed", "warning", "failed"}
    /\ evidence' = evidence \cup {j}
    /\ UNCHANGED <<state, request, sequence, events, owner, bound, identity, txn>>

\* (mutant) the key is bound again instead of answering with the bound job
CreateIdempotentRebinds(k, j, r, enqueue) ==
    /\ NoWriter
    /\ ~Exists(j)
    /\ CanReserve(j, r.output)
    /\ InsertJob(j, r, enqueue)
    /\ bound' = [bound EXCEPT ![k] = j]
    /\ UNCHANGED <<evidence, identity, txn>>

\* create_job_idempotent / enqueue_job_idempotent with a key not yet bound.
\* A replay of a bound key returns the bound job, and a drifted intent is
\* refused: neither writes.
CreateIdempotent(k, j, r, enqueue) ==
    /\ NoWriter
    /\ bound[k] = NoJob
    /\ ~Exists(j)
    /\ CanReserve(j, r.output)
    /\ InsertJob(j, r, enqueue)
    /\ bound' = [bound EXCEPT ![k] = j]
    /\ UNCHANGED <<evidence, identity, txn>>

\* migrate, run by every open: INSERT OR IGNORE a reservation, under the raw
\* path text, for each job outside the SQL list that holds none
OpenDatabase ==
    LET missing == {j \in Jobs : Exists(j) /\ state[j] \notin SqlTerminal
                                           /\ OwnedKeys(j) = {}}
        claimants(k) == {j \in missing : TextKey[request[j].output] = k}
    IN  /\ NoWriter
        /\ owner' \in [Keys -> Jobs \cup {NoJob}]
        /\ \A k \in Keys :
              IF owner[k] = NoJob /\ claimants(k) # {}
              THEN owner'[k] \in claimants(k) ELSE owner'[k] = owner[k]
        /\ UNCHANGED <<state, request, sequence, events, bound, evidence,
                       identity, txn>>

-----------------------------------------------------------------------------
(* Multi-job transactions.                                                 *)

CreateKinds == {"create", "enqueue"}
BulkKinds == {"cancel", "resume", "retry"}
TxnKinds == CreateKinds \cup {"queue"} \cup BulkKinds

\* lists of distinct job IDs: a request slice, queue_jobs' argument, or the
\* ordered membership of a selection snapshot, which is fixed when captured
MemberLists ==
    {m \in UNION {[1..n -> Jobs] : n \in 1..MaxMembers} :
        \A a, b \in DOMAIN m : m[a] = m[b] => a = b}

\* transaction_with_behavior(Immediate): the writer lock and the rollback image
TxnBegin(kind, members) ==
    /\ NoWriter
    /\ \A i \in DOMAIN members :
          IF kind \in CreateKinds THEN ~Exists(members[i]) ELSE Exists(members[i])
    /\ txn' = [kind |-> kind, members |-> members, todo |-> members,
               saved |-> store, outcome |-> [j \in Jobs |-> "pending"]]
    /\ UNCHANGED <<store, identity>>

\* create_batch_inner / create_jobs: the next request of the slice
TxnCreateMember(r) ==
    LET j == Head(txn.todo)
    IN  /\ txn.kind \in CreateKinds
        /\ txn.todo # <<>>
        /\ ~Exists(j)
        /\ CanReserve(j, r.output)
        /\ InsertJob(j, r, txn.kind = "enqueue")
        /\ txn' = [txn EXCEPT !.todo = Tail(@), !.outcome[j] = "transitioned"]
        /\ UNCHANGED <<bound, evidence, identity>>

\* queue_jobs: an illegal state or a taken output fails the whole call, which
\* only TxnRollback can then end
TxnQueueMember ==
    LET j == Head(txn.todo)
    IN  /\ txn.kind = "queue"
        /\ txn.todo # <<>>
        /\ CanTransition(state[j], "queued")
        /\ CanReserve(j, request[j].output)
        /\ sequence[j] < MaxSeq
        /\ ApplyTransition(j, "queued")
        /\ txn' = [txn EXCEPT !.todo = Tail(@), !.outcome[j] = "transitioned"]
        /\ UNCHANGED <<request, bound, evidence, identity>>

\* apply_bulk_action_transaction: one selected job gets one recorded outcome
TxnBulkMember ==
    LET j == Head(txn.todo)
        next == BulkTarget(txn.kind)
        refused == next = "queued" /\ ~CanReserve(j, request[j].output)
        record(outcome) ==
            txn' = [txn EXCEPT !.todo = Tail(@), !.outcome[j] = outcome]
    IN  /\ txn.kind \in BulkKinds
        /\ txn.todo # <<>>
        /\ \/ /\ ~BulkEligible(txn.kind, state[j])
              /\ record("skipped-state")
              /\ UNCHANGED <<state, sequence, events, owner>>
           \/ /\ BulkEligible(txn.kind, state[j]) /\ refused
              /\ record("skipped-output-conflict")
              /\ UNCHANGED <<state, sequence, events, owner>>
           \/ /\ BulkEligible(txn.kind, state[j]) /\ ~refused
              /\ sequence[j] < MaxSeq
              /\ record("transitioned")
              /\ ApplyTransition(j, next)
        /\ UNCHANGED <<request, bound, evidence, identity>>

TxnCommit ==
    /\ ~NoWriter
    /\ txn.todo = <<>>
    /\ txn' = Idle
    /\ UNCHANGED <<store, identity>>

\* the transaction is dropped uncommitted: an error on a member, a failing
\* cleanup callback, a storage error or the death of the process
TxnRollback ==
    /\ ~NoWriter
    /\ txn' = Idle
    /\ state' = txn.saved[1]
    /\ request' = txn.saved[2]
    /\ sequence' = txn.saved[3]
    /\ events' = txn.saved[4]
    /\ owner' = txn.saved[5]
    /\ bound' = txn.saved[6]
    /\ evidence' = txn.saved[7]
    /\ UNCHANGED identity

-----------------------------------------------------------------------------
\* the environment retargets a link below an output path
RetargetPath(p, k) ==
    /\ identity' = [identity EXCEPT ![p] = k]
    /\ UNCHANGED <<store, txn>>

Init ==
    /\ state = [j \in Jobs |-> "absent"]
    /\ request = [j \in Jobs |-> NoRequest]
    /\ sequence = [j \in Jobs |-> 0]
    /\ events = [j \in Jobs |-> <<>>]
    /\ owner = [k \in Keys |-> NoJob]
    /\ bound = [k \in IdemKeys |-> NoJob]
    /\ evidence = {}
    /\ identity = TextKey
    /\ txn = Idle

Next ==
    \/ \E j \in Jobs, next \in JobState : Transition(j, next)
    \/ \E j \in Jobs : ClaimQueuedJob(j)
    \/ \E j \in Jobs : CleanupStaging(j)
    \/ \E j \in Jobs : RecordRevalidation(j)
    \/ \E k \in IdemKeys, j \in Jobs, r \in Request, q \in BOOLEAN :
            CreateIdempotent(k, j, r, q)
    \/ OpenDatabase
    \/ \E kind \in TxnKinds, m \in MemberLists : TxnBegin(kind, m)
    \/ \E r \in Request : TxnCreateMember(r)
    \/ TxnQueueMember
    \/ TxnBulkMember
    \/ TxnCommit
    \/ TxnRollback
    \/ \E p \in Paths, k \in Keys : RetargetPath(p, k)

Spec == Init /\ [][Next]_vars

-----------------------------------------------------------------------------
(* Properties.                                                             *)

\* Every variable keeps its shape: the rows of job_store.rs's tables.
TypeOK ==
    /\ state \in [Jobs -> JobState \cup {"absent"}]
    /\ request \in [Jobs -> Request \cup {NoRequest}]
    /\ sequence \in [Jobs -> Nat]
    /\ events \in [Jobs -> Seq(Event)]
    /\ owner \in [Keys -> Jobs \cup {NoJob}]
    /\ bound \in [IdemKeys -> Jobs \cup {NoJob}]
    /\ evidence \subseteq Jobs
    /\ identity \in [Paths -> Keys]
    /\ txn.kind \in TxnKinds \cup {"idle"}

\* The two reservation queries of the integrity check (maintenance.rs) find
\* nothing at any moment: a job that is not terminal holds exactly one output
\* reservation, whatever links were retargeted since, and a terminal or unborn
\* job holds none.
ReservationIntegrity ==
    \A j \in Jobs :
        IF Live(j) THEN \E k \in Keys : OwnedKeys(j) = {k} ELSE OwnedKeys(j) = {}

\* The event queries of the integrity check find nothing: event numbers run
\* from 0 without gaps, each event starts in the state the one before it ended
\* in, and the last one agrees with the jobs row in number and in state.
HistoryIntegrity ==
    \A j \in Jobs :
        LET history == events[j]
        IN  IF ~Exists(j) THEN history = <<>>
            ELSE /\ Len(history) = sequence[j] + 1
                 /\ history[Len(history)].next = state[j]
                 /\ \A i \in DOMAIN history :
                        /\ history[i].sequence = i - 1
                        /\ i > 1 => history[i].previous = history[i - 1].next

\* Claiming is what licenses a run: between two entries of a job into Running
\* its history shows a return to the queue and a new claim, so one claim never
\* starts the engine twice (ADR-0003).
OneRunPerClaim ==
    \A j \in Jobs : \A a, b \in DOMAIN events[j] :
        (a < b /\ events[j][a].next = "running" /\ events[j][b].next = "running")
            => \E q, c \in a..b : /\ q < c
                                 /\ events[j][q].next = "queued"
                                 /\ events[j][c].next = "inspecting"

\* A successful outcome is never rewritten by any later call: no step takes a
\* job out of Completed or Warning, not even the rollback of a transaction.
SuccessIsFinal ==
    [][\A j \in Jobs : state[j] \in {"completed", "warning"} => state'[j] = state[j]]_vars

\* create_jobs, create_batch, create_queued_batch and queue_jobs are all or
\* nothing: when the writer lock is released either every member moved, or the
\* rows, events and reservations are those the transaction began with.
AllOrNothing ==
    [][(txn.kind \in CreateKinds \cup {"queue"} /\ txn'.kind = "idle") =>
        \/ \A i \in DOMAIN txn.members :
                /\ state'[txn.members[i]] =
                        IF txn.kind = "create" THEN "planned" ELSE "queued"
                /\ \E k \in Keys : owner'[k] = txn.members[i]
        \/ store' = txn.saved]_vars

\* the destination of a job, as it resolves now, belongs to another unfinished job
HeldByAnother(j) ==
    LET holder == owner[KeyOf(request[j].output)]
    IN  holder \in Jobs \ {j} /\ Live(holder)

\* The outcome a bulk action records for a member is what happened to it: when
\* the transaction commits, a transitioned member is in the action's target state
\* and a skipped one was not touched; and a member is only ever skipped for its
\* output when, at its turn, an unfinished job other than itself holds the very
\* destination it asks for (apply_bulk_action_transaction).
BulkOutcomesTruthful ==
    [][/\ (txn.kind \in BulkKinds /\ txn.todo = <<>> /\ txn'.kind = "idle"
                                 /\ store' = store) =>
            \A i \in DOMAIN txn.members :
                LET j == txn.members[i]
                    before == txn.saved[1][j]
                IN  CASE txn.outcome[j] = "transitioned" ->
                            /\ BulkEligible(txn.kind, before)
                            /\ state[j] = BulkTarget(txn.kind)
                      [] txn.outcome[j] = "skipped-state" ->
                            state[j] = before /\ ~BulkEligible(txn.kind, before)
                      [] txn.outcome[j] = "skipped-output-conflict" ->
                            state[j] = before /\ BulkEligible(txn.kind, before)
                      [] OTHER -> FALSE
       /\ (txn.kind \in BulkKinds /\ txn'.kind = txn.kind) =>
            \A j \in Jobs :
                txn.outcome[j] = "pending" /\ txn'.outcome[j] = "skipped-output-conflict"
                    => HeldByAnother(j)]_vars

\* An idempotency key, once its transaction committed, answers with the same
\* job and the same stored intent for ever.
BindingStable ==
    [][\A k \in IdemKeys : bound[k] # NoJob =>
            /\ bound'[k] = bound[k]
            /\ request'[bound[k]] = request[bound[k]]]_vars

\* Opening the database again never invents or moves a reservation: the
\* backfill in migrate(), which keys by raw path text, finds nothing to do.
ReopenChangesNothing == [][OpenDatabase => UNCHANGED owner]_vars
=============================================================================
