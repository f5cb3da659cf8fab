--------------------------- MODULE JobStoreProofs ---------------------------
(* Theorems about JobStore for every set of jobs, paths, keys and bounds.   *)
(* The inductive invariant says of the rollback image of an open            *)
(* transaction what it says of the current rows: a rollback may bring the   *)
(* image back at any moment, so nothing weaker is preserved.                *)
EXTENDS JobStore, TLAPS

Success == {"completed", "warning"}

OwnedIn(ow, j) == {k \in Keys : ow[k] = j}

\* one job's reservations, over any image of the state and owner columns
ReservedRow(st, ow, j) ==
    IF st[j] # "absent" /\ st[j] \notin SqlTerminal
    THEN \E k \in Keys : OwnedIn(ow, j) = {k}
    ELSE OwnedIn(ow, j) = {}

\* one job's history, over any image of the rows and events
HistoryRow(st, sq, ev, j) ==
    IF st[j] = "absent" THEN ev[j] = <<>>
    ELSE /\ Len(ev[j]) = sq[j] + 1
         /\ ev[j][Len(ev[j])].next = st[j]
         /\ \A i \in DOMAIN ev[j] :
                /\ ev[j][i].sequence = i - 1
                /\ i > 1 => ev[j][i].previous = ev[j][i - 1].next

RowTypes(st, rq, sq, ev, ow, bd, rv) ==
    /\ st \in [Jobs -> JobState \cup {"absent"}]
    /\ rq \in [Jobs -> Request \cup {NoRequest}]
    /\ sq \in [Jobs -> Nat]
    /\ ev \in [Jobs -> Seq(Event)]
    /\ ow \in [Keys -> Jobs \cup {NoJob}]
    /\ bd \in [IdemKeys -> Jobs \cup {NoJob}]
    /\ rv \subseteq Jobs

RowsOK(st, rq, sq, ev, ow, bd, rv) ==
    /\ RowTypes(st, rq, sq, ev, ow, bd, rv)
    /\ \A j \in Jobs : st[j] # "absent" => rq[j] \in Request
    /\ \A j \in Jobs : ReservedRow(st, ow, j)
    /\ \A j \in Jobs : HistoryRow(st, sq, ev, j)

CurrentOK == RowsOK(state, request, sequence, events, owner, bound, evidence)

SavedOK == RowsOK(txn.saved[1], txn.saved[2], txn.saved[3], txn.saved[4],
                  txn.saved[5], txn.saved[6], txn.saved[7])

\* an open transaction has finished no job: it never touches a successful one
KeepsSuccess == \A j \in Jobs : state[j] \in Success => txn.saved[1][j] = state[j]

TxnOK ==
    /\ txn = [kind |-> txn.kind, members |-> txn.members, todo |-> txn.todo,
              saved |-> txn.saved, outcome |-> txn.outcome]
    /\ txn.kind \in TxnKinds \cup {"idle"}
    /\ txn.kind # "idle" => txn.todo \in Seq(Jobs) /\ SavedOK /\ KeepsSuccess

IInv == CurrentOK /\ identity \in [Paths -> Keys] /\ TxnOK

-----------------------------------------------------------------------------
(* What the row writers do.                                                 *)

\* reserve_output leaves the job with the one key it asked for and every other
\* job with the keys it had.
LEMMA ReserveGivesOneKey ==
    ASSUME owner \in [Keys -> Jobs \cup {NoJob}], identity \in [Paths -> Keys],
           NEW j \in Jobs, NEW path \in Paths, CanReserve(j, path)
    PROVE  /\ Reserve(j, path) \in [Keys -> Jobs \cup {NoJob}]
           /\ OwnedIn(Reserve(j, path), j) = {KeyOf(path)}
           /\ KeyOf(path) \in Keys
           /\ \A i \in Jobs \ {j} : OwnedIn(Reserve(j, path), i) = OwnedIn(owner, i)
<1>1. KeyOf(path) \in Keys
  BY DEF KeyOf
<1>2. Reserve(j, path) \in [Keys -> Jobs \cup {NoJob}]
  BY DEF Reserve
<1>3. OwnedIn(Reserve(j, path), j) = {KeyOf(path)}
  BY <1>1, NoJobAssumption DEF Reserve, OwnedIn
<1>4. ASSUME NEW i \in Jobs \ {j}
      PROVE  OwnedIn(Reserve(j, path), i) = OwnedIn(owner, i)
  BY <1>1, <1>4, NoJobAssumption DEF Reserve, OwnedIn, CanReserve
<1> QED
  BY <1>1, <1>2, <1>3, <1>4

\* deleting a job's reservation leaves it none and disturbs no other job.
LEMMA ReleaseLeavesNone ==
    ASSUME owner \in [Keys -> Jobs \cup {NoJob}], NEW j \in Jobs
    PROVE  /\ Release(j) \in [Keys -> Jobs \cup {NoJob}]
           /\ OwnedIn(Release(j), j) = {}
           /\ \A i \in Jobs \ {j} : OwnedIn(Release(j), i) = OwnedIn(owner, i)
  BY NoJobAssumption DEF Release, OwnedIn

\* appending the event of a state write keeps the history contiguous and
\* chained, and leaves the histories of the other jobs alone.
LEMMA WriteStateKeepsHistory ==
    ASSUME CurrentOK, NEW j \in Jobs, Exists(j), NEW next \in JobState,
           WriteState(j, next)
    PROVE  /\ state' \in [Jobs -> JobState \cup {"absent"}]
           /\ sequence' \in [Jobs -> Nat]
           /\ events' \in [Jobs -> Seq(Event)]
           /\ \A i \in Jobs : HistoryRow(state', sequence', events', i)
<1> USE DEF CurrentOK, RowsOK, RowTypes
<1> DEFINE e == [sequence |-> sequence[j] + 1, previous |-> state[j], next |-> next]
<1>1. e \in Event
  BY DEF Event, Exists
<1>2. /\ state' = [state EXCEPT ![j] = next]
      /\ sequence' = [sequence EXCEPT ![j] = sequence[j] + 1]
      /\ events' = [events EXCEPT ![j] = Append(events[j], e)]
  BY DEF WriteState
<1>3. events[j] \in Seq(Event) /\ Append(events[j], e) \in Seq(Event)
  BY <1>1
<1>4. ASSUME NEW i \in Jobs
      PROVE  HistoryRow(state', sequence', events', i)
  <2>1. CASE i # j
    BY <2>1, <1>2, HistoryRow(state, sequence, events, i) DEF HistoryRow
  <2>2. CASE i = j
    <3> DEFINE old == events[j]
    <3> DEFINE new == Append(old, e)
    <3>1. /\ Len(old) = sequence[j] + 1
          /\ old[Len(old)].next = state[j]
          /\ \A a \in DOMAIN old :
                /\ old[a].sequence = a - 1
                /\ a > 1 => old[a].previous = old[a - 1].next
      BY HistoryRow(state, sequence, events, j) DEF HistoryRow, Exists
    <3>2. /\ Len(new) = Len(old) + 1
          /\ new[Len(new)] = e
          /\ \A a \in 1..Len(old) : new[a] = old[a]
          /\ DOMAIN new = 1..(Len(old) + 1)
          /\ DOMAIN old = 1..Len(old)
          /\ Len(old) \in Nat
      BY <1>3
    <3>3. e.sequence = Len(new) - 1 /\ e.previous = state[j] /\ e.next = next
      BY <3>1, <3>2
    <3>4. ASSUME NEW a \in DOMAIN new
          PROVE  /\ new[a].sequence = a - 1
                 /\ a > 1 => new[a].previous = new[a - 1].next
      <4>1. CASE a \in 1..Len(old)
        <5>1. a \in Nat /\ (a > 1 => a - 1 \in 1..Len(old))
          BY <4>1, <3>2
        <5>2. new[a] = old[a] /\ (a > 1 => new[a - 1] = old[a - 1])
          BY <4>1, <5>1, <3>2
        <5> HIDE DEF new
        <5> QED
          BY <4>1, <5>2, <3>1, <3>2
      <4>2. CASE a = Len(old) + 1
        <5>1. a - 1 = Len(old) /\ (a > 1 => Len(old) \in 1..Len(old))
          BY <4>2, <3>2
        <5>2. a > 1 => new[a - 1] = old[Len(old)]
          BY <5>1, <3>2
        <5> HIDE DEF new, old
        <5> QED
          BY <4>2, <5>1, <5>2, <3>1, <3>2, <3>3
      <4> QED
        BY <4>1, <4>2, <3>2
    <3>5. events'[i] = new /\ sequence'[i] = sequence[j] + 1 /\ state'[i] = next
      BY <1>2, <2>2
    <3>6. Len(new) = sequence[j] + 1 + 1 /\ new[Len(new)].next = next
      BY <3>1, <3>2, <3>3
    <3>7. next # "absent"
      BY DEF JobState
    <3> HIDE DEF new, old
    <3> QED
      BY <3>4, <3>5, <3>6, <3>7 DEF HistoryRow
  <2> QED
    BY <2>1, <2>2
<1>5. state' \in [Jobs -> JobState \cup {"absent"}]
  BY <1>2
<1>6. sequence' \in [Jobs -> Nat]
  BY <1>2
<1>7. events' \in [Jobs -> Seq(Event)]
  BY <1>2, <1>3
<1> QED
  BY <1>4, <1>5, <1>6, <1>7

\* the only way out of a terminal state is back into the queue.
LEMMA TerminalOnlyRequeues ==
    ASSUME NEW s \in SqlTerminal, NEW t, CanTransition(s, t)
    PROVE  t = "queued"
<1>1. CASE s = "completed"
  BY <1>1 DEF CanTransition, LegalMoves
<1>2. CASE s = "warning"
  BY <1>2 DEF CanTransition, LegalMoves
<1>3. CASE s = "failed"
  BY <1>3 DEF CanTransition, LegalMoves
<1>4. CASE s = "cancelled"
  BY <1>4 DEF CanTransition, LegalMoves
<1> QED
  BY <1>1, <1>2, <1>3, <1>4 DEF SqlTerminal

\* the state column and the reservations move together: a transition keeps one
\* reservation for each live job and none for the others.
LEMMA ApplyTransitionKeepsReservations ==
    ASSUME CurrentOK, identity \in [Paths -> Keys], NEW j \in Jobs, Exists(j),
           NEW next \in JobState, CanTransition(state[j], next),
           next = "queued" => CanReserve(j, request[j].output),
           ApplyTransition(j, next)
    PROVE  /\ owner' \in [Keys -> Jobs \cup {NoJob}]
           /\ \A i \in Jobs : ReservedRow(state', owner', i)
<1>0. /\ owner \in [Keys -> Jobs \cup {NoJob}]
      /\ state \in [Jobs -> JobState \cup {"absent"}]
      /\ request[j] \in Request
  BY DEF CurrentOK, RowsOK, RowTypes, Exists
<1>1. state' = [state EXCEPT ![j] = next]
  BY DEF ApplyTransition, WriteState
<1>2. \A i \in Jobs : ReservedRow(state, owner, i)
  BY DEF CurrentOK, RowsOK
<1>3. CASE next = "queued"
  <2>1. request[j].output \in Paths
    BY <1>0 DEF Request
  <2>2. owner' = Reserve(j, request[j].output)
    BY <1>3 DEF ApplyTransition, IsTerminal
  <2>3. CanReserve(j, request[j].output)
    BY <1>3
  <2>4. /\ owner' \in [Keys -> Jobs \cup {NoJob}]
        /\ \E k \in Keys : OwnedIn(owner', j) = {k}
        /\ \A i \in Jobs \ {j} : OwnedIn(owner', i) = OwnedIn(owner, i)
    BY <1>0, <2>1, <2>2, <2>3, ReserveGivesOneKey
  <2> QED
    BY <1>0, <1>1, <1>2, <1>3, <2>4 DEF ReservedRow, SqlTerminal
<1>4. CASE IsTerminal(next)
  <2>1. owner' = Release(j)
    BY <1>4 DEF ApplyTransition, IsTerminal
  <2>2. /\ owner' \in [Keys -> Jobs \cup {NoJob}]
        /\ OwnedIn(owner', j) = {}
        /\ \A i \in Jobs \ {j} : OwnedIn(owner', i) = OwnedIn(owner, i)
    BY <1>0, <2>1, ReleaseLeavesNone
  <2> QED
    BY <1>0, <1>1, <1>2, <1>4, <2>2 DEF ReservedRow, SqlTerminal, IsTerminal
<1>5. CASE next # "queued" /\ ~IsTerminal(next)
  <2>1. owner' = owner
    BY <1>5 DEF ApplyTransition
  <2>2. state[j] \notin SqlTerminal
    BY <1>5, TerminalOnlyRequeues
  <2>3. next # "absent" /\ next \notin SqlTerminal
    BY <1>5 DEF JobState, SqlTerminal, IsTerminal
  <2> QED
    BY <1>0, <1>1, <1>2, <2>1, <2>2, <2>3 DEF ReservedRow, Exists
<1> QED
  BY <1>3, <1>4, <1>5

\* every other row of CurrentOK follows a transition too.
LEMMA ApplyTransitionOK ==
    ASSUME CurrentOK, identity \in [Paths -> Keys], NEW j \in Jobs, Exists(j),
           NEW next \in JobState, CanTransition(state[j], next),
           next = "queued" => CanReserve(j, request[j].output),
           ApplyTransition(j, next), UNCHANGED <<request, bound, evidence>>
    PROVE  CurrentOK'
<1>1. WriteState(j, next)
  BY DEF ApplyTransition
<1>2. /\ state' \in [Jobs -> JobState \cup {"absent"}]
      /\ sequence' \in [Jobs -> Nat]
      /\ events' \in [Jobs -> Seq(Event)]
      /\ \A i \in Jobs : HistoryRow(state', sequence', events', i)
  BY <1>1, WriteStateKeepsHistory
<1>3. /\ owner' \in [Keys -> Jobs \cup {NoJob}]
      /\ \A i \in Jobs : ReservedRow(state', owner', i)
  BY ApplyTransitionKeepsReservations
<1>4. \A i \in Jobs : state'[i] # "absent" => request'[i] \in Request
  BY <1>1 DEF WriteState, CurrentOK, RowsOK, RowTypes, Exists
<1> QED
  BY <1>2, <1>3, <1>4 DEF CurrentOK, RowsOK, RowTypes

\* a new row comes with its creation events and its reservation.
LEMMA InsertJobOK ==
    ASSUME CurrentOK, identity \in [Paths -> Keys], NEW j \in Jobs,
           NEW r \in Request, NEW enqueue \in BOOLEAN, CanReserve(j, r.output),
           InsertJob(j, r, enqueue), UNCHANGED evidence,
           bound' \in [IdemKeys -> Jobs \cup {NoJob}]
    PROVE  CurrentOK'
<1> USE DEF CurrentOK, RowsOK, RowTypes
<1> DEFINE created == [sequence |-> 0, previous |-> "null", next |-> "planned"]
<1> DEFINE queued == [sequence |-> 1, previous |-> "planned", next |-> "queued"]
<1> DEFINE st == IF enqueue THEN "queued" ELSE "planned"
<1> DEFINE sq == IF enqueue THEN 1 ELSE 0
<1> DEFINE ev == IF enqueue THEN <<created, queued>> ELSE <<created>>
<1>1. /\ request' = [request EXCEPT ![j] = r]
      /\ owner' = Reserve(j, r.output)
      /\ state' = [state EXCEPT ![j] = st]
      /\ sequence' = [sequence EXCEPT ![j] = sq]
      /\ events' = [events EXCEPT ![j] = ev]
  BY DEF InsertJob
<1>2. r.output \in Paths
  BY DEF Request
<1>3. /\ owner' \in [Keys -> Jobs \cup {NoJob}]
      /\ \E k \in Keys : OwnedIn(owner', j) = {k}
      /\ \A i \in Jobs \ {j} : OwnedIn(owner', i) = OwnedIn(owner, i)
  BY <1>1, <1>2, ReserveGivesOneKey
<1>4. st \in JobState /\ st \notin SqlTerminal /\ st # "absent" /\ sq \in Nat
  BY DEF JobState, SqlTerminal
<1>5. created \in Event /\ queued \in Event
  BY DEF Event, JobState
<1>6. ev \in Seq(Event)
  BY <1>5
<1>7. \A i \in Jobs : ReservedRow(state', owner', i)
  BY <1>1, <1>3, <1>4 DEF ReservedRow
<1>8. ASSUME NEW i \in Jobs
      PROVE  HistoryRow(state', sequence', events', i)
  <2>1. CASE i # j
    BY <2>1, <1>1, HistoryRow(state, sequence, events, i) DEF HistoryRow
  <2>2. CASE i = j
    <3>1. state'[i] = st /\ sequence'[i] = sq /\ events'[i] = ev
      BY <2>2, <1>1
    <3>2. CASE enqueue
      <4>1. Len(ev) = 2 /\ ev[1] = created /\ ev[2] = queued /\ DOMAIN ev = 1..2
        BY <3>2
      <4> QED
        BY <3>1, <3>2, <4>1 DEF HistoryRow
    <3>3. CASE ~enqueue
      <4>1. Len(ev) = 1 /\ ev[1] = created /\ DOMAIN ev = 1..1
        BY <3>3
      <4> QED
        BY <3>1, <3>3, <4>1 DEF HistoryRow
    <3> QED
      BY <3>2, <3>3
  <2> QED
    BY <2>1, <2>2
<1>9. /\ state' \in [Jobs -> JobState \cup {"absent"}]
      /\ request' \in [Jobs -> Request \cup {NoRequest}]
      /\ sequence' \in [Jobs -> Nat]
      /\ events' \in [Jobs -> Seq(Event)]
      /\ \A i \in Jobs : state'[i] # "absent" => request'[i] \in Request
  BY <1>1, <1>4, <1>6
<1> QED
  BY <1>3, <1>7, <1>8, <1>9

-----------------------------------------------------------------------------
(* The steps of an open transaction.                                        *)

\* rows that no step wrote keep what was said of them.
LEMMA StoreUnchanged ==
    ASSUME CurrentOK, UNCHANGED store
    PROVE  CurrentOK'
  BY DEF CurrentOK, store

\* a step on one member leaves the transaction well formed when it drops the
\* member from the list and does not make it successful.
LEMMA MemberStepKeepsTxn ==
    ASSUME TxnOK, ~NoWriter, CurrentOK, txn.todo # <<>>, NEW outcome, NEW next,
           txn' = [txn EXCEPT !.todo = Tail(txn.todo),
                              !.outcome[Head(txn.todo)] = outcome],
           state' = [state EXCEPT ![Head(txn.todo)] = next],
           next \notin Success \/ UNCHANGED state
    PROVE  TxnOK'
<1>1. /\ txn'.kind = txn.kind /\ txn'.saved = txn.saved
      /\ txn'.todo = Tail(txn.todo)
      /\ txn' = [kind |-> txn'.kind, members |-> txn'.members, todo |-> txn'.todo,
                 saved |-> txn'.saved, outcome |-> txn'.outcome]
  BY DEF TxnOK
<1>2. txn.todo \in Seq(Jobs) /\ SavedOK /\ KeepsSuccess
  BY DEF TxnOK, NoWriter
<1>3. txn'.todo \in Seq(Jobs) /\ Head(txn.todo) \in Jobs
  BY <1>1, <1>2
<1>4. SavedOK'
  BY <1>1, <1>2 DEF SavedOK
<1>5. KeepsSuccess'
  BY <1>1, <1>2, <1>3 DEF KeepsSuccess, CurrentOK, RowsOK, RowTypes
<1> QED
  BY <1>1, <1>3, <1>4, <1>5 DEF TxnOK

LEMMA MembersAreJobs ==
    ASSUME NEW m \in MemberLists
    PROVE  m \in Seq(Jobs)
<1>1. PICK n \in 1..MaxMembers : m \in [1..n -> Jobs]
  BY DEF MemberLists
<1> QED
  BY <1>1, BoundsAssumption

LEMMA TxnCreateMemberOK ==
    ASSUME IInv, NEW r \in Request, TxnCreateMember(r)
    PROVE  IInv'
<1> DEFINE j == Head(txn.todo)
<1>1. /\ CurrentOK /\ identity \in [Paths -> Keys] /\ TxnOK
      /\ txn.kind \in CreateKinds /\ txn.todo # <<>> /\ CanReserve(j, r.output)
      /\ InsertJob(j, r, txn.kind = "enqueue")
      /\ txn' = [txn EXCEPT !.todo = Tail(txn.todo), !.outcome[j] = "transitioned"]
      /\ UNCHANGED <<bound, evidence, identity>>
  BY DEF IInv, TxnCreateMember
<1>2. ~NoWriter
  BY <1>1 DEF NoWriter, CreateKinds
<1>3. j \in Jobs
  BY <1>1, <1>2 DEF TxnOK, NoWriter
<1>4. CurrentOK'
  <2>1. bound' \in [IdemKeys -> Jobs \cup {NoJob}]
    BY <1>1 DEF CurrentOK, RowsOK, RowTypes
  <2>2. (txn.kind = "enqueue") \in BOOLEAN
    OBVIOUS
  <2> HIDE DEF j
  <2> QED
    BY <1>1, <1>3, <2>1, <2>2, InsertJobOK
<1>5. TxnOK'
  <2>1. state' = [state EXCEPT ![j] = IF txn.kind = "enqueue" THEN "queued" ELSE "planned"]
    BY <1>1 DEF InsertJob
  <2>2. (IF txn.kind = "enqueue" THEN "queued" ELSE "planned") \notin Success
    BY DEF Success
  <2> QED
    BY <1>1, <1>2, <2>1, <2>2, MemberStepKeepsTxn
<1> QED
  BY <1>1, <1>4, <1>5 DEF IInv

LEMMA TxnQueueMemberOK ==
    ASSUME IInv, TxnQueueMember
    PROVE  IInv'
<1> DEFINE j == Head(txn.todo)
<1>1. /\ CurrentOK /\ identity \in [Paths -> Keys] /\ TxnOK
      /\ txn.kind = "queue" /\ txn.todo # <<>> /\ CanTransition(state[j], "queued")
      /\ CanReserve(j, request[j].output) /\ ApplyTransition(j, "queued")
      /\ txn' = [txn EXCEPT !.todo = Tail(txn.todo), !.outcome[j] = "transitioned"]
      /\ UNCHANGED <<request, bound, evidence, identity>>
  BY DEF IInv, TxnQueueMember
<1>2. ~NoWriter
  BY <1>1 DEF NoWriter
<1>3. j \in Jobs
  BY <1>1, <1>2 DEF TxnOK, NoWriter
<1>4. Exists(j) /\ "queued" \in JobState
  BY <1>1 DEF Exists, CanTransition, LegalMoves, JobState
<1>5. CurrentOK'
  <2> HIDE DEF j
  <2> QED
    BY <1>1, <1>3, <1>4, ApplyTransitionOK
<1>6. TxnOK'
  <2>1. state' = [state EXCEPT ![j] = "queued"] /\ "queued" \notin Success
    BY <1>1 DEF ApplyTransition, WriteState, Success
  <2> QED
    BY <1>1, <1>2, <2>1, MemberStepKeepsTxn
<1> QED
  BY <1>1, <1>5, <1>6 DEF IInv

\* every bulk action's moves are legal ones.
LEMMA BulkMovesAreLegal ==
    ASSUME NEW kind, NEW s, BulkEligible(kind, s)
    PROVE  /\ CanTransition(s, BulkTarget(kind)) /\ s # "absent"
           /\ BulkTarget(kind) \in JobState \ Success
  BY DEF BulkEligible, BulkTarget, CanTransition, LegalMoves, JobState, Success

LEMMA TxnBulkMemberOK ==
    ASSUME IInv, TxnBulkMember
    PROVE  IInv'
<1> DEFINE j == Head(txn.todo)
<1> DEFINE next == BulkTarget(txn.kind)
<1> DEFINE refused == next = "queued" /\ ~CanReserve(j, request[j].output)
<1> DEFINE record(outcome) ==
        txn' = [txn EXCEPT !.todo = Tail(txn.todo), !.outcome[j] = outcome]
<1>1. /\ CurrentOK /\ identity \in [Paths -> Keys] /\ TxnOK
      /\ txn.kind \in BulkKinds /\ txn.todo # <<>>
      /\ UNCHANGED <<request, bound, evidence, identity>>
  BY DEF IInv, TxnBulkMember
<1>2. \/ (record("skipped-state") \/ record("skipped-output-conflict"))
            /\ UNCHANGED <<state, sequence, events, owner>>
      \/ /\ BulkEligible(txn.kind, state[j]) /\ ~refused
         /\ record("transitioned") /\ ApplyTransition(j, next)
  BY DEF TxnBulkMember
<1>3. ~NoWriter
  BY <1>1 DEF NoWriter, BulkKinds
<1>4. j \in Jobs
  BY <1>1, <1>3 DEF TxnOK, NoWriter
<1>5. CASE (record("skipped-state") \/ record("skipped-output-conflict"))
            /\ UNCHANGED <<state, sequence, events, owner>>
  <2>1. CurrentOK'
    BY <1>1, <1>5, StoreUnchanged DEF store
  <2>2. state' = [state EXCEPT ![j] = state[j]]
    BY <1>1, <1>5 DEF CurrentOK, RowsOK, RowTypes
  <2>3. TxnOK'
    BY <1>1, <1>3, <1>5, <2>2, MemberStepKeepsTxn
  <2> QED
    BY <1>1, <2>1, <2>3 DEF IInv
<1>6. CASE /\ BulkEligible(txn.kind, state[j]) /\ ~refused
           /\ record("transitioned") /\ ApplyTransition(j, next)
  <2>1. /\ CanTransition(state[j], next) /\ Exists(j)
        /\ next \in JobState /\ next \notin Success
    BY <1>6, BulkMovesAreLegal DEF Exists
  <2>2. CurrentOK'
    <3>1. next = "queued" => CanReserve(j, request[j].output)
      BY <1>6
    <3> HIDE DEF j, next
    <3> QED
      BY <1>1, <1>4, <1>6, <2>1, <3>1, ApplyTransitionOK
  <2>3. TxnOK'
    <3>1. state' = [state EXCEPT ![j] = next]
      BY <1>6 DEF ApplyTransition, WriteState
    <3> HIDE DEF next
    <3> QED
      BY <1>1, <1>3, <1>6, <2>1, <3>1, MemberStepKeepsTxn
  <2> QED
    BY <1>1, <2>2, <2>3 DEF IInv
<1> QED
  BY <1>2, <1>5, <1>6

-----------------------------------------------------------------------------
(* The invariant.                                                           *)

LEMMA InitEstablishesIInv == Init => IInv
<1> SUFFICES ASSUME Init PROVE IInv
  OBVIOUS
<1>1. \A j \in Jobs : OwnedIn(owner, j) = {}
  BY NoJobAssumption DEF Init, OwnedIn
<1>2. \A j \in Jobs : ReservedRow(state, owner, j) /\ HistoryRow(state, sequence, events, j)
  BY <1>1 DEF Init, ReservedRow, HistoryRow
<1>3. RowTypes(state, request, sequence, events, owner, bound, evidence)
  BY DEF Init, RowTypes
<1>4. \A j \in Jobs : state[j] # "absent" => request[j] \in Request
  BY DEF Init
<1>5. TxnOK
  BY DEF Init, Idle, TxnOK
<1> QED
  BY <1>2, <1>3, <1>4, <1>5, TextKeyAssumption DEF Init, IInv, CurrentOK, RowsOK

\* a step that closes the transaction, or runs with none open, needs no image.
LEMMA NoImageNeeded ==
    ASSUME TxnOK, (NoWriter /\ txn' = txn) \/ txn' = Idle
    PROVE  TxnOK'
<1>1. CASE NoWriter /\ txn' = txn
  BY <1>1 DEF TxnOK, NoWriter
<1>2. CASE txn' = Idle
  BY <1>2 DEF TxnOK, Idle
<1> QED
  BY <1>1, <1>2

LEMMA NextPreservesIInv == IInv /\ [Next]_vars => IInv'
<1> SUFFICES ASSUME IInv, [Next]_vars PROVE IInv'
  OBVIOUS
<1>0. CurrentOK /\ identity \in [Paths -> Keys] /\ TxnOK
  BY DEF IInv
<1>1. ASSUME NEW j \in Jobs, NEW next \in JobState, Transition(j, next)
      PROVE  IInv'
  <2>1. CurrentOK'
    BY <1>0, <1>1, ApplyTransitionOK DEF Transition
  <2>2. TxnOK'
    BY <1>0, <1>1, NoImageNeeded DEF Transition
  <2> QED
    BY <1>0, <1>1, <2>1, <2>2 DEF IInv, Transition
<1>2. ASSUME NEW j \in Jobs, ClaimQueuedJob(j)
      PROVE  IInv'
  <2>1. /\ Exists(j) /\ "inspecting" \in JobState /\ WriteState(j, "inspecting")
        /\ state[j] = "queued" /\ owner' = owner
    BY <1>2 DEF ClaimQueuedJob, Exists, JobState
  <2>2. /\ state' \in [Jobs -> JobState \cup {"absent"}]
        /\ sequence' \in [Jobs -> Nat] /\ events' \in [Jobs -> Seq(Event)]
        /\ \A i \in Jobs : HistoryRow(state', sequence', events', i)
    BY <1>0, <2>1, WriteStateKeepsHistory
  <2>3. \A i \in Jobs : ReservedRow(state', owner', i)
    BY <1>0, <2>1 DEF WriteState, CurrentOK, RowsOK, RowTypes, ReservedRow, SqlTerminal
  <2>4. CurrentOK'
    BY <1>0, <1>2, <2>1, <2>2, <2>3
       DEF ClaimQueuedJob, CurrentOK, RowsOK, RowTypes, WriteState
  <2>5. TxnOK'
    BY <1>0, <1>2, NoImageNeeded DEF ClaimQueuedJob
  <2> QED
    BY <1>0, <1>2, <2>4, <2>5 DEF IInv, ClaimQueuedJob
<1>3. ASSUME NEW j \in Jobs, CleanupStaging(j)
      PROVE  IInv'
  <2>1. /\ Exists(j) /\ state[j] \in JobState /\ WriteState(j, state[j])
        /\ owner' = owner /\ state' = state
    BY <1>0, <1>3 DEF CleanupStaging, Exists, JobState, WriteState,
       CurrentOK, RowsOK, RowTypes
  <2>2. /\ sequence' \in [Jobs -> Nat] /\ events' \in [Jobs -> Seq(Event)]
        /\ \A i \in Jobs : HistoryRow(state', sequence', events', i)
    BY <1>0, <2>1, WriteStateKeepsHistory
  <2>3. CurrentOK'
    BY <1>0, <1>3, <2>1, <2>2 DEF CleanupStaging, CurrentOK, RowsOK, RowTypes
  <2>4. TxnOK'
    BY <1>0, <1>3, NoImageNeeded DEF CleanupStaging
  <2> QED
    BY <1>0, <1>3, <2>3, <2>4 DEF IInv, CleanupStaging
<1>4. ASSUME NEW j \in Jobs, RecordRevalidation(j)
      PROVE  IInv'
  <2>1. CurrentOK'
    BY <1>0, <1>4 DEF RecordRevalidation, CurrentOK, RowsOK, RowTypes
  <2>2. TxnOK'
    BY <1>0, <1>4, NoImageNeeded DEF RecordRevalidation
  <2> QED
    BY <1>0, <1>4, <2>1, <2>2 DEF IInv, RecordRevalidation
<1>5. ASSUME NEW k \in IdemKeys, NEW j \in Jobs, NEW r \in Request,
             NEW q \in BOOLEAN, CreateIdempotent(k, j, r, q)
      PROVE  IInv'
  <2>1. bound' \in [IdemKeys -> Jobs \cup {NoJob}]
    BY <1>0, <1>5 DEF CreateIdempotent, CurrentOK, RowsOK, RowTypes
  <2>2. CurrentOK'
    BY <1>0, <1>5, <2>1, InsertJobOK DEF CreateIdempotent
  <2>3. TxnOK'
    BY <1>0, <1>5, NoImageNeeded DEF CreateIdempotent
  <2> QED
    BY <1>0, <1>5, <2>2, <2>3 DEF IInv, CreateIdempotent
<1>6. ASSUME OpenDatabase
      PROVE  IInv'
  <2>1. \A j \in Jobs : (Exists(j) /\ state[j] \notin SqlTerminal) => OwnedKeys(j) # {}
    BY <1>0 DEF CurrentOK, RowsOK, ReservedRow, OwnedIn, OwnedKeys, Exists
  <2>2. /\ owner' \in [Keys -> Jobs \cup {NoJob}]
        /\ \A k \in Keys : owner'[k] = owner[k]
    BY <1>6, <2>1 DEF OpenDatabase
  <2>3. owner' = owner
    BY <1>0, <2>2 DEF CurrentOK, RowsOK, RowTypes
  <2>4. UNCHANGED store
    BY <1>6, <2>3 DEF OpenDatabase, store
  <2>5. CurrentOK'
    BY <1>0, <2>4, StoreUnchanged
  <2>6. TxnOK'
    BY <1>0, <1>6, NoImageNeeded DEF OpenDatabase
  <2> QED
    BY <1>0, <1>6, <2>5, <2>6 DEF IInv, OpenDatabase
<1>7. ASSUME NEW kind \in TxnKinds, NEW m \in MemberLists, TxnBegin(kind, m)
      PROVE  IInv'
  <2>1. CurrentOK'
    BY <1>0, <1>7, StoreUnchanged DEF TxnBegin
  <2>2. /\ txn' = [kind |-> txn'.kind, members |-> txn'.members, todo |-> txn'.todo,
                   saved |-> txn'.saved, outcome |-> txn'.outcome]
        /\ txn'.kind = kind /\ txn'.todo \in Seq(Jobs) /\ txn'.saved = store
    BY <1>7, MembersAreJobs DEF TxnBegin
  <2>3. SavedOK'
    BY <1>0, <2>2 DEF SavedOK, CurrentOK, store
  <2>4. state' = state /\ txn'.saved[1] = state
    BY <1>7, <2>2 DEF TxnBegin, store
  <2>5. KeepsSuccess'
    BY <2>4 DEF KeepsSuccess
  <2>6. TxnOK'
    BY <2>2, <2>3, <2>5 DEF TxnOK
  <2> QED
    BY <1>0, <1>7, <2>1, <2>6 DEF IInv, TxnBegin
<1>8. ASSUME NEW r \in Request, TxnCreateMember(r)
      PROVE  IInv'
  BY <1>8, TxnCreateMemberOK
<1>9. ASSUME TxnQueueMember
      PROVE  IInv'
  BY <1>9, TxnQueueMemberOK
<1>10. ASSUME TxnBulkMember
       PROVE  IInv'
  BY <1>10, TxnBulkMemberOK
<1>11. ASSUME TxnCommit
       PROVE  IInv'
  <2>1. CurrentOK' /\ TxnOK'
    BY <1>0, <1>11, StoreUnchanged, NoImageNeeded DEF TxnCommit
  <2> QED
    BY <1>0, <1>11, <2>1 DEF IInv, TxnCommit
<1>12. ASSUME TxnRollback
       PROVE  IInv'
  <2>1. SavedOK
    BY <1>0, <1>12 DEF TxnRollback, TxnOK, NoWriter
  <2>2. CurrentOK'
    BY <1>12, <2>1 DEF TxnRollback, SavedOK, CurrentOK
  <2>3. TxnOK'
    BY <1>0, <1>12, NoImageNeeded DEF TxnRollback
  <2> QED
    BY <1>0, <1>12, <2>2, <2>3 DEF IInv, TxnRollback
<1>13. ASSUME NEW p \in Paths, NEW k \in Keys, RetargetPath(p, k)
       PROVE  IInv'
  <2>1. CurrentOK'
    BY <1>0, <1>13, StoreUnchanged DEF RetargetPath
  <2>2. TxnOK'
    BY <1>0, <1>13 DEF RetargetPath, store, TxnOK, SavedOK, KeepsSuccess
  <2>3. identity' \in [Paths -> Keys]
    BY <1>0, <1>13 DEF RetargetPath
  <2> QED
    BY <2>1, <2>2, <2>3 DEF IInv
<1>14. ASSUME UNCHANGED vars
       PROVE  IInv'
  <2>1. CurrentOK'
    BY <1>0, <1>14, StoreUnchanged DEF vars, store
  <2>2. TxnOK'
    BY <1>0, <1>14 DEF vars, TxnOK, SavedOK, KeepsSuccess
  <2> QED
    BY <1>0, <1>14, <2>1, <2>2 DEF IInv, vars
<1> QED
  BY <1>1, <1>2, <1>3, <1>4, <1>5, <1>6, <1>7, <1>8, <1>9, <1>10, <1>11, <1>12,
     <1>13, <1>14 DEF Next

THEOREM InductiveInvariant == Spec => []IInv
<1>1. Init => IInv
  BY InitEstablishesIInv
<1>2. IInv /\ [Next]_vars => IInv'
  BY NextPreservesIInv
<1> QED
  BY <1>1, <1>2, PTL DEF Spec

-----------------------------------------------------------------------------
(* The results.                                                             *)

\* The tables keep their shape under every operation and rollback.
THEOREM TypeCorrectness == Spec => []TypeOK
<1>1. IInv => TypeOK
  BY DEF IInv, CurrentOK, RowsOK, RowTypes, TxnOK, TypeOK
<1> QED
  BY <1>1, InductiveInvariant, PTL

\* A live job holds exactly one output reservation and any other job none, for
\* any number of jobs, paths and identities and any retargeting of links.
THEOREM ReservationCorrectness == Spec => []ReservationIntegrity
<1>1. IInv => ReservationIntegrity
  BY DEF IInv, CurrentOK, RowsOK, ReservedRow, ReservationIntegrity, OwnedIn,
         OwnedKeys, Live, Exists
<1> QED
  BY <1>1, InductiveInvariant, PTL

\* The event log of a job is contiguous, chained and in step with its row.
THEOREM HistoryCorrectness == Spec => []HistoryIntegrity
<1>1. IInv => HistoryIntegrity
  BY DEF IInv, CurrentOK, RowsOK, HistoryRow, HistoryIntegrity, Exists
<1> QED
  BY <1>1, InductiveInvariant, PTL

\* No operation and no rollback takes a job out of Completed or Warning.
THEOREM SuccessStaysFinal == Spec => SuccessIsFinal
<1> DEFINE Kept == \A j \in Jobs : state[j] \in {"completed", "warning"} => state'[j] = state[j]
<1>1. ASSUME IInv, [Next]_vars, NEW i \in Jobs, state[i] \in {"completed", "warning"}
      PROVE  state'[i] = state[i]
  <2>1. state \in [Jobs -> JobState \cup {"absent"}] /\ TxnOK
    BY <1>1 DEF IInv, CurrentOK, RowsOK, RowTypes
  <2>2. ASSUME NEW j \in Jobs, NEW next \in JobState, Transition(j, next)
        PROVE  state'[i] = state[i]
    BY <1>1, <2>1, <2>2 DEF Transition, ApplyTransition, WriteState, CanTransition, LegalMoves
  <2>3. ASSUME NEW j \in Jobs, ClaimQueuedJob(j) \/ CleanupStaging(j) \/ RecordRevalidation(j)
        PROVE  state'[i] = state[i]
    BY <1>1, <2>1, <2>3 DEF ClaimQueuedJob, CleanupStaging, RecordRevalidation, WriteState
  <2>4. ASSUME NEW k \in IdemKeys, NEW j \in Jobs, NEW r \in Request,
               NEW q \in BOOLEAN, CreateIdempotent(k, j, r, q)
        PROVE  state'[i] = state[i]
    BY <1>1, <2>1, <2>4 DEF CreateIdempotent, InsertJob, Exists
  <2>5. ASSUME NEW r \in Request, TxnCreateMember(r)
        PROVE  state'[i] = state[i]
    BY <1>1, <2>1, <2>5 DEF TxnCreateMember, InsertJob, Exists
  <2>6. ASSUME TxnQueueMember
        PROVE  state'[i] = state[i]
    BY <1>1, <2>1, <2>6
       DEF TxnQueueMember, ApplyTransition, WriteState, CanTransition, LegalMoves
  <2>7. ASSUME TxnBulkMember
        PROVE  state'[i] = state[i]
    BY <1>1, <2>1, <2>7 DEF TxnBulkMember, ApplyTransition, WriteState, BulkEligible
  <2>8. ASSUME TxnRollback
        PROVE  state'[i] = state[i]
    BY <1>1, <2>1, <2>8 DEF TxnRollback, TxnOK, NoWriter, KeepsSuccess, Success
  <2>9. ASSUME \/ OpenDatabase \/ TxnCommit \/ UNCHANGED vars
               \/ \E kind \in TxnKinds, m \in MemberLists : TxnBegin(kind, m)
               \/ \E p \in Paths, k \in Keys : RetargetPath(p, k)
        PROVE  state'[i] = state[i]
    BY <2>9 DEF OpenDatabase, TxnCommit, TxnBegin, RetargetPath, store, vars
  <2> QED
    BY <1>1, <2>2, <2>3, <2>4, <2>5, <2>6, <2>7, <2>8, <2>9 DEF Next
<1>2. IInv /\ [Next]_vars => [Kept]_vars
  BY <1>1
<1>3. Spec => [][Kept]_vars
  BY <1>2, InductiveInvariant, PTL DEF Spec
<1> QED
  BY <1>3 DEF SuccessIsFinal

\* The reservation backfill of a reopened database has nothing to add.
THEOREM ReopenIsIdempotent == Spec => ReopenChangesNothing
<1>1. ASSUME IInv, OpenDatabase
      PROVE  UNCHANGED owner
  <2>1. owner \in [Keys -> Jobs \cup {NoJob}]
    BY <1>1 DEF IInv, CurrentOK, RowsOK, RowTypes
  <2>2. \A j \in Jobs : (Exists(j) /\ state[j] \notin SqlTerminal) => OwnedKeys(j) # {}
    BY <1>1 DEF IInv, CurrentOK, RowsOK, ReservedRow, OwnedIn, OwnedKeys, Exists
  <2>3. /\ owner' \in [Keys -> Jobs \cup {NoJob}]
        /\ \A k \in Keys : owner'[k] = owner[k]
    BY <1>1, <2>2 DEF OpenDatabase
  <2> QED
    BY <2>1, <2>3
<1>2. IInv /\ [Next]_vars => [OpenDatabase => UNCHANGED owner]_vars
  BY <1>1
<1> QED
  BY <1>2, InductiveInvariant, PTL DEF Spec, ReopenChangesNothing

-----------------------------------------------------------------------------
(* What JobStore promises over several steps: a history in which every run  *)
(* has its own claim, idempotency keys that never answer differently, and   *)
(* transactions that end as they report.  Each result needs an invariant    *)
(* of its own on top of IInv; like IInv it speaks of the rollback image of  *)
(* the open transaction as well as of the current rows.                     *)

\* between two entries of a history the job went back to the queue and was
\* then claimed again
Renewed(h, a, b) ==
    \E q, c \in a..b : q < c /\ h[q].next = "queued" /\ h[c].next = "inspecting"

RunsApart(h) ==
    \A a, b \in DOMAIN h :
        (a < b /\ h[a].next = "running" /\ h[b].next = "running") => Renewed(h, a, b)

\* a job that may be started next was claimed after each of its earlier runs
Claimed(s, h) ==
    s \in {"inspecting", "planned"} =>
        \A a \in DOMAIN h : h[a].next = "running" => Renewed(h, a, Len(h))

RunRows(st, ev) == \A j \in Jobs : RunsApart(ev[j]) /\ Claimed(st[j], ev[j])

RunInv ==
    /\ RunRows(state, events)
    /\ txn.kind # "idle" => RunRows(txn.saved[1], txn.saved[4])

\* a bound key names a job that exists
BoundRows(st, bd) == \A k \in IdemKeys : bd[k] # NoJob => st[bd[k]] # "absent"

\* an open transaction binds no key and rewrites no request of an older job
BindInv ==
    /\ BoundRows(state, bound)
    /\ txn.kind # "idle" =>
        /\ BoundRows(txn.saved[1], txn.saved[6])
        /\ bound = txn.saved[6]
        /\ \A j \in Jobs : txn.saved[1][j] # "absent" =>
                Exists(j) /\ request[j] = txn.saved[2][j]

Outcomes == {"pending", "transitioned", "skipped-state", "skipped-output-conflict"}

\* what holds of a processed member: its state now and before the transaction,
\* its recorded outcome and the holders of the keys
MemberDone(kind, j, before, now, outcome, ow) ==
    CASE kind \in CreateKinds \cup {"queue"} ->
            /\ now = IF kind = "create" THEN "planned" ELSE "queued"
            /\ \E k \in Keys : ow[k] = j
      [] kind \in BulkKinds /\ outcome = "transitioned" ->
            BulkEligible(kind, before) /\ now = BulkTarget(kind)
      [] kind \in BulkKinds /\ outcome = "skipped-state" ->
            now = before /\ ~BulkEligible(kind, before)
      [] kind \in BulkKinds /\ outcome = "skipped-output-conflict" ->
            /\ now = before /\ BulkEligible(kind, before) /\ kind # "cancel"
            /\ \E k \in Keys : ow[k] \notin {NoJob, j}
      [] OTHER -> FALSE

DoneCount == Len(txn.members) - Len(txn.todo)

\* the members are processed in order; those still to come are as they were
Progress ==
    txn.kind # "idle" =>
        /\ txn.members \in MemberLists
        /\ txn.saved = <<txn.saved[1], txn.saved[2], txn.saved[3], txn.saved[4],
                         txn.saved[5], txn.saved[6], txn.saved[7]>>
        /\ txn.outcome \in [Jobs -> Outcomes]
        /\ Len(txn.todo) <= Len(txn.members)
        /\ \A i \in 1..Len(txn.todo) : txn.todo[i] = txn.members[DoneCount + i]
        /\ \A i \in DOMAIN txn.members :
              LET j == txn.members[i]
              IN  IF i <= DoneCount
                  THEN MemberDone(txn.kind, j, txn.saved[1][j], state[j],
                                  txn.outcome[j], owner)
                  ELSE state[j] = txn.saved[1][j]

-----------------------------------------------------------------------------
(* One run per claim.                                                       *)

\* appending an event keeps the renewals a history already shows.
LEMMA AppendKeepsRenewal ==
    ASSUME NEW h \in Seq(Event), NEW e \in Event, NEW a \in 1..Len(h),
           NEW b \in 1..Len(h), Renewed(h, a, b)
    PROVE  Renewed(Append(h, e), a, b)
<1>1. PICK q \in a..b, c \in a..b :
            q < c /\ h[q].next = "queued" /\ h[c].next = "inspecting"
  BY DEF Renewed
<1>2. q \in 1..Len(h) /\ c \in 1..Len(h)
  BY <1>1
<1>3. Append(h, e)[q] = h[q] /\ Append(h, e)[c] = h[c]
  BY <1>2
<1> QED
  BY <1>1, <1>3 DEF Renewed

\* a renewal stays one in a longer range.
LEMMA RenewalExtends ==
    ASSUME NEW h, NEW a \in Nat, NEW b \in Nat, NEW d \in Nat, b <= d, Renewed(h, a, b)
    PROVE  Renewed(h, a, d)
<1>1. PICK q \in a..b, c \in a..b :
            q < c /\ h[q].next = "queued" /\ h[c].next = "inspecting"
  BY DEF Renewed
<1>2. q \in a..d /\ c \in a..d
  BY <1>1
<1> QED
  BY <1>1, <1>2 DEF Renewed

\* the moves that write an event: a legal transition, or the same-state event
\* of a staging cleanup.
Moves(s, t) ==
    CanTransition(s, t) \/ (s = t /\ s \in {"blocked", "failed", "cancelled", "interrupted"})

\* one more event of a job keeps its runs apart: only a claimed job is started,
\* and only a queued one is claimed.
LEMMA WriteStateKeepsRunsApart ==
    ASSUME CurrentOK, RunRows(state, events), NEW j \in Jobs, Exists(j),
           NEW next \in JobState, Moves(state[j], next), WriteState(j, next)
    PROVE  RunRows(state', events')
<1> DEFINE e == [sequence |-> sequence[j] + 1, previous |-> state[j], next |-> next]
<1> DEFINE h == events[j]
<1> DEFINE new == Append(h, e)
<1>1. /\ state \in [Jobs -> JobState \cup {"absent"}]
      /\ sequence \in [Jobs -> Nat]
      /\ events \in [Jobs -> Seq(Event)]
      /\ state' = [state EXCEPT ![j] = next]
      /\ events' = [events EXCEPT ![j] = new]
  BY DEF CurrentOK, RowsOK, RowTypes, WriteState
<1>2. h \in Seq(Event) /\ e \in Event /\ e.next = next
  <2>1. sequence[j] + 1 \in Nat /\ state[j] \in JobState
    BY <1>1 DEF Exists
  <2>2. e \in Event
    BY <2>1 DEF Event
  <2> QED
    BY <1>1, <2>2
<1>3. /\ Len(h) \in Nat /\ DOMAIN h = 1..Len(h) /\ DOMAIN new = 1..(Len(h) + 1)
      /\ Len(new) = Len(h) + 1 /\ new[Len(h) + 1] = e
      /\ \A a \in 1..Len(h) : new[a] = h[a]
  BY <1>2
<1>4. /\ Len(h) >= 1 /\ h[Len(h)].next = state[j]
  BY <1>1, <1>3, HistoryRow(state, sequence, events, j)
     DEF CurrentOK, RowsOK, HistoryRow, Exists
<1>5. RunsApart(h) /\ Claimed(state[j], h)
  BY DEF RunRows
<1>6. \A a, b \in 1..Len(h) : Renewed(h, a, b) => Renewed(new, a, b) /\ Renewed(new, a, Len(h) + 1)
  <2> SUFFICES ASSUME NEW a \in 1..Len(h), NEW b \in 1..Len(h), Renewed(h, a, b)
               PROVE  Renewed(new, a, b) /\ Renewed(new, a, Len(h) + 1)
    OBVIOUS
  <2>1. Renewed(new, a, b)
    BY <1>2, AppendKeepsRenewal
  <2>2. a \in Nat /\ b \in Nat /\ Len(h) + 1 \in Nat /\ b <= Len(h) + 1
    BY <1>3
  <2> HIDE DEF new
  <2> QED
    BY <2>1, <2>2, RenewalExtends
<1>7. CanTransition(state[j], "running") => state[j] = "planned"
  BY DEF CanTransition, LegalMoves
<1>8. CanTransition(state[j], "inspecting") => state[j] = "queued"
  BY DEF CanTransition, LegalMoves
<1>9. CanTransition(state[j], "planned") => state[j] = "inspecting"
  BY DEF CanTransition, LegalMoves
<1>10. RunsApart(new)
  <2> SUFFICES ASSUME NEW a \in DOMAIN new, NEW b \in DOMAIN new, a < b,
                      new[a].next = "running", new[b].next = "running"
               PROVE  Renewed(new, a, b)
    BY DEF RunsApart
  <2>1. a \in 1..Len(h) /\ h[a].next = "running"
    BY <1>3
  <2>2. CASE b \in 1..Len(h)
    <3>1. h[b].next = "running"
      BY <2>2, <1>3
    <3> HIDE DEF new, h
    <3> QED
      BY <2>1, <2>2, <3>1, <1>3, <1>5, <1>6 DEF RunsApart
  <2>3. CASE b = Len(h) + 1
    <3>1. next = "running"
      BY <2>3, <1>2, <1>3
    <3>2. state[j] = "planned"
      BY <3>1, <1>7 DEF Moves
    <3>3. Renewed(h, a, Len(h))
      BY <2>1, <3>2, <1>3, <1>5 DEF Claimed
    <3> HIDE DEF new, h
    <3> QED
      BY <2>1, <2>3, <3>3, <1>3, <1>4, <1>6
  <2> HIDE DEF new, h
  <2> QED
    BY <2>2, <2>3, <1>3
<1>11. Claimed(next, new)
  <2> SUFFICES ASSUME next \in {"inspecting", "planned"},
                      NEW a \in DOMAIN new, new[a].next = "running"
               PROVE  Renewed(new, a, Len(h) + 1)
    BY <1>3 DEF Claimed
  <2>1. a \in 1..Len(h) /\ h[a].next = "running"
    <3> HIDE DEF new, h
    <3> QED
      BY <1>2, <1>3
  <2>2. CASE next = "inspecting"
    <3>1. state[j] = "queued"
      BY <2>2, <1>8 DEF Moves
    <3>2. new[Len(h)].next = "queued" /\ new[Len(h) + 1].next = "inspecting"
      <4> HIDE DEF new, h
      <4> QED
        BY <2>2, <3>1, <1>2, <1>3, <1>4
    <3>3. Len(h) \in a..(Len(h) + 1) /\ Len(h) + 1 \in a..(Len(h) + 1)
      BY <2>1, <1>3
    <3> HIDE DEF new, h
    <3> QED
      BY <3>2, <3>3, <1>3 DEF Renewed
  <2>3. CASE next = "planned"
    <3>1. state[j] = "inspecting"
      BY <2>3, <1>9 DEF Moves
    <3>2. Renewed(h, a, Len(h))
      BY <2>1, <3>1, <1>3, <1>5 DEF Claimed
    <3> HIDE DEF new, h
    <3> QED
      BY <2>1, <3>2, <1>3, <1>4, <1>6
  <2> QED
    BY <2>2, <2>3
<1> QED
  <2> SUFFICES ASSUME NEW i \in Jobs
               PROVE  RunsApart(events'[i]) /\ Claimed(state'[i], events'[i])
    BY DEF RunRows
  <2>1. CASE i = j
    <3> HIDE DEF new
    <3> QED
      BY <2>1, <1>1, <1>10, <1>11
  <2>2. CASE i # j
    <3> HIDE DEF new
    <3>1. state'[i] = state[i] /\ events'[i] = events[i]
      BY <2>2, <1>1
    <3> QED
      BY <3>1 DEF RunRows
  <2> QED
    BY <2>1, <2>2

\* a new job has not run.
LEMMA InsertJobKeepsRunsApart ==
    ASSUME CurrentOK, RunRows(state, events), NEW j \in Jobs, NEW r, NEW enqueue,
           InsertJob(j, r, enqueue)
    PROVE  RunRows(state', events')
<1> DEFINE created == [sequence |-> 0, previous |-> "null", next |-> "planned"]
<1> DEFINE queued == [sequence |-> 1, previous |-> "planned", next |-> "queued"]
<1> DEFINE ev == IF enqueue THEN <<created, queued>> ELSE <<created>>
<1> DEFINE st == IF enqueue THEN "queued" ELSE "planned"
<1>1. /\ state' = [state EXCEPT ![j] = st] /\ events' = [events EXCEPT ![j] = ev]
      /\ state \in [Jobs -> JobState \cup {"absent"}]
      /\ events \in [Jobs -> Seq(Event)]
  BY DEF InsertJob, CurrentOK, RowsOK, RowTypes
<1>2. \A a \in DOMAIN ev : ev[a].next # "running"
  <2>1. CASE enqueue
    <3>1. DOMAIN ev = 1..2 /\ ev[1] = created /\ ev[2] = queued
      BY <2>1
    <3> QED
      BY <3>1
  <2>2. CASE ~enqueue
    <3>1. DOMAIN ev = 1..1 /\ ev[1] = created
      BY <2>2
    <3> QED
      BY <3>1
  <2> QED
    BY <2>1, <2>2
<1>3. RunsApart(ev) /\ Claimed(st, ev)
  <2> HIDE DEF ev, st
  <2> QED
    BY <1>2 DEF RunsApart, Claimed
<1> SUFFICES ASSUME NEW i \in Jobs
             PROVE  RunsApart(events'[i]) /\ Claimed(state'[i], events'[i])
  BY DEF RunRows
<1>4. CASE i = j
  <2> HIDE DEF ev, st
  <2> QED
    BY <1>4, <1>1, <1>3
<1>5. CASE i # j
  <2> HIDE DEF ev, st
  <2>1. state'[i] = state[i] /\ events'[i] = events[i]
    BY <1>5, <1>1
  <2> QED
    BY <2>1 DEF RunRows
<1> QED
  BY <1>4, <1>5

\* a step of an open transaction keeps its rollback image.
LEMMA MemberStepKeepsImage ==
    ASSUME TxnOK,
           (\E r \in Request : TxnCreateMember(r)) \/ TxnQueueMember \/ TxnBulkMember
    PROVE  txn.kind # "idle" /\ txn'.kind = txn.kind /\ txn'.saved = txn.saved
<1>1. CASE \E r \in Request : TxnCreateMember(r)
  BY <1>1 DEF TxnCreateMember, TxnOK, CreateKinds
<1>2. CASE TxnQueueMember
  BY <1>2 DEF TxnQueueMember, TxnOK
<1>3. CASE TxnBulkMember
  BY <1>3 DEF TxnBulkMember, TxnOK, BulkKinds
<1> QED
  BY <1>1, <1>2, <1>3

\* the member at the head of the list is a job.
LEMMA HeadIsJob ==
    ASSUME TxnOK, txn.kind # "idle", txn.todo # <<>>
    PROVE  Head(txn.todo) \in Jobs
  BY DEF TxnOK

LEMMA NextKeepsRunInv == IInv /\ RunInv /\ [Next]_vars => RunInv'
<1> SUFFICES ASSUME IInv, RunInv, [Next]_vars PROVE RunInv'
  OBVIOUS
<1>0. CurrentOK /\ TxnOK /\ RunRows(state, events)
  BY DEF IInv, RunInv
\* outside a transaction only the current rows matter
<1>a. ASSUME NoWriter, UNCHANGED txn, RunRows(state', events') PROVE RunInv'
  BY <1>a DEF RunInv, NoWriter
\* inside one the image is as it was
<1>b. ASSUME txn.kind # "idle", txn'.saved = txn.saved, RunRows(state', events')
      PROVE  RunInv'
  BY <1>b DEF RunInv
<1>1. ASSUME NEW j \in Jobs, NEW next \in JobState, Transition(j, next)
      PROVE  RunInv'
  <2>1. Exists(j) /\ Moves(state[j], next) /\ WriteState(j, next) /\ NoWriter /\ UNCHANGED txn
    BY <1>1 DEF Transition, ApplyTransition, Moves
  <2> QED
    BY <1>0, <2>1, <1>a, WriteStateKeepsRunsApart
<1>2. ASSUME NEW j \in Jobs, ClaimQueuedJob(j)
      PROVE  RunInv'
  <2>1. /\ Exists(j) /\ Moves(state[j], "inspecting") /\ "inspecting" \in JobState
        /\ WriteState(j, "inspecting") /\ NoWriter /\ UNCHANGED txn
    BY <1>2 DEF ClaimQueuedJob, Exists, Moves, CanTransition, LegalMoves, JobState
  <2> QED
    BY <1>0, <2>1, <1>a, WriteStateKeepsRunsApart
<1>3. ASSUME NEW j \in Jobs, CleanupStaging(j)
      PROVE  RunInv'
  <2>1. /\ Exists(j) /\ Moves(state[j], state[j]) /\ state[j] \in JobState
        /\ WriteState(j, state[j]) /\ NoWriter /\ UNCHANGED txn
    BY <1>3 DEF CleanupStaging, Exists, Moves, JobState
  <2> QED
    BY <1>0, <2>1, <1>a, WriteStateKeepsRunsApart
<1>4. ASSUME NEW k \in IdemKeys, NEW j \in Jobs, NEW r \in Request,
             NEW q \in BOOLEAN, CreateIdempotent(k, j, r, q)
      PROVE  RunInv'
  <2>1. InsertJob(j, r, q) /\ NoWriter /\ UNCHANGED txn
    BY <1>4 DEF CreateIdempotent
  <2> QED
    BY <1>0, <2>1, <1>a, InsertJobKeepsRunsApart
<1>5. ASSUME NEW kind \in TxnKinds, NEW m \in MemberLists, TxnBegin(kind, m)
      PROVE  RunInv'
  <2>1. UNCHANGED <<state, events>> /\ txn'.saved[1] = state /\ txn'.saved[4] = events
    BY <1>5 DEF TxnBegin, store
  <2> QED
    BY <1>0, <2>1 DEF RunInv
<1>6. ASSUME NEW r \in Request, TxnCreateMember(r)
      PROVE  RunInv'
  <2>1. txn.kind # "idle" /\ txn'.saved = txn.saved
    BY <1>0, <1>6, MemberStepKeepsImage
  <2>2. Head(txn.todo) \in Jobs /\ InsertJob(Head(txn.todo), r, txn.kind = "enqueue")
    BY <1>0, <1>6, <2>1, HeadIsJob DEF TxnCreateMember
  <2> QED
    BY <1>0, <2>1, <2>2, <1>b, InsertJobKeepsRunsApart
<1>7. ASSUME TxnQueueMember
      PROVE  RunInv'
  <2>1. txn.kind # "idle" /\ txn'.saved = txn.saved
    BY <1>0, <1>7, MemberStepKeepsImage
  <2>2. /\ Head(txn.todo) \in Jobs /\ Exists(Head(txn.todo))
        /\ Moves(state[Head(txn.todo)], "queued") /\ "queued" \in JobState
        /\ WriteState(Head(txn.todo), "queued")
    BY <1>0, <1>7, <2>1, HeadIsJob
       DEF TxnQueueMember, ApplyTransition, Exists, Moves, CanTransition, LegalMoves, JobState
  <2> QED
    BY <1>0, <2>1, <2>2, <1>b, WriteStateKeepsRunsApart
<1>8. ASSUME TxnBulkMember
      PROVE  RunInv'
  <2> DEFINE j == Head(txn.todo)
  <2> DEFINE next == BulkTarget(txn.kind)
  <2>1. txn.kind # "idle" /\ txn'.saved = txn.saved
    BY <1>0, <1>8, MemberStepKeepsImage
  <2>2. j \in Jobs
    BY <1>0, <1>8, <2>1, HeadIsJob DEF TxnBulkMember
  <2>3. CASE UNCHANGED <<state, events>>
    BY <1>0, <2>1, <2>3, <1>b
  <2>4. CASE BulkEligible(txn.kind, state[j]) /\ ApplyTransition(j, next)
    <3>1. Exists(j) /\ Moves(state[j], next) /\ next \in JobState /\ WriteState(j, next)
      BY <2>4, BulkMovesAreLegal DEF Moves, Exists, ApplyTransition
    <3> HIDE DEF j, next
    <3> QED
      BY <1>0, <2>1, <2>2, <3>1, <1>b, WriteStateKeepsRunsApart
  <2> QED
    BY <1>8, <2>3, <2>4 DEF TxnBulkMember
<1>9. ASSUME TxnCommit
      PROVE  RunInv'
  BY <1>0, <1>9 DEF TxnCommit, store, Idle, RunInv
<1>10. ASSUME TxnRollback
       PROVE  RunInv'
  <2>1. RunRows(txn.saved[1], txn.saved[4])
    BY <1>10 DEF TxnRollback, NoWriter, RunInv
  <2> QED
    BY <1>10, <2>1 DEF TxnRollback, Idle, RunInv
<1>11. ASSUME \/ \E j \in Jobs : RecordRevalidation(j)
              \/ OpenDatabase
              \/ \E p \in Paths, k \in Keys : RetargetPath(p, k)
              \/ UNCHANGED vars
       PROVE  RunInv'
  <2>1. UNCHANGED <<state, events, txn>>
    BY <1>11 DEF RecordRevalidation, OpenDatabase, RetargetPath, store, vars
  <2> QED
    BY <2>1 DEF RunInv
<1> QED
  BY <1>1, <1>2, <1>3, <1>4, <1>5, <1>6, <1>7, <1>8, <1>9, <1>10, <1>11 DEF Next

\* No history ever shows two runs on one claim (ADR-0003), whatever the callers
\* of transition, the claims, the bulk actions and the rollbacks do in between.
THEOREM OneRunForEachClaim == Spec => []OneRunPerClaim
<1>1. Init => RunInv
  BY DEF Init, Idle, RunInv, RunRows, RunsApart, Claimed
<1>2. IInv /\ RunInv /\ [Next]_vars => RunInv'
  BY NextKeepsRunInv
<1>3. RunInv => OneRunPerClaim
  BY DEF RunInv, RunRows, RunsApart, Renewed, OneRunPerClaim
<1> QED
  BY <1>1, <1>2, <1>3, InductiveInvariant, PTL DEF Spec

-----------------------------------------------------------------------------
(* Idempotency keys.                                                        *)

\* a state write never takes a row away.
LEMMA WriteStateKeepsRows ==
    ASSUME CurrentOK, NEW j \in Jobs, NEW next \in JobState, WriteState(j, next)
    PROVE  \A i \in Jobs : Exists(i) => Exists(i)'
  BY DEF WriteState, Exists, CurrentOK, RowsOK, RowTypes, JobState

\* a new row leaves the other rows and their requests alone.
LEMMA InsertJobKeepsRows ==
    ASSUME CurrentOK, NEW j \in Jobs, NEW r, NEW enqueue, InsertJob(j, r, enqueue)
    PROVE  /\ Exists(j)'
           /\ \A i \in Jobs \ {j} : state'[i] = state[i] /\ request'[i] = request[i]
  BY DEF InsertJob, Exists, CurrentOK, RowsOK, RowTypes

\* a step that binds nothing, rewrites no request and removes no row.
LEMMA RowsOnlyGrow ==
    ASSUME CurrentOK, BindInv, UNCHANGED bound,
           \A i \in Jobs : Exists(i) => Exists(i)' /\ request'[i] = request[i],
           \/ txn.kind # "idle" /\ txn'.saved = txn.saved
           \/ txn'.kind = "idle"
    PROVE  BindInv'
<1>1. BoundRows(state', bound')
  BY DEF BindInv, BoundRows, Exists, CurrentOK, RowsOK, RowTypes
<1>2. CASE txn.kind # "idle" /\ txn'.saved = txn.saved
  <2>1. ASSUME NEW i \in Jobs, txn.saved[1][i] # "absent"
        PROVE  Exists(i)' /\ request'[i] = txn.saved[2][i]
    BY <1>2, <2>1 DEF BindInv
  <2> QED
    BY <1>1, <1>2, <2>1 DEF BindInv
<1>3. CASE txn'.kind = "idle"
  BY <1>1, <1>3 DEF BindInv
<1> QED
  BY <1>2, <1>3

LEMMA NextKeepsBindInv == IInv /\ BindInv /\ [Next]_vars => BindInv'
<1> SUFFICES ASSUME IInv, BindInv, [Next]_vars PROVE BindInv'
  OBVIOUS
<1>0. CurrentOK /\ TxnOK
  BY DEF IInv
<1>1. ASSUME NEW j \in Jobs, NEW next \in JobState, Transition(j, next)
      PROVE  BindInv'
  <2>1. WriteState(j, next) /\ UNCHANGED <<request, bound>> /\ txn'.kind = "idle"
    BY <1>1 DEF Transition, ApplyTransition, NoWriter
  <2> QED
    BY <1>0, <2>1, WriteStateKeepsRows, RowsOnlyGrow
<1>2. ASSUME NEW j \in Jobs, ClaimQueuedJob(j)
      PROVE  BindInv'
  <2>1. /\ WriteState(j, "inspecting") /\ "inspecting" \in JobState
        /\ UNCHANGED <<request, bound>> /\ txn'.kind = "idle"
    BY <1>2 DEF ClaimQueuedJob, NoWriter, JobState
  <2> QED
    BY <1>0, <2>1, WriteStateKeepsRows, RowsOnlyGrow
<1>3. ASSUME NEW j \in Jobs, CleanupStaging(j)
      PROVE  BindInv'
  <2>1. /\ WriteState(j, state[j]) /\ state[j] \in JobState
        /\ UNCHANGED <<request, bound>> /\ txn'.kind = "idle"
    BY <1>3 DEF CleanupStaging, NoWriter, JobState
  <2> QED
    BY <1>0, <2>1, WriteStateKeepsRows, RowsOnlyGrow
<1>4. ASSUME NEW k \in IdemKeys, NEW j \in Jobs, NEW r \in Request,
             NEW q \in BOOLEAN, CreateIdempotent(k, j, r, q)
      PROVE  BindInv'
  <2>1. /\ InsertJob(j, r, q) /\ txn'.kind = "idle"
        /\ bound' = [bound EXCEPT ![k] = j]
    BY <1>4 DEF CreateIdempotent, NoWriter
  <2>2. Exists(j)' /\ \A i \in Jobs \ {j} : state'[i] = state[i]
    BY <1>0, <2>1, InsertJobKeepsRows
  <2>3. bound \in [IdemKeys -> Jobs \cup {NoJob}] /\ BoundRows(state, bound)
    BY <1>0 DEF CurrentOK, RowsOK, RowTypes, BindInv
  <2>4. BoundRows(state', bound')
    BY <2>1, <2>2, <2>3 DEF BoundRows, Exists
  <2> QED
    BY <2>1, <2>4 DEF BindInv
<1>5. ASSUME NEW kind \in TxnKinds, NEW m \in MemberLists, TxnBegin(kind, m)
      PROVE  BindInv'
  <2>1. /\ UNCHANGED <<state, request, bound>>
        /\ txn'.saved[1] = state /\ txn'.saved[2] = request /\ txn'.saved[6] = bound
    BY <1>5 DEF TxnBegin, store
  <2> QED
    BY <2>1 DEF BindInv, Exists
<1>6. ASSUME NEW r \in Request, TxnCreateMember(r)
      PROVE  BindInv'
  <2>1. txn.kind # "idle" /\ txn'.saved = txn.saved
    BY <1>0, <1>6, MemberStepKeepsImage
  <2>2. /\ Head(txn.todo) \in Jobs /\ InsertJob(Head(txn.todo), r, txn.kind = "enqueue")
        /\ ~Exists(Head(txn.todo)) /\ UNCHANGED bound
    BY <1>0, <1>6, <2>1, HeadIsJob DEF TxnCreateMember
  <2>3. \A i \in Jobs : Exists(i) => Exists(i)' /\ request'[i] = request[i]
    BY <1>0, <2>2, InsertJobKeepsRows DEF Exists
  <2> QED
    BY <1>0, <2>1, <2>2, <2>3, RowsOnlyGrow
<1>7. ASSUME TxnQueueMember
      PROVE  BindInv'
  <2>1. txn.kind # "idle" /\ txn'.saved = txn.saved
    BY <1>0, <1>7, MemberStepKeepsImage
  <2>2. /\ Head(txn.todo) \in Jobs /\ "queued" \in JobState
        /\ WriteState(Head(txn.todo), "queued") /\ UNCHANGED <<request, bound>>
    BY <1>0, <1>7, <2>1, HeadIsJob DEF TxnQueueMember, ApplyTransition, JobState
  <2> QED
    BY <1>0, <2>1, <2>2, WriteStateKeepsRows, RowsOnlyGrow
<1>8. ASSUME TxnBulkMember
      PROVE  BindInv'
  <2> DEFINE j == Head(txn.todo)
  <2> DEFINE next == BulkTarget(txn.kind)
  <2>1. txn.kind # "idle" /\ txn'.saved = txn.saved
    BY <1>0, <1>8, MemberStepKeepsImage
  <2>2. j \in Jobs /\ UNCHANGED <<request, bound>>
    BY <1>0, <1>8, <2>1, HeadIsJob DEF TxnBulkMember
  <2>3. CASE UNCHANGED state
    BY <1>0, <2>1, <2>2, <2>3, RowsOnlyGrow DEF Exists
  <2>4. CASE BulkEligible(txn.kind, state[j]) /\ ApplyTransition(j, next)
    <3>1. next \in JobState /\ WriteState(j, next)
      BY <2>4, BulkMovesAreLegal DEF ApplyTransition
    <3> HIDE DEF j, next
    <3> QED
      BY <1>0, <2>1, <2>2, <3>1, WriteStateKeepsRows, RowsOnlyGrow
  <2> QED
    BY <1>8, <2>3, <2>4 DEF TxnBulkMember
<1>9. ASSUME TxnCommit
      PROVE  BindInv'
  BY <1>0, <1>9, RowsOnlyGrow DEF TxnCommit, store, Idle, Exists
<1>10. ASSUME TxnRollback
       PROVE  BindInv'
  BY <1>10 DEF TxnRollback, NoWriter, Idle, BindInv, Exists
<1>11. ASSUME \/ \E j \in Jobs : RecordRevalidation(j)
              \/ OpenDatabase
              \/ \E p \in Paths, k \in Keys : RetargetPath(p, k)
              \/ UNCHANGED vars
       PROVE  BindInv'
  <2>1. UNCHANGED <<state, request, bound, txn>>
    BY <1>11 DEF RecordRevalidation, OpenDatabase, RetargetPath, store, vars
  <2> QED
    BY <2>1 DEF BindInv, Exists
<1> QED
  BY <1>1, <1>2, <1>3, <1>4, <1>5, <1>6, <1>7, <1>8, <1>9, <1>10, <1>11 DEF Next

\* A key bound by a committed call answers with the same job and the same
\* stored intent for ever; no transaction of other jobs rolls it back.
THEOREM BindingsAreStable == Spec => BindingStable
<1> DEFINE Kept == \A k \in IdemKeys : bound[k] # NoJob =>
                        /\ bound'[k] = bound[k]
                        /\ request'[bound[k]] = request[bound[k]]
<1>1. Init => BindInv
  BY DEF Init, Idle, BindInv, BoundRows
<1>2. IInv /\ BindInv /\ [Next]_vars => BindInv'
  BY NextKeepsBindInv
<1>3. ASSUME IInv, BindInv, [Next]_vars, NEW k \in IdemKeys, bound[k] # NoJob
      PROVE  bound'[k] = bound[k] /\ request'[bound[k]] = request[bound[k]]
  <2>1. /\ CurrentOK /\ TxnOK /\ bound[k] \in Jobs /\ Exists(bound[k])
        /\ bound \in [IdemKeys -> Jobs \cup {NoJob}]
    BY <1>3 DEF IInv, CurrentOK, RowsOK, RowTypes, BindInv, BoundRows, Exists
  <2>2. ASSUME NEW i \in IdemKeys, NEW j \in Jobs, NEW r \in Request,
               NEW q \in BOOLEAN, CreateIdempotent(i, j, r, q)
        PROVE  bound'[k] = bound[k] /\ request'[bound[k]] = request[bound[k]]
    <3>1. bound[k] # j /\ i # k
      BY <1>3, <2>1, <2>2 DEF CreateIdempotent
    <3>2. InsertJob(j, r, q) /\ bound' = [bound EXCEPT ![i] = j]
      BY <2>2 DEF CreateIdempotent
    <3> QED
      BY <2>1, <3>1, <3>2, InsertJobKeepsRows
  <2>3. ASSUME NEW r \in Request, TxnCreateMember(r)
        PROVE  bound'[k] = bound[k] /\ request'[bound[k]] = request[bound[k]]
    <3>1. txn.kind # "idle"
      BY <2>1, <2>3, MemberStepKeepsImage
    <3>2. /\ Head(txn.todo) \in Jobs /\ InsertJob(Head(txn.todo), r, txn.kind = "enqueue")
          /\ bound[k] # Head(txn.todo) /\ UNCHANGED bound
      BY <2>1, <2>3, <3>1, HeadIsJob DEF TxnCreateMember
    <3> QED
      BY <2>1, <3>2, InsertJobKeepsRows
  <2>4. ASSUME TxnRollback
        PROVE  bound'[k] = bound[k] /\ request'[bound[k]] = request[bound[k]]
    BY <1>3, <2>1, <2>4 DEF TxnRollback, NoWriter, BindInv, BoundRows
  <2>5. ASSUME \/ \E j \in Jobs, next \in JobState : Transition(j, next)
               \/ \E j \in Jobs : ClaimQueuedJob(j) \/ CleanupStaging(j) \/ RecordRevalidation(j)
               \/ OpenDatabase
               \/ \E kind \in TxnKinds, m \in MemberLists : TxnBegin(kind, m)
               \/ TxnQueueMember \/ TxnBulkMember \/ TxnCommit
               \/ \E p \in Paths, i \in Keys : RetargetPath(p, i)
               \/ UNCHANGED vars
        PROVE  UNCHANGED <<bound, request>>
    BY <2>5 DEF Transition, ClaimQueuedJob, CleanupStaging, RecordRevalidation,
       OpenDatabase, TxnBegin, TxnQueueMember, TxnBulkMember, TxnCommit, RetargetPath,
       store, vars
  <2> QED
    BY <1>3, <2>2, <2>3, <2>4, <2>5 DEF Next
<1>4. IInv /\ BindInv /\ [Next]_vars => [Kept]_vars
  BY <1>3
<1>5. Spec => [][Kept]_vars
  BY <1>1, <1>2, <1>4, InductiveInvariant, PTL DEF Spec
<1> QED
  BY <1>5 DEF BindingStable

-----------------------------------------------------------------------------
(* Transactions end as they report.                                         *)

\* whoever holds a key keeps one
HoldersStay(ow, new) ==
    \A i \in Jobs : (\E k \in Keys : ow[k] = i) => \E k \in Keys : new[k] = i

\* a reservation takes no key from another job.
LEMMA ReserveKeepsHolders ==
    ASSUME owner \in [Keys -> Jobs \cup {NoJob}], identity \in [Paths -> Keys],
           NEW j \in Jobs, NEW path \in Paths, CanReserve(j, path)
    PROVE  /\ HoldersStay(owner, Reserve(j, path))
           /\ \E k \in Keys : Reserve(j, path)[k] = j
<1>1. /\ OwnedIn(Reserve(j, path), j) = {KeyOf(path)} /\ KeyOf(path) \in Keys
      /\ \A i \in Jobs \ {j} : OwnedIn(Reserve(j, path), i) = OwnedIn(owner, i)
  BY ReserveGivesOneKey
<1>2. \E k \in Keys : Reserve(j, path)[k] = j
  BY <1>1 DEF OwnedIn
<1>3. ASSUME NEW i \in Jobs \ {j}, NEW k \in Keys, owner[k] = i
      PROVE  \E l \in Keys : Reserve(j, path)[l] = i
  <2>1. k \in OwnedIn(owner, i)
    BY <1>3 DEF OwnedIn
  <2>2. k \in OwnedIn(Reserve(j, path), i)
    BY <1>1, <2>1
  <2> QED
    BY <2>2 DEF OwnedIn
<1> QED
  BY <1>2, <1>3 DEF HoldersStay

\* what was said of a processed member stays true while holders keep a key.
LEMMA DoneStaysDone ==
    ASSUME NEW kind, NEW j \in Jobs, NEW before, NEW now, NEW outcome,
           owner \in [Keys -> Jobs \cup {NoJob}], MemberDone(kind, j, before, now, outcome, owner),
           kind # "cancel" => HoldersStay(owner, owner')
    PROVE  MemberDone(kind, j, before, now, outcome, owner')
<1>1. CASE kind \in CreateKinds \cup {"queue"}
  <2>1. /\ now = IF kind = "create" THEN "planned" ELSE "queued"
        /\ \E k \in Keys : owner[k] = j
    BY <1>1 DEF MemberDone, CreateKinds, BulkKinds
  <2>2. \E k \in Keys : owner'[k] = j
    BY <1>1, <2>1 DEF HoldersStay, CreateKinds
  <2> QED
    BY <1>1, <2>1, <2>2 DEF MemberDone, CreateKinds, BulkKinds
<1>2. CASE kind \in BulkKinds /\ outcome = "skipped-output-conflict"
  <2>1. kind # "cancel" /\ now = before /\ BulkEligible(kind, before)
    BY <1>2 DEF MemberDone, CreateKinds, BulkKinds
  <2>2. PICK k \in Keys : owner[k] \notin {NoJob, j}
    BY <1>2 DEF MemberDone, CreateKinds, BulkKinds
  <2>3. PICK l \in Keys : owner'[l] = owner[k]
    BY <2>1, <2>2 DEF HoldersStay
  <2>4. \E x \in Keys : owner'[x] \notin {NoJob, j}
    BY <2>2, <2>3
  <2> QED
    BY <1>2, <2>1, <2>4 DEF MemberDone, CreateKinds, BulkKinds
<1>3. CASE /\ kind \notin CreateKinds \cup {"queue"}
           /\ ~(kind \in BulkKinds /\ outcome = "skipped-output-conflict")
  BY <1>3 DEF MemberDone
<1> QED
  BY <1>1, <1>2, <1>3

\* the members of a list are jobs, each named once.
LEMMA MembersDistinct ==
    ASSUME NEW m \in MemberLists
    PROVE  /\ m \in Seq(Jobs) /\ DOMAIN m = 1..Len(m) /\ Len(m) \in Nat
           /\ \A a, b \in DOMAIN m : m[a] = m[b] => a = b
<1>1. m \in Seq(Jobs)
  BY MembersAreJobs
<1> QED
  BY <1>1 DEF MemberLists

\* processing the head of the list advances the transaction by one member.
LEMMA MemberStepKeepsProgress ==
    ASSUME CurrentOK, TxnOK, Progress, txn.kind # "idle", txn.todo # <<>>,
           NEW outcome \in Outcomes, NEW next,
           txn' = [txn EXCEPT !.todo = Tail(txn.todo),
                              !.outcome[Head(txn.todo)] = outcome],
           state' = [state EXCEPT ![Head(txn.todo)] = next],
           txn.kind # "cancel" => HoldersStay(owner, owner'),
           state[Head(txn.todo)] = txn.saved[1][Head(txn.todo)] =>
               MemberDone(txn.kind, Head(txn.todo), state[Head(txn.todo)], next,
                          outcome, owner')
    PROVE  Progress'
<1> DEFINE m == txn.members
<1> DEFINE t == txn.todo
<1> DEFINE d == Len(m) - Len(t)
<1> DEFINE h == Head(t)
<1>1. /\ m \in MemberLists /\ txn.outcome \in [Jobs -> Outcomes] /\ Len(t) <= Len(m)
      /\ \A i \in 1..Len(t) : t[i] = m[d + i]
      /\ \A i \in DOMAIN m :
            IF i <= d
            THEN MemberDone(txn.kind, m[i], txn.saved[1][m[i]], state[m[i]],
                            txn.outcome[m[i]], owner)
            ELSE state[m[i]] = txn.saved[1][m[i]]
      /\ txn.saved = <<txn.saved[1], txn.saved[2], txn.saved[3], txn.saved[4],
                       txn.saved[5], txn.saved[6], txn.saved[7]>>
  BY DEF Progress, DoneCount
<1>2. /\ m \in Seq(Jobs) /\ DOMAIN m = 1..Len(m) /\ Len(m) \in Nat
      /\ \A a, b \in DOMAIN m : m[a] = m[b] => a = b
  BY <1>1, MembersDistinct
<1>3. t \in Seq(Jobs)
  BY DEF TxnOK
<1>4. /\ Len(t) \in Nat /\ Len(t) >= 1 /\ h = t[1] /\ h \in Jobs
      /\ Tail(t) \in Seq(Jobs) /\ Len(Tail(t)) = Len(t) - 1
      /\ \A i \in 1..(Len(t) - 1) : Tail(t)[i] = t[i + 1]
  BY <1>3
<1>a. d = Len(m) - Len(t)
  OBVIOUS
<1> HIDE DEF m, t, d, h
<1>5. d \in Nat /\ d + 1 \in DOMAIN m /\ h = m[d + 1]
  <2>1. Len(t) \in Nat /\ Len(m) \in Nat /\ 1 <= Len(t) /\ Len(t) <= Len(m)
    BY <1>1, <1>2, <1>4
  <2>2. d \in Nat /\ d + 1 \in 1..Len(m) /\ 1 \in 1..Len(t)
    BY ONLY <1>a, <2>1
  <2>3. t[1] = m[d + 1]
    BY ONLY <1>1, <2>2
  <2> QED
    BY ONLY <1>2, <1>4, <2>2, <2>3
<1>6. /\ txn'.kind = txn.kind /\ txn'.members = m /\ txn'.saved = txn.saved
      /\ txn'.todo = Tail(t) /\ txn'.outcome = [txn.outcome EXCEPT ![h] = outcome]
  BY DEF TxnOK, m, t, h
<1>b. Len(txn'.members) = Len(m) /\ Len(txn'.todo) = Len(t) - 1
  BY ONLY <1>4, <1>6
<1>7. DoneCount' = d + 1
  <2>1. DoneCount' = Len(m) - (Len(t) - 1)
    BY <1>b DEF DoneCount
  <2> QED
    BY <2>1, <1>a, <1>2, <1>4
<1>8. txn'.outcome \in [Jobs -> Outcomes] /\ Len(txn'.todo) <= Len(txn'.members)
  <2> DEFINE f == txn.outcome
  <2>1. txn'.outcome \in [Jobs -> Outcomes]
    <3>1. f \in [Jobs -> Outcomes] /\ txn'.outcome = [f EXCEPT ![h] = outcome]
      BY <1>1, <1>6
    <3> HIDE DEF f
    <3> QED
      BY ONLY <3>1, outcome \in Outcomes
  <2>2. Len(txn'.todo) <= Len(txn'.members)
    BY <1>1, <1>2, <1>4, <1>b
  <2> QED
    BY <2>1, <2>2
<1>9. ASSUME NEW i \in 1..Len(txn'.todo)
      PROVE  txn'.todo[i] = txn'.members[DoneCount' + i]
  <2>1. i \in Nat /\ i \in 1..(Len(t) - 1) /\ i + 1 \in 1..Len(t)
    BY <1>4, <1>6, <1>9
  <2>2. txn'.todo[i] = m[d + (i + 1)]
    <3>1. txn'.todo[i] = t[i + 1]
      BY ONLY <2>1, <1>4, <1>6
    <3>2. t[i + 1] = m[d + (i + 1)]
      BY ONLY <2>1, <1>1
    <3> QED
      BY ONLY <3>1, <3>2
  <2>3. d + (i + 1) = (d + 1) + i
    BY ONLY <1>5, <2>1
  <2> QED
    BY <2>2, <2>3, <1>6, <1>7
<1>10. ASSUME NEW i \in DOMAIN m, i # d + 1
       PROVE  /\ state'[m[i]] = state[m[i]] /\ txn'.outcome[m[i]] = txn.outcome[m[i]]
              /\ m[i] \in Jobs
  <2>1. m[i] # h /\ m[i] \in Jobs
    BY <1>2, <1>5, <1>10
  <2>2. state'[m[i]] = state[m[i]]
    <3>1. state \in [Jobs -> JobState \cup {"absent"}] /\ state' = [state EXCEPT ![h] = next]
      BY DEF CurrentOK, RowsOK, RowTypes, h, t
    <3> QED
      BY ONLY <3>1, <2>1
  <2>3. txn'.outcome[m[i]] = txn.outcome[m[i]]
    BY ONLY <1>1, <1>6, <2>1
  <2> QED
    BY ONLY <2>1, <2>2, <2>3
<1>11. state'[h] = next /\ txn'.outcome[h] = outcome
  <2> QED
    BY <1>1, <1>4, <1>6 DEF CurrentOK, RowsOK, RowTypes, h, t
<1>12. ASSUME NEW i \in DOMAIN m
       PROVE  IF i <= d + 1
              THEN MemberDone(txn.kind, m[i], txn.saved[1][m[i]], state'[m[i]],
                              txn'.outcome[m[i]], owner')
              ELSE state'[m[i]] = txn.saved[1][m[i]]
  <2>1. i \in Nat
    BY <1>2
  <2>2. CASE i <= d
    <3>1. MemberDone(txn.kind, m[i], txn.saved[1][m[i]], state[m[i]],
                     txn.outcome[m[i]], owner)
      BY <2>2, <1>1
    <3>2. i # d + 1 /\ i <= d + 1
      BY <2>1, <2>2, <1>5
    <3>3. owner \in [Keys -> Jobs \cup {NoJob}]
      BY DEF CurrentOK, RowsOK, RowTypes
    <3>4. MemberDone(txn.kind, m[i], txn.saved[1][m[i]], state[m[i]],
                     txn.outcome[m[i]], owner')
      BY <3>1, <3>2, <3>3, <1>10, DoneStaysDone
    <3> QED
      BY <3>2, <3>4, <1>10
  <2>3. CASE i = d + 1
    <3>1. state[h] = txn.saved[1][h]
      BY <2>3, <1>1, <1>5
    <3>2. MemberDone(txn.kind, h, txn.saved[1][h], next, outcome, owner')
      BY <3>1 DEF h, t
    <3> QED
      BY <2>3, <3>2, <1>5, <1>11
  <2>4. CASE i > d + 1
    <3>1. ~(i <= d) /\ ~(i <= d + 1) /\ i # d + 1
      BY <2>1, <2>4, <1>5
    <3> QED
      BY <3>1, <1>1, <1>10
  <2> QED
    BY <2>1, <2>2, <2>3, <2>4, <1>5
<1>13. \A i \in DOMAIN txn'.members :
          IF i <= DoneCount'
          THEN MemberDone(txn'.kind, txn'.members[i], txn'.saved[1][txn'.members[i]],
                          state'[txn'.members[i]], txn'.outcome[txn'.members[i]], owner')
          ELSE state'[txn'.members[i]] = txn'.saved[1][txn'.members[i]]
  <2> QED
    BY <1>6, <1>7, <1>12
<1> QED
  BY <1>1, <1>6, <1>8, <1>9, <1>13, <1>2 DEF Progress

\* a requeue reserves the output of the job and takes no key from another.
LEMMA RequeueReserves ==
    ASSUME CurrentOK, identity \in [Paths -> Keys], NEW j \in Jobs, Exists(j),
           CanReserve(j, request[j].output), ApplyTransition(j, "queued")
    PROVE  /\ state' = [state EXCEPT ![j] = "queued"]
           /\ HoldersStay(owner, owner')
           /\ \E k \in Keys : owner'[k] = j
<1>1. request[j].output \in Paths /\ owner \in [Keys -> Jobs \cup {NoJob}]
  BY DEF CurrentOK, RowsOK, RowTypes, Exists, Request
<1>2. owner' = Reserve(j, request[j].output) /\ state' = [state EXCEPT ![j] = "queued"]
  BY DEF ApplyTransition, IsTerminal, WriteState
<1> QED
  BY <1>1, <1>2, ReserveKeepsHolders

LEMMA CreateMemberProgress ==
    ASSUME IInv, Progress, NEW r \in Request, TxnCreateMember(r)
    PROVE  Progress'
<1> DEFINE j == Head(txn.todo)
<1> DEFINE next == IF txn.kind = "enqueue" THEN "queued" ELSE "planned"
<1>1. /\ CurrentOK /\ TxnOK /\ identity \in [Paths -> Keys]
      /\ txn.kind # "idle" /\ txn.todo # <<>> /\ txn.kind \in CreateKinds
  BY MemberStepKeepsImage DEF IInv, TxnCreateMember
<1>2. j \in Jobs
  BY <1>1, HeadIsJob
<1>3. /\ txn' = [txn EXCEPT !.todo = Tail(txn.todo), !.outcome[j] = "transitioned"]
      /\ state' = [state EXCEPT ![j] = next]
      /\ CanReserve(j, r.output) /\ owner' = Reserve(j, r.output)
  BY DEF TxnCreateMember, InsertJob
<1>4. HoldersStay(owner, owner') /\ \E k \in Keys : owner'[k] = j
  <2>1. r.output \in Paths /\ owner \in [Keys -> Jobs \cup {NoJob}]
    BY <1>1 DEF Request, CurrentOK, RowsOK, RowTypes
  <2> HIDE DEF j
  <2> QED
    BY <1>1, <1>2, <1>3, <2>1, ReserveKeepsHolders
<1>5. MemberDone(txn.kind, j, state[j], next, "transitioned", owner')
  <2> HIDE DEF j
  <2> QED
    BY <1>1, <1>4 DEF MemberDone, CreateKinds, BulkKinds
<1>6. "transitioned" \in Outcomes
  BY DEF Outcomes
<1> HIDE DEF next
<1> QED
  BY <1>1, <1>3, <1>4, <1>5, <1>6, MemberStepKeepsProgress

LEMMA QueueMemberProgress ==
    ASSUME IInv, Progress, TxnQueueMember
    PROVE  Progress'
<1> DEFINE j == Head(txn.todo)
<1>1. /\ CurrentOK /\ TxnOK /\ identity \in [Paths -> Keys]
      /\ txn.kind = "queue" /\ txn.todo # <<>>
  BY DEF IInv, TxnQueueMember
<1>2. j \in Jobs
  BY <1>1, HeadIsJob
<1>3. /\ txn' = [txn EXCEPT !.todo = Tail(txn.todo), !.outcome[j] = "transitioned"]
      /\ Exists(j) /\ CanReserve(j, request[j].output) /\ ApplyTransition(j, "queued")
  BY DEF TxnQueueMember, Exists, CanTransition, LegalMoves
<1>4. /\ state' = [state EXCEPT ![j] = "queued"] /\ HoldersStay(owner, owner')
      /\ \E k \in Keys : owner'[k] = j
  <2> HIDE DEF j
  <2> QED
    BY <1>1, <1>2, <1>3, RequeueReserves
<1>5. MemberDone(txn.kind, j, state[j], "queued", "transitioned", owner')
  <2> HIDE DEF j
  <2> QED
    BY <1>1, <1>4 DEF MemberDone, CreateKinds, BulkKinds
<1>6. "transitioned" \in Outcomes
  BY DEF Outcomes
<1> QED
  BY <1>1, <1>3, <1>4, <1>5, <1>6, MemberStepKeepsProgress

LEMMA BulkMemberProgress ==
    ASSUME IInv, Progress, TxnBulkMember
    PROVE  Progress'
<1> DEFINE j == Head(txn.todo)
<1> DEFINE next == BulkTarget(txn.kind)
<1> DEFINE refused == next = "queued" /\ ~CanReserve(j, request[j].output)
<1> DEFINE record(outcome) ==
        txn' = [txn EXCEPT !.todo = Tail(txn.todo), !.outcome[j] = outcome]
<1>1. /\ CurrentOK /\ TxnOK /\ identity \in [Paths -> Keys]
      /\ txn.kind \in BulkKinds /\ txn.todo # <<>> /\ txn.kind # "idle"
  BY MemberStepKeepsImage DEF IInv, TxnBulkMember
<1>2. /\ j \in Jobs /\ state \in [Jobs -> JobState \cup {"absent"}]
      /\ owner \in [Keys -> Jobs \cup {NoJob}]
  BY <1>1, HeadIsJob DEF CurrentOK, RowsOK, RowTypes
<1>3. \A o \in {"transitioned", "skipped-state", "skipped-output-conflict"} : o \in Outcomes
  BY DEF Outcomes
<1>4. UNCHANGED <<state, owner>> =>
         state' = [state EXCEPT ![j] = state[j]] /\ HoldersStay(owner, owner')
  BY <1>2 DEF HoldersStay
<1>5. CASE /\ ~BulkEligible(txn.kind, state[j])
           /\ record("skipped-state") /\ UNCHANGED <<state, owner>>
  <2>1. MemberDone(txn.kind, j, state[j], state[j], "skipped-state", owner')
    <3> HIDE DEF j
    <3> QED
      BY <1>1, <1>5 DEF MemberDone, CreateKinds, BulkKinds
  <2> QED
    BY <1>1, <1>3, <1>4, <1>5, <2>1, MemberStepKeepsProgress
<1>6. CASE /\ BulkEligible(txn.kind, state[j]) /\ refused
           /\ record("skipped-output-conflict") /\ UNCHANGED <<state, owner>>
  <2>1. txn.kind # "cancel" /\ ~CanReserve(j, request[j].output)
    BY <1>6 DEF BulkTarget
  <2>2. Exists(j)
    BY <1>6, BulkMovesAreLegal DEF Exists
  <2>3. KeyOf(request[j].output) \in Keys
    BY <1>1, <1>2, <2>2 DEF CurrentOK, RowsOK, RowTypes, Exists, Request, KeyOf
  <2>4. \E k \in Keys : owner'[k] \notin {NoJob, j}
    BY <1>6, <2>1, <2>3 DEF CanReserve
  <2>5. MemberDone(txn.kind, j, state[j], state[j], "skipped-output-conflict", owner')
    <3> HIDE DEF j
    <3> QED
      BY <1>1, <1>6, <2>1, <2>4 DEF MemberDone, CreateKinds, BulkKinds
  <2> QED
    BY <1>1, <1>3, <1>4, <1>6, <2>5, MemberStepKeepsProgress
<1>7. CASE /\ BulkEligible(txn.kind, state[j]) /\ ~refused
           /\ record("transitioned") /\ ApplyTransition(j, next)
  <2>1. state' = [state EXCEPT ![j] = next]
    BY <1>7 DEF ApplyTransition, WriteState
  <2>2. ASSUME txn.kind # "cancel"
        PROVE  HoldersStay(owner, owner')
    <3>1. next = "queued" /\ CanReserve(j, request[j].output) /\ Exists(j)
      BY <2>2, <1>7, BulkMovesAreLegal DEF BulkTarget, Exists
    <3> HIDE DEF j, next
    <3> QED
      BY <1>1, <1>2, <1>7, <3>1, RequeueReserves
  <2>3. MemberDone(txn.kind, j, state[j], next, "transitioned", owner')
    <3> HIDE DEF j
    <3> QED
      BY <1>1, <1>7 DEF MemberDone, CreateKinds, BulkKinds
  <2> HIDE DEF next
  <2> QED
    BY <1>1, <1>3, <1>7, <2>1, <2>2, <2>3, MemberStepKeepsProgress
<1> QED
  BY <1>5, <1>6, <1>7 DEF TxnBulkMember

LEMMA NextKeepsProgress == IInv /\ Progress /\ [Next]_vars => Progress'
<1> SUFFICES ASSUME IInv, Progress, [Next]_vars PROVE Progress'
  OBVIOUS
<1>1. ASSUME NEW kind \in TxnKinds, NEW m \in MemberLists, TxnBegin(kind, m)
      PROVE  Progress'
  <2>1. /\ txn'.members = m /\ txn'.todo = m
        /\ txn'.saved = <<state, request, sequence, events, owner, bound, evidence>>
        /\ txn'.outcome = [j \in Jobs |-> "pending"]
        /\ UNCHANGED state
    BY <1>1 DEF TxnBegin, store
  <2>2. m \in Seq(Jobs) /\ DOMAIN m = 1..Len(m) /\ Len(m) \in Nat
    BY MembersDistinct
  <2>3. DoneCount' = 0
    BY <2>1, <2>2 DEF DoneCount
  <2>4. txn'.outcome \in [Jobs -> Outcomes]
    BY <2>1 DEF Outcomes
  <2>5. \A i \in DOMAIN m : i \in Nat /\ ~(i <= 0) /\ 0 + i = i
    BY <2>2
  <2> QED
    BY <2>1, <2>2, <2>3, <2>4, <2>5 DEF Progress
<1>2. ASSUME NEW r \in Request, TxnCreateMember(r)
      PROVE  Progress'
  BY <1>2, CreateMemberProgress
<1>3. CASE TxnQueueMember
  BY <1>3, QueueMemberProgress
<1>4. CASE TxnBulkMember
  BY <1>4, BulkMemberProgress
<1>5. CASE TxnCommit \/ TxnRollback
  BY <1>5 DEF TxnCommit, TxnRollback, Idle, Progress
<1>6. ASSUME \/ \E j \in Jobs, next \in JobState : Transition(j, next)
             \/ \E j \in Jobs : ClaimQueuedJob(j) \/ CleanupStaging(j) \/ RecordRevalidation(j)
             \/ \E k \in IdemKeys, j \in Jobs, r \in Request, q \in BOOLEAN :
                    CreateIdempotent(k, j, r, q)
             \/ OpenDatabase
      PROVE  Progress'
  <2>1. NoWriter /\ UNCHANGED txn
    BY ONLY <1>6 DEF Transition, ClaimQueuedJob, CleanupStaging, RecordRevalidation,
       CreateIdempotent, OpenDatabase
  <2> QED
    BY <2>1 DEF Progress, NoWriter
<1>7. ASSUME (\E p \in Paths, k \in Keys : RetargetPath(p, k)) \/ UNCHANGED vars
      PROVE  Progress'
  <2>1. UNCHANGED <<state, owner, txn>>
    BY <1>7 DEF RetargetPath, store, vars
  <2> QED
    BY <2>1 DEF Progress, DoneCount
<1> QED
  BY <1>1, <1>2, <1>3, <1>4, <1>5, <1>6, <1>7 DEF Next

\* An open transaction works through its members in order; those it has
\* processed are as it recorded them and the others as they were.
THEOREM ProgressIsKept == Spec => []Progress
<1>1. Init => Progress
  BY DEF Init, Idle, Progress
<1>2. IInv /\ Progress /\ [Next]_vars => Progress'
  BY NextKeepsProgress
<1> QED
  BY <1>1, <1>2, InductiveInvariant, PTL DEF Spec

\* with nothing left to do every member is done.
LEMMA AllMembersDone ==
    ASSUME IInv, Progress, txn.kind # "idle", txn.todo = <<>>, NEW i \in DOMAIN txn.members
    PROVE  MemberDone(txn.kind, txn.members[i], txn.saved[1][txn.members[i]],
                      state[txn.members[i]], txn.outcome[txn.members[i]], owner)
<1>1. txn.members \in MemberLists
  BY DEF Progress
<1>2. i \in 1..Len(txn.members) /\ Len(txn.members) \in Nat
  BY <1>1, MembersDistinct
<1>3. i <= DoneCount
  BY <1>2 DEF DoneCount
<1> QED
  BY <1>3 DEF Progress

\* A creating or queueing call ends with every member moved and reserved, or
\* with the tables it began with: half a batch is never left behind.
THEOREM BatchIsAllOrNothing == Spec => AllOrNothing
<1> DEFINE Kept == (txn.kind \in CreateKinds \cup {"queue"} /\ txn'.kind = "idle") =>
        \/ \A i \in DOMAIN txn.members :
                /\ state'[txn.members[i]] =
                        IF txn.kind = "create" THEN "planned" ELSE "queued"
                /\ \E k \in Keys : owner'[k] = txn.members[i]
        \/ store' = txn.saved
<1>1. ASSUME IInv, Progress, [Next]_vars PROVE Kept
  <2> SUFFICES ASSUME txn.kind \in CreateKinds \cup {"queue"}, txn'.kind = "idle"
               PROVE  Kept
    OBVIOUS
  <2>1. txn.kind # "idle" /\ ~NoWriter /\ TxnOK
    BY <1>1 DEF CreateKinds, NoWriter, IInv
  <2>2. CASE TxnCommit
    <3>1. txn.todo = <<>> /\ UNCHANGED <<state, owner>>
      BY <2>2 DEF TxnCommit, store
    <3>2. ASSUME NEW i \in DOMAIN txn.members
          PROVE  /\ state[txn.members[i]] = IF txn.kind = "create" THEN "planned" ELSE "queued"
                 /\ \E k \in Keys : owner[k] = txn.members[i]
      <4>1. MemberDone(txn.kind, txn.members[i], txn.saved[1][txn.members[i]],
                       state[txn.members[i]], txn.outcome[txn.members[i]], owner)
        BY <1>1, <2>1, <3>1, AllMembersDone
      <4> QED
        BY <4>1 DEF MemberDone, CreateKinds, BulkKinds
    <3> QED
      BY <3>1, <3>2
  <2>3. CASE TxnRollback
    <3>1. txn.saved = <<txn.saved[1], txn.saved[2], txn.saved[3], txn.saved[4],
                        txn.saved[5], txn.saved[6], txn.saved[7]>>
      BY <1>1, <2>1 DEF Progress
    <3> QED
      BY <2>3, <3>1 DEF TxnRollback, store
  <2>4. ASSUME \/ (\E r \in Request : TxnCreateMember(r)) \/ TxnQueueMember \/ TxnBulkMember
        PROVE  FALSE
    BY <2>1, <2>4, MemberStepKeepsImage
  <2>5. ASSUME \/ (\E p \in Paths, k \in Keys : RetargetPath(p, k)) \/ UNCHANGED vars
        PROVE  FALSE
    BY <2>1, <2>5 DEF RetargetPath, vars
  <2> QED
    BY <1>1, <2>1, <2>2, <2>3, <2>4, <2>5
       DEF Next, Transition, ClaimQueuedJob, CleanupStaging, RecordRevalidation,
           CreateIdempotent, OpenDatabase, TxnBegin
<1>2. IInv /\ Progress /\ [Next]_vars => [Kept]_vars
  BY <1>1
<1>3. Spec => [][Kept]_vars
  BY <1>2, InductiveInvariant, ProgressIsKept, PTL DEF Spec
<1> QED
  BY <1>3 DEF AllOrNothing

\* the destination of a member that is skipped for it belongs to another unfinished job.
LEMMA SkippedForAnother ==
    ASSUME IInv, Progress, [Next]_vars, txn.kind \in BulkKinds, txn'.kind = txn.kind,
           NEW i \in Jobs, txn.outcome[i] = "pending",
           txn'.outcome[i] = "skipped-output-conflict"
    PROVE  HeldByAnother(i)
<1> DEFINE j == Head(txn.todo)
<1> DEFINE refused == BulkTarget(txn.kind) = "queued" /\ ~CanReserve(j, request[j].output)
<1> DEFINE record(outcome) ==
        txn' = [txn EXCEPT !.todo = Tail(txn.todo), !.outcome[j] = outcome]
<1> DEFINE key == KeyOf(request[i].output)
<1>1. CurrentOK /\ TxnOK /\ identity \in [Paths -> Keys] /\ txn.kind # "idle" /\ ~NoWriter
  BY DEF IInv, BulkKinds, NoWriter
<1>2. ASSUME ~TxnBulkMember PROVE FALSE
  <2>1. UNCHANGED txn \/ TxnCommit \/ TxnRollback
    BY <1>1, <1>2 DEF Next, Transition, ClaimQueuedJob, CleanupStaging, RecordRevalidation,
       CreateIdempotent, OpenDatabase, TxnBegin, TxnCreateMember, TxnQueueMember,
       RetargetPath, BulkKinds, CreateKinds, vars
  <2>2. TxnCommit \/ TxnRollback => txn'.kind = "idle"
    BY DEF TxnCommit, TxnRollback, Idle
  <2> QED
    BY <1>1, <2>1, <2>2
<1>3. txn.outcome \in [Jobs -> Outcomes] /\ j \in Jobs
  BY <1>1, <1>2, HeadIsJob DEF Progress, TxnBulkMember
<1>4. /\ i = j /\ BulkEligible(txn.kind, state[j])
      /\ BulkTarget(txn.kind) = "queued" /\ ~CanReserve(j, request[j].output)
  <2>1. ASSUME NEW o, record(o)
        PROVE  i = j /\ o = "skipped-output-conflict"
    <3> HIDE DEF j
    <3> QED
      BY <1>1, <1>3, <2>1 DEF TxnOK
  <2>2. CASE BulkEligible(txn.kind, state[j]) /\ refused /\ record("skipped-output-conflict")
    BY <2>1, <2>2
  <2>3. CASE record("skipped-state")
    <3>1. "skipped-state" = "skipped-output-conflict"
      BY <2>1, <2>3
    <3> QED
      BY <3>1
  <2>4. CASE record("transitioned")
    <3>1. "transitioned" = "skipped-output-conflict"
      BY <2>1, <2>4
    <3> QED
      BY <3>1
  <2> QED
    BY <1>2, <2>2, <2>3, <2>4 DEF TxnBulkMember
<1>5. request[i] \in Request /\ key \in Keys
  BY <1>1, <1>3, <1>4, BulkMovesAreLegal DEF CurrentOK, RowsOK, RowTypes, Exists, Request, KeyOf
<1>6. owner[key] \in Jobs \ {i}
  BY <1>1, <1>4, <1>5 DEF CanReserve, CurrentOK, RowsOK, RowTypes
<1>7. Live(owner[key])
  <2>1. key \in OwnedIn(owner, owner[key])
    BY <1>5 DEF OwnedIn
  <2>2. ReservedRow(state, owner, owner[key])
    BY <1>1, <1>6 DEF CurrentOK, RowsOK
  <2> HIDE DEF key
  <2> QED
    BY <2>1, <2>2 DEF ReservedRow, Live, Exists
<1> QED
  BY <1>6, <1>7 DEF HeldByAnother

\* The outcome a bulk action records for each job of its selection is what
\* happened to that job, however stale the selection was; and a member skipped for its
\* output asked for a destination that another unfinished job held at its turn.
THEOREM BulkOutcomesAreTruthful == Spec => BulkOutcomesTruthful
<1> DEFINE Told(i) ==
        LET j == txn.members[i]
            before == txn.saved[1][j]
        IN  CASE txn.outcome[j] = "transitioned" ->
                    /\ BulkEligible(txn.kind, before)
                    /\ state[j] = BulkTarget(txn.kind)
              [] txn.outcome[j] = "skipped-state" ->
                    state[j] = before /\ ~BulkEligible(txn.kind, before)
              [] txn.outcome[j] = "skipped-output-conflict" ->
                    state[j] = before /\ BulkEligible(txn.kind, before)
              [] OTHER -> FALSE
<1> DEFINE Kept ==
        /\ (txn.kind \in BulkKinds /\ txn.todo = <<>> /\ txn'.kind = "idle"
                                   /\ store' = store) => \A i \in DOMAIN txn.members : Told(i)
        /\ (txn.kind \in BulkKinds /\ txn'.kind = txn.kind) =>
              \A j \in Jobs :
                txn.outcome[j] = "pending" /\ txn'.outcome[j] = "skipped-output-conflict"
                    => HeldByAnother(j)
<1>1. ASSUME IInv, Progress, txn.kind \in BulkKinds, txn.todo = <<>>,
             NEW i \in DOMAIN txn.members
      PROVE  Told(i)
  <2> DEFINE j == txn.members[i]
  <2>1. txn.kind # "idle"
    BY <1>1 DEF BulkKinds
  <2>2. MemberDone(txn.kind, j, txn.saved[1][j], state[j], txn.outcome[j], owner)
    BY <1>1, <2>1, AllMembersDone
  <2>3. j \in Jobs /\ txn.outcome[j] \in Outcomes
    BY <1>1, <2>1, MembersDistinct DEF Progress
  <2> HIDE DEF j
  <2>4. CASE txn.outcome[j] = "transitioned"
    BY <1>1, <2>2, <2>4 DEF MemberDone, CreateKinds, BulkKinds, j
  <2>5. CASE txn.outcome[j] = "skipped-state"
    BY <1>1, <2>2, <2>5 DEF MemberDone, CreateKinds, BulkKinds, j
  <2>6. CASE txn.outcome[j] = "skipped-output-conflict"
    BY <1>1, <2>2, <2>6 DEF MemberDone, CreateKinds, BulkKinds, j
  <2>7. CASE txn.outcome[j] = "pending"
    BY <1>1, <2>2, <2>7 DEF MemberDone, CreateKinds, BulkKinds
  <2> QED
    BY <2>3, <2>4, <2>5, <2>6, <2>7 DEF Outcomes
<1>2. IInv /\ Progress /\ [Next]_vars => [Kept]_vars
  BY <1>1, SkippedForAnother
<1>3. Spec => [][Kept]_vars
  BY <1>2, InductiveInvariant, ProgressIsKept, PTL DEF Spec
<1> QED
  BY <1>3 DEF BulkOutcomesTruthful
=============================================================================
