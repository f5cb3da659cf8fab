---------------------------- MODULE StateRestore ----------------------------
(***************************************************************************)
(* Restoring an application-state bundle (ApplicationStateService::restore)*)
(* and recovering a restore that a crash cut short.                        *)
(*                                                                         *)
(* The application state is the jobs database and, beside it, the parts a  *)
(* restore swaps by renaming: presets, settings, the engine registry and   *)
(* the reports.  A restore records in a journal file what it is about to   *)
(* do, swaps the parts one by one, switches the database and commits; every*)
(* program that opens the state first completes or undoes what the journal *)
(* says.  One action is one file operation: the process may die between    *)
(* any two, and each may fail.  A write or a removal of one file or tree is*)
(* one step, and so is the switch of the database, an SQLite transaction.  *)
(* The bundle has been validated as a whole before the first step here.    *)
(***************************************************************************)
EXTENDS Naturals, Sequences, SequencesExt

CONSTANTS
    SwapOrder,      \* the parts in the order a restore swaps them
    Versions,       \* what a user can have put into a part or the database
    Retention       \* how many automatic snapshots are kept (5 in the code)

Absent == "absent"
Bundled == "bundled"

\* every part is swapped once; the database is not one of them
ASSUME SwapOrderAssumption ==
    /\ SwapOrder \in Seq(ToSet(SwapOrder)) /\ SwapOrder # <<>>
    /\ IsInjective(SwapOrder)
    /\ "database" \notin ToSet(SwapOrder)
ASSUME VersionsAssumption == {Absent, Bundled} \cap Versions = {}
ASSUME RetentionAssumption == Retention \in Nat \ {0, 1}

Parts == ToSet(SwapOrder)
Contents == Versions \cup {Absent, Bundled}
Database == "database"
States == [Parts \cup {Database} -> Contents]

\* the journal of a restore (RestoreJournal): the first swaps parts have been
\* recorded, and had are those of them that existed
Journals == [swaps : 0..Len(SwapOrder), had : SUBSET Parts,
             hadDatabase : BOOLEAN, switched : BOOLEAN, committed : BOOLEAN]
\* no such file; a journal is never committed before the last swap
NoJournal == [swaps |-> 0, had |-> {}, hadDatabase |-> FALSE,
              switched |-> FALSE, committed |-> TRUE]

VARIABLES
    live,       \* the application state
    old,        \* the parts renamed away (.state-restore-<id>-<part>.old)
    safety,     \* the safety copy of the database
    safetyBundle, \* the pre-restore bundle an operator can go back to
    snapshots,  \* automatic snapshots of the database that are younger than the
                \* safety copy (counted up to Retention)
    journal,    \* the journal file
    backup,     \* .<journal>.backup, while the journal is being replaced
    pc,         \* the next file operation of the process; "down": none runs
    phase,      \* "recover": what the journal says; "install": a restore
    goal,       \* what follows the recovery: "run" or "restore"
    mem,        \* the process's copy of the journal
    k,          \* the swap a rollback or a cleanup looks at
    bundle,     \* the parts in the bundle to restore
    staged,     \* what a rollback has read from the safety copy
    result,     \* how the last restore ended: "ok", "error"; "none": it did not begin
    before,     \* history: the state the last restore or use started from
    target,     \* history: the state the last restore is to lead to
    refused     \* history: a recovery failed with no file operation failing

disk == <<live, old, safety, safetyBundle, snapshots, journal, backup>>
process == <<pc, phase, goal, mem, k, bundle, staged, result>>
history == <<before, target, refused>>
vars == <<disk, process, history>>

Steps == {"look", "begin", "save", "replace", "settle", "record", "moveOut",
          "moveIn", "switch", "prune", "copy", "undoDatabase", "undoPrune", "undoCopy", "undo",
          "undoNew", "clean", "cleanSafety", "forget"}

TypeOK ==
    /\ live \in States
    /\ old \in [Parts -> Contents]
    /\ safety \in Contents
    /\ safetyBundle \in States
    /\ snapshots \in 0..Retention
    /\ journal \in Journals
    /\ backup \in Journals
    /\ pc \in {"down", "up"} \cup Steps
    /\ phase \in {"recover", "install"}
    /\ goal \in {"run", "restore"}
    /\ mem \in Journals
    /\ k \in 0..Len(SwapOrder)
    /\ bundle \subseteq Parts
    /\ staged \in Contents
    /\ result \in {"none", "ok", "error"}
    /\ before \in States /\ target \in States
    /\ refused \in BOOLEAN

NothingOld == [p \in Parts |-> Absent]
NoState == [p \in Parts \cup {Database} |-> Absent]

Init ==
    /\ live \in [Parts \cup {Database} -> {Absent} \cup Versions]
    /\ old = NothingOld /\ safety = Absent /\ safetyBundle = NoState /\ snapshots = 0
    /\ journal = NoJournal /\ backup = NoJournal
    /\ pc = "down" /\ phase = "recover" /\ goal = "run" /\ mem = NoJournal
    /\ k = 0 /\ bundle = {} /\ staged = Absent /\ result = "none"
    /\ before = live /\ target = live /\ refused = FALSE

At(s) == pc = s
Go(s) == pc' = s

-----------------------------------------------------------------------------
(* Starting a program, using the state, and stopping.                      *)

\* desktop, CLI or server opens the state: recovery comes first
Start ==
    /\ At("down")
    /\ phase' = "recover" /\ goal' = "run" /\ result' = "none"
    /\ Go("look")
    /\ UNCHANGED <<disk, mem, k, bundle, staged, history>>

\* the CLI's restore command, or a desktop start with a scheduled restore
StartRestore(parts) ==
    /\ At("down")
    /\ phase' = "recover" /\ goal' = "restore" /\ bundle' = parts
    /\ result' = "none"
    /\ Go("look")
    /\ UNCHANGED <<disk, mem, k, staged, history>>

\* a program in normal operation changes a part or the database
Use(p, v) ==
    /\ At("up")
    /\ live' = [live EXCEPT ![p] = v]
    /\ before' = live' /\ target' = live'
    /\ UNCHANGED <<old, safety, safetyBundle, snapshots, journal, backup,
                   process, refused>>

\* the program ends, or is killed between two operations, or the power fails
Stop ==
    /\ ~At("down")
    /\ Go("down")
    /\ phase' = "recover" /\ goal' = "run" /\ mem' = NoJournal
    /\ k' = 0 /\ bundle' = {} /\ staged' = Absent
    /\ UNCHANGED <<disk, result, history>>

\* the command ends with a result
End(r) ==
    /\ Go("down") /\ result' = r
    /\ phase' = "recover" /\ goal' = "run" /\ mem' = NoJournal
    /\ k' = 0 /\ bundle' = {} /\ staged' = Absent

-----------------------------------------------------------------------------
(* What the journal says: recover_interrupted_restore, rollback_from_journal *)
(* and cleanup_committed_restore.                                           *)

Part == SwapOrder[k]    \* the part of the k-th swap

\* the journal that the next program will find
Found == IF journal = NoJournal THEN backup ELSE journal

\* mutant: the commit in the journal is not looked at
LookIgnoresCommit ==
    LET next  == IF Found = NoJournal
                 THEN IF goal = "run" THEN "up" ELSE "begin"
                 ELSE "undoDatabase"
    IN  /\ At("look")
        /\ journal' = Found /\ backup' = NoJournal
        /\ mem' = Found /\ k' = 0
        /\ Go(next)
        /\ UNCHANGED <<live, old, safety, safetyBundle, snapshots, phase, goal,
                       bundle, staged, result, history>>

\* recover_file_backup on the journal, and what there is to recover
LookAtJournal ==
    LET next  == IF Found = NoJournal
                 THEN IF goal = "run" THEN "up" ELSE "begin"
                 ELSE IF Found.committed THEN "clean" ELSE "undoDatabase"
    IN  /\ At("look")
        /\ journal' = Found /\ backup' = NoJournal
        /\ mem' = Found
        /\ k' = IF next = "clean" THEN 1 ELSE 0
        /\ Go(next)
        /\ UNCHANGED <<live, old, safety, safetyBundle, snapshots, phase, goal,
                       bundle, staged, result, history>>

\* MaintenanceService::restore takes a snapshot of a database that is there ...
SnapshotTaken ==
    snapshots' = IF live[Database] = Absent \/ snapshots = Retention THEN snapshots
                 ELSE snapshots + 1

\* mutant: the newest snapshot is kept beside one too few of the others
PrunesOneMore ==
    /\ \/ At("prune") /\ Go("copy")
       \/ At("undoPrune") /\ Go("undoCopy")
    /\ safety' = IF snapshots >= Retention - 1 THEN Absent ELSE safety
    /\ UNCHANGED <<live, old, safetyBundle, snapshots, journal, backup, phase,
                   goal, mem, k, bundle, staged, result, history>>

\* ... and removes all but the youngest Retention of the files that are named like
\* one; the safety copy is (prune_automatic_snapshots).
PruneSnapshots ==
    /\ \/ At("prune") /\ Go("copy")
       \/ At("undoPrune") /\ Go("undoCopy")
    /\ safety' = IF snapshots = Retention THEN Absent ELSE safety
    /\ UNCHANGED <<live, old, safetyBundle, snapshots, journal, backup, phase,
                   goal, mem, k, bundle, staged, result, history>>

\* mutant: the database is left as the restore made it
UndoKeepsDatabase ==
    /\ At("undoDatabase")
    /\ ~(mem.switched /\ mem.hadDatabase /\ safety = Absent)
    /\ k' = mem.swaps
    /\ Go("undo")
    /\ UNCHANGED <<live, old, safety, safetyBundle, snapshots, journal, backup,
                   phase, goal, mem, bundle, staged, result, history>>

\* the database goes back first: the safety copy is read, the database that is
\* there goes into one more snapshot
UndoDatabase ==
    /\ At("undoDatabase")
    /\ \/ /\ mem.switched /\ mem.hadDatabase /\ safety # Absent
          /\ staged' = safety /\ SnapshotTaken
          /\ Go("undoPrune")
          /\ UNCHANGED k
       \/ /\ ~(mem.switched /\ mem.hadDatabase)
          /\ k' = mem.swaps
          /\ Go("undo")
          /\ UNCHANGED <<staged, snapshots>>
    /\ UNCHANGED <<live, old, safety, safetyBundle, journal, backup, phase, goal,
                   mem, bundle, result, history>>

\* and what was read is copied over it
CopyBack ==
    /\ At("undoCopy")
    /\ live' = [live EXCEPT ![Database] = staged]
    /\ k' = mem.swaps /\ staged' = Absent
    /\ Go("undo")
    /\ UNCHANGED <<old, safety, safetyBundle, snapshots, journal, backup, phase,
                   goal, mem, bundle, result, history>>

\* A safety copy that is gone cannot be read: the rollback fails and the journal
\* stays.
RollbackRefused ==
    /\ At("undoDatabase")
    /\ mem.switched /\ mem.hadDatabase /\ safety = Absent
    /\ End(IF phase = "install" THEN "error" ELSE "none")
    /\ refused' = TRUE
    /\ UNCHANGED <<disk, before, target>>

\* one swap undone, the last one first; removing what is live and renaming the
\* old part back are two operations
UndoSwap ==
    /\ At("undo") /\ k > 0
    /\ \/ /\ old[Part] # Absent /\ live[Part] # Absent
          /\ live' = [live EXCEPT ![Part] = Absent]
          /\ UNCHANGED <<old, k>>
       \/ /\ old[Part] # Absent /\ live[Part] = Absent
          /\ live' = [live EXCEPT ![Part] = old[Part]]
          /\ old' = [old EXCEPT ![Part] = Absent]
          /\ k' = k - 1
       \/ /\ old[Part] = Absent
          /\ live' = IF Part \in mem.had THEN live
                     ELSE [live EXCEPT ![Part] = Absent]
          /\ k' = k - 1
          /\ UNCHANGED old
    /\ UNCHANGED <<safety, safetyBundle, snapshots, journal, backup, pc, phase,
                   goal, mem, bundle, staged, result, history>>

UndoSafety ==
    /\ At("undo") /\ k = 0
    /\ safety' = Absent
    /\ Go("undoNew")
    /\ UNCHANGED <<live, old, safetyBundle, snapshots, journal, backup, phase,
                   goal, mem, k, bundle, staged, result, history>>

\* a database that the restore made goes away again
UndoNew ==
    /\ At("undoNew")
    /\ live' = IF mem.hadDatabase THEN live ELSE [live EXCEPT ![Database] = Absent]
    /\ Go("forget")
    /\ UNCHANGED <<old, safety, safetyBundle, snapshots, journal, backup, phase,
                   goal, mem, k, bundle, staged, result, history>>

\* after the commit: what was swapped away is removed
CleanOld ==
    /\ At("clean")
    /\ old' = [old EXCEPT ![Part] = Absent]
    /\ IF k < mem.swaps THEN k' = k + 1 /\ Go("clean")
                        ELSE k' = 0 /\ Go("cleanSafety")
    /\ UNCHANGED <<live, safety, safetyBundle, snapshots, journal, backup,
                   phase, goal, mem, bundle, staged, result, history>>

CleanSafety ==
    /\ At("cleanSafety")
    /\ safety' = Absent
    /\ Go("forget")
    /\ UNCHANGED <<live, old, safetyBundle, snapshots, journal, backup, phase,
                   goal, mem, k, bundle, staged, result, history>>

\* the journal is removed: the recovery is over, or the restore is
ForgetJournal ==
    /\ At("forget")
    /\ journal' = NoJournal
    /\ IF phase = "recover"
       THEN /\ Go(IF goal = "run" THEN "up" ELSE "begin")
            /\ mem' = NoJournal
            /\ UNCHANGED <<phase, goal, k, bundle, staged, result>>
       ELSE End(IF mem.committed THEN "ok" ELSE "error")
    /\ UNCHANGED <<live, old, safety, safetyBundle, snapshots, backup, history>>

-----------------------------------------------------------------------------
(* A restore: install_prepared_bundle, swap_component and save_journal.    *)

\* the safety bundle and the safety copy of the database, when there is one
TakeSafety ==
    LET hadDatabase == live[Database] # Absent IN
    /\ At("begin")
    /\ safety' = live[Database] /\ snapshots' = 0
    /\ safetyBundle' = IF hadDatabase THEN live ELSE NoState
    /\ mem' = [swaps |-> 0, had |-> {}, hadDatabase |-> hadDatabase,
               switched |-> FALSE, committed |-> FALSE]
    /\ before' = live
    /\ target' = [p \in DOMAIN live |->
                    IF p \in bundle \cup {Database} THEN Bundled ELSE Absent]
    /\ phase' = "install"
    /\ Go("save")
    /\ UNCHANGED <<live, old, journal, backup, goal, k, bundle, staged, result,
                   refused>>

\* atomic_replace_file: the journal is renamed to its backup, the new one is
\* put in its place and the backup is removed
SaveJournal ==
    /\ At("save")
    /\ backup' = IF journal = NoJournal THEN backup ELSE journal
    /\ journal' = NoJournal
    /\ Go("replace")
    /\ UNCHANGED <<live, old, safety, safetyBundle, snapshots, phase, goal, mem,
                   k, bundle, staged, result, history>>

ReplaceJournal ==
    /\ At("replace")
    /\ journal' = mem
    /\ Go("settle")
    /\ UNCHANGED <<live, old, safety, safetyBundle, snapshots, backup, phase,
                   goal, mem, k, bundle, staged, result, history>>

SettleJournal ==
    /\ At("settle")
    /\ backup' = NoJournal
    /\ k' = IF mem.committed THEN 1 ELSE k
    /\ Go(IF mem.committed THEN "clean"
          ELSE IF mem.switched THEN "switch"
          ELSE IF mem.swaps = 0 THEN "record" ELSE "moveOut")
    /\ UNCHANGED <<live, old, safety, safetyBundle, snapshots, journal, phase,
                   goal, mem, bundle, staged, result, history>>

\* the next swap goes into the journal, or that the database comes next
RecordNext ==
    LET next == SwapOrder[mem.swaps + 1] IN
    /\ At("record")
    /\ mem' = IF mem.swaps = Len(SwapOrder)
              THEN [mem EXCEPT !.switched = TRUE]
              ELSE [mem EXCEPT !.swaps = @ + 1,
                               !.had = IF live[next] = Absent THEN @
                                       ELSE @ \cup {next}]
    /\ Go("save")
    /\ UNCHANGED <<disk, phase, goal, k, bundle, staged, result, history>>

Swapped == SwapOrder[mem.swaps]     \* the part that is being swapped

MoveOut ==
    /\ At("moveOut")
    /\ IF Swapped \in mem.had
       THEN /\ old' = [old EXCEPT ![Swapped] = live[Swapped]]
            /\ live' = [live EXCEPT ![Swapped] = Absent]
       ELSE UNCHANGED <<old, live>>
    /\ Go("moveIn")
    /\ UNCHANGED <<safety, safetyBundle, snapshots, journal, backup, phase,
                   goal, mem, k, bundle, staged, result, history>>

MoveIn ==
    /\ At("moveIn")
    /\ live' = IF Swapped \in bundle THEN [live EXCEPT ![Swapped] = Bundled]
               ELSE live
    /\ Go("record")
    /\ UNCHANGED <<old, safety, safetyBundle, snapshots, journal, backup, phase,
                   goal, mem, k, bundle, staged, result, history>>

\* The bundle's database is staged; the one that is there goes into a snapshot.
SwitchDatabase ==
    /\ At("switch")
    /\ SnapshotTaken
    /\ Go("prune")
    /\ UNCHANGED <<live, old, safety, safetyBundle, journal, backup, phase, goal,
                   mem, k, bundle, staged, result, history>>

\* the database is replaced, and the commit is what is saved next
CopyDatabase ==
    /\ At("copy")
    /\ live' = [live EXCEPT ![Database] = Bundled]
    /\ mem' = [mem EXCEPT !.committed = TRUE]
    /\ Go("save")
    /\ UNCHANGED <<old, safety, safetyBundle, snapshots, journal, backup, phase,
                   goal, k, bundle, staged, result, history>>

-----------------------------------------------------------------------------
(* A file operation fails.                                                 *)

\* what a failed operation may have done before it failed
FailedEffect ==
    \/ UNCHANGED disk
    \* persist_noclobber failed and the backup was renamed back
    \/ /\ At("replace") /\ backup # NoJournal
       /\ journal' = backup /\ backup' = NoJournal
       /\ UNCHANGED <<live, old, safety, safetyBundle, snapshots>>
    \* the database was copied, and something after that failed
    \/ /\ pc \in {"copy", "undoCopy"}
       /\ live' = [live EXCEPT ![Database] = IF At("copy") THEN Bundled ELSE staged]
       /\ UNCHANGED <<old, safety, safetyBundle, snapshots, journal, backup>>

\* between the first recorded swap and the commit the restore rolls itself back
InstallFails ==
    /\ pc \in {"save", "replace", "settle", "moveOut", "moveIn", "switch", "prune",
               "copy"}
    /\ mem.swaps > 0 /\ ~mem.committed
    /\ FailedEffect
    /\ Go("undoDatabase")
    /\ UNCHANGED <<phase, goal, mem, k, bundle, staged, result, history>>

\* elsewhere the program gives up with the error
GivesUp ==
    /\ \/ pc \in {"look", "begin", "undoDatabase", "undoPrune", "undoCopy", "undo",
                  "undoNew", "clean", "cleanSafety", "forget"}
       \/ /\ pc \in {"save", "replace", "settle"}
          /\ mem.swaps = 0 \/ mem.committed
    /\ FailedEffect
    /\ End(IF phase = "install" THEN "error" ELSE "none")
    /\ UNCHANGED history

Next ==
    \/ Start
    \/ \E parts \in SUBSET Parts : StartRestore(parts)
    \/ \E p \in Parts \cup {Database}, v \in Versions \cup {Absent} :
            (p # Database \/ v # Absent) /\ Use(p, v)
    \/ Stop
    \/ LookAtJournal \/ UndoDatabase \/ PruneSnapshots \/ CopyBack
    \/ RollbackRefused \/ UndoSwap
    \/ UndoSafety \/ UndoNew \/ CleanOld \/ CleanSafety \/ ForgetJournal
    \/ TakeSafety \/ SaveJournal \/ ReplaceJournal \/ SettleJournal
    \/ RecordNext \/ MoveOut \/ MoveIn \/ SwitchDatabase \/ CopyDatabase
    \/ InstallFails \/ GivesUp

Spec == Init /\ [][Next]_vars

-----------------------------------------------------------------------------
(* Properties.                                                             *)

NoRestore == journal = NoJournal /\ backup = NoJournal

\* A program that runs, and a directory that nobody has a journal for, shows the
\* state as it was before the restore or as the bundle has it, database and all
\* parts alike, wherever a restore or an earlier recovery of it was cut short
\* (install_prepared_bundle, recover_interrupted_restore).
AllOrNothing ==
    pc = "up" \/ (pc = "down" /\ NoRestore) => live \in {before, target}

\* Until the bundle's state is complete and committed, everything the user had is
\* still there: each part in its place or renamed away, the database in its place or
\* in its safety copy.  Only when a restore and the rollbacks after it have taken as
\* many snapshots as are retained may the safety copy be gone; the database is then
\* in the safety bundle, which nothing removes (swap_component,
\* rollback_from_journal, prune_automatic_snapshots).
NothingLost ==
    live # target \/ (Found # NoJournal /\ ~Found.committed) =>
        /\ \A p \in Parts : before[p] \in {Absent, live[p], old[p]}
        /\ \/ before[Database] \in {Absent, live[Database], safety}
           \/ snapshots = Retention /\ safetyBundle[Database] = before[Database]

\* A restore that reports success has installed the bundle, left nothing aside
\* and kept a safety bundle of the state it replaced; one that reports an error
\* and has no journal left has changed nothing (ApplicationStateService::restore).
OutcomeIsHonest ==
    pc = "down" /\ NoRestore =>
        /\ result = "ok" => /\ live = target /\ old = NothingOld
                            /\ before[Database] # Absent => safetyBundle = before
        /\ result = "error" => live = before /\ old = NothingOld

\* A recovery none of whose file operations fails completes: startup rolls an
\* uncommitted switch back or completes the cleanup of a committed one
\* (docs/adr/0010-versioned-application-state-bundles.md:20).
StartupRecovers == ~refused
=============================================================================
