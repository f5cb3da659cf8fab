-------------------------- MODULE StateRestoreProofs --------------------------
(***************************************************************************)
(* Proofs about StateRestore, for any number of parts in any order.        *)
(*                                                                         *)
(* A restore may be cut short at any file operation, and so may its        *)
(* recovery, and the recovery of that.  What holds all the time is that    *)
(* the journal the next program will find can be undone (Undoable) or its  *)
(* state is complete (committed); whether a part was swapped, is being     *)
(* swapped back or was swapped back already need not be known.             *)
(***************************************************************************)
EXTENDS StateRestore, SequenceTheorems, TLAPS

Order == 1..Len(SwapOrder)

Untouched(p) == live[p] = before[p] /\ old[p] = Absent
AllUntouched == live = before /\ old = NothingOld

\* with the state l, the parts o renamed away, the safety copy s and the state b
\* before the restore: undoing the i-th swap of the journal g brings back its part
SwapUndone(g, i, l, o, b) ==
    LET p == SwapOrder[i]
        untouched == l[p] = b[p] /\ o[p] = Absent
    IN  /\ i > g.swaps => untouched /\ p \notin g.had
        /\ i <= g.swaps /\ p \in g.had => b[p] # Absent /\ (untouched \/ o[p] = b[p])
        /\ i <= g.swaps /\ p \notin g.had => b[p] = Absent /\ o[p] = Absent

\* ... and so with all of them and the database
UndoableFrom(g, l, o, s, b) ==
    /\ ~g.committed
    /\ g.switched => g.swaps = Len(SwapOrder)
    /\ \A i \in Order : SwapUndone(g, i, l, o, b)
    /\ g.hadDatabase <=> b[Database] # Absent
    /\ ~g.switched => l[Database] = b[Database]
    /\ g.switched /\ g.hadDatabase => s \in {b[Database], Absent}

Undoable(g) == UndoableFrom(g, live, old, safety, before)

Disk ==
    /\ Found = NoJournal => live \in {before, target} /\ old = NothingOld
    /\ Found # NoJournal /\ Found.committed =>
           live = target /\ Found.swaps = Len(SwapOrder)
    /\ ~Found.committed => Undoable(Found)
    /\ backup # NoJournal => ~backup.committed
    /\ backup # NoJournal /\ ~Found.committed => Undoable(backup)

Rolling == \/ pc \in {"undoDatabase", "undoPrune", "undoCopy", "undo", "undoNew"}
           \/ pc = "forget" /\ ~mem.committed
Cleaning == pc \in {"clean", "cleanSafety"} \/ (pc = "forget" /\ mem.committed)
Saving == pc \in {"save", "replace", "settle"}
Installing == Saving \/ pc \in {"record", "moveOut", "moveIn", "switch", "prune", "copy"}

Phases ==
    /\ pc \in {"up", "begin"} => journal = NoJournal /\ backup = NoJournal
    /\ pc \in {"down", "up", "look", "begin"} => phase = "recover"
    /\ Installing => phase = "install"
    /\ phase = "recover" /\ (Rolling \/ Cleaning) => journal = mem /\ backup = NoJournal
    /\ mem.switched => mem.swaps = Len(SwapOrder)
    /\ phase = "install" =>
           /\ target = [p \in Parts \cup {Database} |->
                            IF p \in bundle \cup {Database} THEN Bundled ELSE Absent]
           /\ before[Database] # Absent => safetyBundle = before

Rollback ==
    Rolling =>
        /\ Found # NoJournal /\ ~Found.committed /\ Undoable(mem)
        /\ pc \in {"undoPrune", "undoCopy"} =>
               mem.switched /\ mem.hadDatabase /\ staged = before[Database]
        /\ pc = "undo" => k <= mem.swaps /\ \A i \in Order : i > k => Untouched(SwapOrder[i])
        /\ pc = "undoNew" => old = NothingOld /\ \A p \in Parts : live[p] = before[p]
        /\ pc \in {"undo", "undoNew"} /\ mem.hadDatabase => live[Database] = before[Database]
        /\ pc = "forget" => AllUntouched

Cleanup ==
    Cleaning =>
        /\ journal = mem /\ backup = NoJournal /\ mem # NoJournal /\ mem.committed
        /\ pc = "clean" => k \in Order /\ \A i \in Order : i < k => old[SwapOrder[i]] = Absent
        /\ pc \in {"cleanSafety", "forget"} => old = NothingOld

\* the first n parts are as the bundle has them
Swapped1(n) == \A i \in Order : i <= n => live[SwapOrder[i]] = target[SwapOrder[i]]

Install ==
    Installing =>
        /\ ~mem.committed => Undoable(mem)
        /\ mem.committed => Saving /\ live = target /\ mem.switched
        /\ ~mem.switched /\ (Saving \/ pc = "moveOut") =>
               /\ Swapped1(mem.swaps - 1)
               /\ mem.swaps > 0 => Untouched(SwapOrder[mem.swaps])
        /\ pc = "moveOut" => mem.swaps > 0 /\ ~mem.switched
        /\ pc = "moveIn" => /\ mem.swaps > 0 /\ ~mem.switched
                            /\ Swapped1(mem.swaps - 1) /\ live[SwapOrder[mem.swaps]] = Absent
        /\ pc = "record" => Swapped1(mem.swaps) /\ ~mem.switched
        /\ mem.switched => Swapped1(mem.swaps)
        /\ pc \in {"switch", "prune", "copy"} => mem.switched
        /\ ~Saving => journal = mem /\ backup = NoJournal
        /\ safety = before[Database]
        /\ snapshots <= IF pc \in {"prune", "copy"} \/ mem.committed THEN 1 ELSE 0
        /\ pc = "save" => backup = NoJournal
        /\ pc = "replace" => journal = NoJournal
        /\ pc = "settle" => journal = mem
        /\ mem.swaps = 0 => /\ AllUntouched /\ backup = NoJournal
                            /\ pc \in {"save", "replace"} => journal = NoJournal
        /\ mem.swaps > 0 => Found # NoJournal
        /\ Found.committed /\ Found # NoJournal => pc = "settle" /\ mem.committed

Results ==
    /\ result # "none" => pc = "down"
    /\ result = "ok" => /\ NoRestore /\ live = target /\ old = NothingOld
                        /\ before[Database] # Absent => safetyBundle = before
    /\ result = "error" /\ NoRestore => live = before /\ old = NothingOld

\* the database the user had: in the safety copy, or back in its place, or there are
\* so many snapshots that the safety copy went; and in the safety bundle in any case
Safe ==
    /\ before[Database] # Absent => safetyBundle = before
    /\ \/ safety = before[Database]
       \/ live[Database] = before[Database]
       \/ snapshots = Retention

Uncommitted == Found # NoJournal /\ ~Found.committed
Copies == Uncommitted => Safe

IInv == TypeOK /\ Disk /\ Phases /\ Rollback /\ Cleanup /\ Install /\ Results /\ Copies

-----------------------------------------------------------------------------
(* The parts, the journals and what one file operation changes.            *)

\* The order lists every part once, and the database is none of them.
LEMMA Ordered ==
    /\ Len(SwapOrder) \in Nat /\ Len(SwapOrder) > 0
    /\ Order = DOMAIN SwapOrder
    /\ \A i \in Order : SwapOrder[i] \in Parts
    /\ \A p \in Parts : \E i \in Order : SwapOrder[i] = p
    /\ \A i, j \in Order : SwapOrder[i] = SwapOrder[j] => i = j
    /\ Database \notin Parts
<1>1. SwapOrder \in Seq(Parts) /\ SwapOrder # <<>>
  BY SwapOrderAssumption DEF Parts
<1>2. Len(SwapOrder) \in Nat /\ DOMAIN SwapOrder = Order
  BY <1>1 DEF Order
<1>3. Len(SwapOrder) > 0
  BY <1>1, <1>2, EmptySeq
<1>4. Parts = {SwapOrder[i] : i \in Order}
  BY <1>2 DEF Parts, ToSet
<1>5. \A i, j \in Order : SwapOrder[i] = SwapOrder[j] => i = j
  BY <1>2, SwapOrderAssumption DEF IsInjective
<1>6. Database \notin Parts
  BY SwapOrderAssumption DEF Database, Parts
<1> QED BY <1>2, <1>3, <1>4, <1>5, <1>6

\* No version is Absent or Bundled.
LEMMA Versioned == Absent \notin Versions /\ Bundled \notin Versions /\ Absent # Bundled
  BY VersionsAssumption DEF Absent, Bundled

\* A journal that is there is one that is not committed, or has swaps.
LEMMA Journalled ==
    /\ NoJournal \in Journals
    /\ NoJournal.committed /\ NoJournal.swaps = 0 /\ ~NoJournal.switched
    /\ \A g \in Journals : /\ g.swaps \in 0..Len(SwapOrder) /\ g.had \subseteq Parts
                           /\ g.hadDatabase \in BOOLEAN /\ g.switched \in BOOLEAN
                           /\ g.committed \in BOOLEAN
  BY Ordered DEF Journals, NoJournal

\* Setting one component of the state.
LEMMA Setting ==
    ASSUME NEW l \in States, NEW p \in Parts \cup {Database}, NEW v
    PROVE  /\ [l EXCEPT ![p] = v][p] = v
           /\ \A q \in Parts \cup {Database} : q # p => [l EXCEPT ![p] = v][q] = l[q]
           /\ v \in Contents => [l EXCEPT ![p] = v] \in States
  BY DEF States

LEMMA SettingOld ==
    ASSUME NEW o \in [Parts -> Contents], NEW p \in Parts, NEW v
    PROVE  /\ [o EXCEPT ![p] = v][p] = v
           /\ \A q \in Parts : q # p => [o EXCEPT ![p] = v][q] = o[q]
           /\ v \in Contents => [o EXCEPT ![p] = v] \in [Parts -> Contents]
  OBVIOUS

\* Two states that agree everywhere are the same.
LEMMA Same ==
    ASSUME NEW l \in States, NEW m \in States, l[Database] = m[Database],
           \A i \in Order : l[SwapOrder[i]] = m[SwapOrder[i]]
    PROVE  l = m
<1>1. \A p \in Parts \cup {Database} : l[p] = m[p]
  BY Ordered
<1> QED BY <1>1 DEF States

LEMMA SameOld ==
    ASSUME NEW o \in [Parts -> Contents], \A i \in Order : o[SwapOrder[i]] = Absent
    PROVE  o = NothingOld
<1>1. \A p \in Parts : o[p] = Absent
  BY Ordered
<1> QED BY <1>1 DEF NothingOld

\* What no swap has touched is undone already.
LEMMA NothingToUndo ==
    ASSUME NEW g \in Journals, NEW l \in States, NEW o \in [Parts -> Contents], NEW s,
           ~g.committed, g.swaps = 0, g.had = {}, ~g.switched, o = NothingOld,
           g.hadDatabase <=> l[Database] # Absent
    PROVE  UndoableFrom(g, l, o, s, l)
<1>1. \A i \in Order : i > g.swaps /\ ~(i <= g.swaps) /\ o[SwapOrder[i]] = Absent
  BY Ordered, Journalled DEF NothingOld, Order
<1> QED BY <1>1 DEF UndoableFrom, SwapUndone

-----------------------------------------------------------------------------
(* The types.                                                              *)

LEMMA TypeKept == ASSUME TypeOK, [Next]_vars PROVE TypeOK'
<1> USE DEF TypeOK, disk, process, history, At, Go, Steps
<1>0. /\ Absent \in Contents /\ Bundled \in Contents /\ Versions \subseteq Contents
      /\ 0 \in 0..Len(SwapOrder) /\ 1 \in 0..Len(SwapOrder)
  BY Ordered DEF Contents
<1>1. CASE UNCHANGED vars
  BY <1>1 DEF vars
<1>2. CASE Start
  BY <1>2 DEF Start
<1>3. ASSUME NEW parts \in SUBSET Parts, StartRestore(parts) PROVE TypeOK'
  BY <1>3 DEF StartRestore
<1>4. ASSUME NEW p \in Parts \cup {Database}, NEW v \in Versions \cup {Absent}, Use(p, v)
      PROVE  TypeOK'
  BY <1>0, <1>4, Setting DEF Use
<1>5. CASE Stop
  <2>1. /\ pc' = "down" /\ phase' = "recover" /\ goal' = "run" /\ mem' = NoJournal /\ k' = 0
        /\ bundle' = {} /\ staged' = Absent /\ UNCHANGED <<disk, result, history>>
    BY <1>5 DEF Stop
  <2> QED BY <1>0, <2>1, Journalled
<1>6. CASE LookAtJournal
  <2>1. journal' \in Journals /\ backup' \in Journals /\ mem' \in Journals
    BY <1>6, Journalled DEF LookAtJournal, Found
  <2>2. pc' \in Steps \cup {"up"}
    BY <1>6 DEF LookAtJournal
  <2>3. k' \in {0, 1}
    BY <1>6 DEF LookAtJournal
  <2> QED BY <1>0, <1>6, <2>1, <2>2, <2>3 DEF LookAtJournal
<1>7. CASE UndoDatabase \/ CopyBack
  BY <1>0, <1>7, Journalled, Setting, RetentionAssumption DEF UndoDatabase, CopyBack, SnapshotTaken
<1>27. CASE PruneSnapshots
  BY <1>0, <1>27 DEF PruneSnapshots
<1>8. CASE RollbackRefused
  BY <1>0, <1>8, Journalled DEF RollbackRefused, End
<1>9. ASSUME At("undo"), k > 0 PROVE k \in Order /\ k - 1 \in 0..Len(SwapOrder) /\ Part \in Parts
  BY <1>9, Ordered DEF Order, Part
<1>10. CASE UndoSwap
  <2>1. k > 0 /\ Part \in Parts /\ k - 1 \in 0..Len(SwapOrder)
    BY <1>9, <1>10 DEF UndoSwap
  <2>2. old[Part] \in Contents
    BY <2>1
  <2>3. live' \in States
    BY <1>0, <1>10, <2>1, <2>2, Setting DEF UndoSwap
  <2>4. old' \in [Parts -> Contents]
    BY <1>0, <1>10, <2>1, SettingOld DEF UndoSwap
  <2>5. k' \in 0..Len(SwapOrder)
    BY <1>10, <2>1 DEF UndoSwap
  <2> QED BY <1>10, <2>3, <2>4, <2>5 DEF UndoSwap
<1>11. CASE UndoSafety
  BY <1>0, <1>11 DEF UndoSafety
<1>12. CASE UndoNew
  BY <1>0, <1>12, Setting DEF UndoNew
<1>13. CASE CleanOld
  <2>1. mem.swaps \in 0..Len(SwapOrder) /\ Len(SwapOrder) \in Nat
    BY Journalled, Ordered
  <2>2. k' \in 0..Len(SwapOrder)
    BY <1>0, <1>13, <2>1 DEF CleanOld
  <2>3. old' \in [Parts -> Contents]
    BY <1>0, <1>13 DEF CleanOld
  <2> QED BY <1>13, <2>2, <2>3 DEF CleanOld
<1>14. CASE CleanSafety
  BY <1>0, <1>14 DEF CleanSafety
<1>15. CASE ForgetJournal
  BY <1>0, <1>15, Journalled DEF ForgetJournal, End
<1>16. CASE TakeSafety
  <2>1. NoState \in States /\ live[Database] \in Contents
    BY <1>0 DEF NoState, States
  <2>2. mem' \in Journals
    BY <1>16, <1>0 DEF TakeSafety, Journals
  <2>3. target' \in States
    BY <1>16, <1>0 DEF TakeSafety, States
  <2> QED BY <1>16, <2>1, <2>2, <2>3, RetentionAssumption DEF TakeSafety
<1>17. CASE SaveJournal
  BY <1>17, Journalled DEF SaveJournal
<1>18. CASE ReplaceJournal
  BY <1>18 DEF ReplaceJournal
<1>19. CASE SettleJournal
  BY <1>0, <1>19, Journalled DEF SettleJournal
<1>20. CASE RecordNext
  <2>1. mem.swaps # Len(SwapOrder) => mem.swaps + 1 \in Order
    BY Journalled, Ordered DEF Order
  <2>2. mem' \in Journals
    <3>1. CASE mem.swaps = Len(SwapOrder)
      BY <1>20, <3>1 DEF RecordNext, Journals
    <3>2. CASE mem.swaps # Len(SwapOrder)
      <4>1. SwapOrder[mem.swaps + 1] \in Parts /\ mem.swaps + 1 \in 0..Len(SwapOrder)
        BY <2>1, <3>2, Ordered DEF Order
      <4> QED BY <1>20, <3>2, <4>1 DEF RecordNext, Journals
    <3> QED BY <3>1, <3>2
  <2> QED BY <1>20, <2>2 DEF RecordNext
<1>21. CASE MoveOut
  <2>1. Swapped \in mem.had => Swapped \in Parts
    BY Journalled
  <2>2. live' \in States
    BY <1>0, <1>21, <2>1, Setting DEF MoveOut
  <2>3. old' \in [Parts -> Contents]
    BY <1>21 DEF MoveOut, States
  <2> QED BY <1>21, <2>2, <2>3 DEF MoveOut
<1>22. CASE MoveIn
  BY <1>0, <1>22, Setting DEF MoveIn
<1>23. CASE SwitchDatabase
  BY <1>23, RetentionAssumption DEF SwitchDatabase, SnapshotTaken
<1>28. CASE CopyDatabase
  <2>1. mem' \in Journals
    BY <1>28 DEF CopyDatabase, Journals
  <2> QED BY <1>0, <1>28, <2>1, Setting DEF CopyDatabase
<1>24. FailedEffect => /\ live' \in States /\ old' = old /\ safety' = safety
                       /\ safetyBundle' = safetyBundle /\ journal' \in Journals
                       /\ backup' \in Journals /\ snapshots' = snapshots
  BY <1>0, Setting, Journalled DEF FailedEffect
<1>25. CASE InstallFails
  BY <1>24, <1>25 DEF InstallFails
<1>26. CASE GivesUp
  BY <1>0, <1>24, <1>26, Journalled DEF GivesUp, End
<1> QED BY <1>1, <1>2, <1>3, <1>4, <1>5, <1>6, <1>7, <1>8, <1>10, <1>11, <1>12, <1>13, <1>14,
           <1>15, <1>16, <1>17, <1>18, <1>19, <1>20, <1>21, <1>22, <1>23, <1>25, <1>26,
           <1>27, <1>28 DEF Next

LEMMA InitType == Init => TypeOK
<1> SUFFICES ASSUME Init PROVE TypeOK
  OBVIOUS
<1>1. Absent \in Contents /\ Versions \subseteq Contents /\ 0 \in 0..Len(SwapOrder)
  BY Ordered DEF Contents
<1>2. live \in States /\ NoState \in States /\ NothingOld \in [Parts -> Contents]
  BY <1>1 DEF Init, States, NoState, NothingOld
<1>3. snapshots \in 0..Retention
  BY RetentionAssumption DEF Init
<1> QED BY <1>1, <1>2, <1>3, Journalled DEF Init, TypeOK

-----------------------------------------------------------------------------
(* What one file operation does to a rollback: g is a journal, l the state, *)
(* o the parts renamed away, s the safety copy, b the state before.        *)

\* the journal h is g with the next swap recorded
RecordsSwap(g, h, l) ==
    /\ h.swaps = g.swaps + 1
    /\ h.had = IF l[SwapOrder[h.swaps]] = Absent THEN g.had ELSE g.had \cup {SwapOrder[h.swaps]}
    /\ h.hadDatabase = g.hadDatabase /\ h.switched = g.switched /\ h.committed = g.committed

\* A restore records the next swap: it can be undone, for nothing has happened.
LEMMA Recorded ==
    ASSUME NEW g \in Journals, NEW l \in States, NEW o \in [Parts -> Contents], NEW s,
           NEW b \in States, NEW h \in Journals,
           UndoableFrom(g, l, o, s, b), ~g.switched, g.swaps < Len(SwapOrder),
           RecordsSwap(g, h, l)
    PROVE  /\ UndoableFrom(h, l, o, s, b)
           /\ SwapOrder[h.swaps] \in Parts /\ h.swaps \in Order
           /\ l[SwapOrder[h.swaps]] = b[SwapOrder[h.swaps]] /\ o[SwapOrder[h.swaps]] = Absent
<1> USE DEF RecordsSwap
<1>1. h.swaps \in Order /\ SwapOrder[h.swaps] \in Parts
  BY Journalled, Ordered DEF Order
<1>2. l[SwapOrder[h.swaps]] = b[SwapOrder[h.swaps]] /\ o[SwapOrder[h.swaps]] = Absent
  BY <1>1, Journalled DEF UndoableFrom, SwapUndone
<1>3. ASSUME NEW i \in Order PROVE SwapUndone(h, i, l, o, b)
  <2>1. SwapUndone(g, i, l, o, b)
    BY DEF UndoableFrom
  <2>2. g.swaps \in Nat /\ i \in Nat
    BY Journalled DEF Order
  <2>3. CASE i = h.swaps
    <3>1. SwapOrder[i] \in h.had <=> l[SwapOrder[i]] # Absent
      BY <2>1, <2>2, <2>3 DEF SwapUndone
    <3> QED BY <1>2, <2>2, <2>3, <3>1 DEF SwapUndone
  <2>4. CASE i # h.swaps
    <3>1. SwapOrder[i] # SwapOrder[h.swaps]
      BY <1>1, <2>4, Ordered
    <3>2. SwapOrder[i] \in h.had <=> SwapOrder[i] \in g.had
      BY <3>1
    <3>3. i > h.swaps => i > g.swaps
      BY <2>2
    <3>4. i <= h.swaps => i <= g.swaps
      BY <2>2, <2>4
    <3> QED BY <2>1, <3>2, <3>3, <3>4 DEF SwapUndone
  <2> QED BY <2>3, <2>4
<1> QED BY <1>1, <1>2, <1>3 DEF UndoableFrom

\* The i-th part may be moved out of its place ...
LEMMA MovedOut ==
    ASSUME NEW g \in Journals, NEW l \in States, NEW o \in [Parts -> Contents], NEW s,
           NEW b \in States, NEW i \in Order,
           UndoableFrom(g, l, o, s, b), ~g.switched, i <= g.swaps, SwapOrder[i] \in g.had,
           l[SwapOrder[i]] = b[SwapOrder[i]]
    PROVE  UndoableFrom(g, [l EXCEPT ![SwapOrder[i]] = Absent],
                        [o EXCEPT ![SwapOrder[i]] = l[SwapOrder[i]]], s, b)
<1> DEFINE p == SwapOrder[i]
           m == [l EXCEPT ![p] = Absent]
           n == [o EXCEPT ![p] = l[p]]
<1>1. p \in Parts /\ p # Database /\ Database \in Parts \cup {Database}
  BY Ordered
<1>2. m[p] = Absent /\ n[p] = b[p] /\ m[Database] = l[Database]
  BY <1>1 DEF States
<1>3. ASSUME NEW j \in Order PROVE SwapUndone(g, j, m, n, b)
  <2>1. SwapUndone(g, j, l, o, b)
    BY DEF UndoableFrom
  <2>2. CASE j = i
    BY <1>2, <2>1, <2>2, Journalled DEF SwapUndone, Order
  <2>3. CASE j # i
    <3>1. SwapOrder[j] \in Parts /\ SwapOrder[j] # p
      BY <2>3, Ordered
    <3>2. m[SwapOrder[j]] = l[SwapOrder[j]] /\ n[SwapOrder[j]] = o[SwapOrder[j]]
      BY <1>1, <3>1, Setting, SettingOld
    <3> QED BY <2>1, <3>2 DEF SwapUndone
  <2> QED BY <2>2, <2>3
<1>4. UndoableFrom(g, m, n, s, b)
  BY <1>2, <1>3 DEF UndoableFrom
<1> QED BY <1>4

\* ... and any content put there, when what was there is renamed away or was not there.
LEMMA PutThere ==
    ASSUME NEW g \in Journals, NEW l \in States, NEW o \in [Parts -> Contents], NEW s,
           NEW b \in States, NEW i \in Order, NEW v,
           UndoableFrom(g, l, o, s, b), i <= g.swaps,
           SwapOrder[i] \in g.had => o[SwapOrder[i]] = b[SwapOrder[i]]
    PROVE  UndoableFrom(g, [l EXCEPT ![SwapOrder[i]] = v], o, s, b)
<1> DEFINE p == SwapOrder[i]
           m == [l EXCEPT ![p] = v]
<1>1. p \in Parts /\ p # Database /\ Database \in Parts \cup {Database}
  BY Ordered
<1>2. m[Database] = l[Database]
  BY <1>1, Setting
<1>3. ASSUME NEW j \in Order PROVE SwapUndone(g, j, m, o, b)
  <2>1. SwapUndone(g, j, l, o, b)
    BY DEF UndoableFrom
  <2>2. CASE j = i
    <3>1. g.swaps \in Nat /\ j \in Nat
      BY Journalled DEF Order
    <3> QED BY <2>1, <2>2, <3>1 DEF SwapUndone
  <2>3. CASE j # i
    <3>1. SwapOrder[j] \in Parts /\ SwapOrder[j] # p
      BY <2>3, Ordered
    <3>2. m[SwapOrder[j]] = l[SwapOrder[j]]
      BY <1>1, <3>1, Setting
    <3> QED BY <2>1, <3>2 DEF SwapUndone
  <2> QED BY <2>2, <2>3
<1>4. UndoableFrom(g, m, o, s, b)
  BY <1>2, <1>3 DEF UndoableFrom
<1> QED BY <1>4

\* The old part may be renamed back to its place.
LEMMA PutBack ==
    ASSUME NEW g \in Journals, NEW l \in States, NEW o \in [Parts -> Contents], NEW s,
           NEW b \in States, NEW i \in Order,
           UndoableFrom(g, l, o, s, b), i <= g.swaps, o[SwapOrder[i]] # Absent
    PROVE  LET p == SwapOrder[i]
               m == [l EXCEPT ![p] = o[p]]
               n == [o EXCEPT ![p] = Absent]
           IN  UndoableFrom(g, m, n, s, b) /\ m[p] = b[p] /\ n[p] = Absent
<1> DEFINE p == SwapOrder[i]
           m == [l EXCEPT ![p] = o[p]]
           n == [o EXCEPT ![p] = Absent]
<1>1. p \in Parts /\ p # Database /\ Database \in Parts \cup {Database}
  BY Ordered
<1>2. m[Database] = l[Database] /\ m[p] = o[p] /\ n[p] = Absent
  BY <1>1 DEF States
<1>3. g.swaps \in Nat /\ \A j \in Order : j \in Nat
  BY Journalled DEF Order
<1>4. o[p] = b[p] /\ b[p] # Absent
  BY <1>3 DEF UndoableFrom, SwapUndone
<1>5. ASSUME NEW j \in Order PROVE SwapUndone(g, j, m, n, b)
  <2>1. SwapUndone(g, j, l, o, b)
    BY DEF UndoableFrom
  <2>2. CASE j = i
    BY <1>2, <1>3, <1>4, <2>1, <2>2 DEF SwapUndone
  <2>3. CASE j # i
    <3>1. SwapOrder[j] \in Parts /\ SwapOrder[j] # p
      BY <2>3, Ordered
    <3>2. m[SwapOrder[j]] = l[SwapOrder[j]] /\ n[SwapOrder[j]] = o[SwapOrder[j]]
      BY <1>1, <3>1, Setting, SettingOld
    <3> QED BY <2>1, <3>2 DEF SwapUndone
  <2> QED BY <2>2, <2>3
<1>6. UndoableFrom(g, m, n, s, b)
  BY <1>2, <1>5 DEF UndoableFrom
<1> QED BY <1>2, <1>4, <1>6

\* The database may be switched, and put back, once that is recorded.
LEMMA DatabasePut ==
    ASSUME NEW g \in Journals, NEW l \in States, NEW o \in [Parts -> Contents], NEW s,
           NEW b \in States, NEW v,
           UndoableFrom(g, l, o, s, b),
           g.switched \/ v = b[Database]
    PROVE  UndoableFrom(g, [l EXCEPT ![Database] = v], o, s, b)
<1> DEFINE m == [l EXCEPT ![Database] = v]
<1>1. m[Database] = v /\ \A j \in Order : m[SwapOrder[j]] = l[SwapOrder[j]]
  BY Ordered DEF States
<1>2. ASSUME NEW j \in Order PROVE SwapUndone(g, j, m, o, b)
  BY <1>1 DEF UndoableFrom, SwapUndone
<1>3. UndoableFrom(g, m, o, s, b)
  BY <1>1, <1>2 DEF UndoableFrom
<1> QED BY <1>3

\* One step of undoing the i-th swap: what is live is removed, the old part comes
\* back, or a part that was not there goes away.
LEMMA SwapBack ==
    ASSUME NEW g \in Journals, NEW l \in States, NEW o \in [Parts -> Contents], NEW s,
           NEW b \in States, NEW i \in Order, UndoableFrom(g, l, o, s, b),
           NEW p \in Parts, p = SwapOrder[i]
    PROVE  /\ o[p] # Absent => /\ UndoableFrom(g, [l EXCEPT ![p] = Absent], o, s, b)
                               /\ UndoableFrom(g, [l EXCEPT ![p] = o[p]],
                                               [o EXCEPT ![p] = Absent], s, b)
           /\ o[p] = Absent /\ b[p] = Absent =>
                  UndoableFrom(g, [l EXCEPT ![p] = Absent], o, s, b)
<1>1. g.swaps \in Nat /\ i \in Nat /\ SwapUndone(g, i, l, o, b) /\ p \in Parts
  BY Journalled, Ordered DEF UndoableFrom, Order
<1>2. l[p] = Absent => [l EXCEPT ![p] = Absent] = l
  BY <1>1 DEF States
<1>3. ASSUME o[p] # Absent
      PROVE  i <= g.swaps /\ o[p] = b[p]
  BY <1>1, <1>3 DEF SwapUndone
<1>4. o[p] # Absent => UndoableFrom(g, [l EXCEPT ![p] = Absent], o, s, b)
  BY <1>3, PutThere
<1>5. o[p] # Absent => UndoableFrom(g, [l EXCEPT ![p] = o[p]], [o EXCEPT ![p] = Absent], s, b)
  BY <1>3, PutBack
<1>6. ASSUME o[p] = Absent, b[p] = Absent, l[p] # Absent
      PROVE  UndoableFrom(g, [l EXCEPT ![p] = Absent], o, s, b)
  <2>1. i <= g.swaps /\ p \notin g.had
    BY <1>1, <1>6 DEF SwapUndone
  <2> QED BY <2>1, PutThere
<1> QED BY <1>2, <1>4, <1>5, <1>6

\* What is renamed away is what was there; a part that was there and is not renamed
\* away is in its place.
LEMMA SwapSettled ==
    ASSUME NEW g \in Journals, NEW l, NEW o, NEW s, NEW b, NEW i \in Order,
           UndoableFrom(g, l, o, s, b), NEW p, p = SwapOrder[i]
    PROVE  /\ o[p] # Absent => o[p] = b[p]
           /\ o[p] = Absent /\ b[p] # Absent => l[p] = b[p]
           /\ i <= g.swaps => (p \in g.had <=> b[p] # Absent)
<1>1. g.swaps \in Nat /\ i \in Nat /\ SwapUndone(g, i, l, o, b)
  BY Journalled, Ordered DEF UndoableFrom, Order
<1> QED BY <1>1 DEF SwapUndone

\* The safety copy may go: the journal does not say where the database is.
LEMMA SafetyGone ==
    ASSUME NEW g, NEW l, NEW o, NEW s, NEW b, UndoableFrom(g, l, o, s, b)
    PROVE  UndoableFrom(g, l, o, Absent, b)
  BY DEF UndoableFrom

-----------------------------------------------------------------------------
(* Where nothing of the disk or nothing of the process is at stake.        *)

LEMMA FoundOnDisk == TypeOK => Found \in Journals
  BY DEF TypeOK, Found

LEMMA DiskKept ==
    ASSUME Disk, Found' = Found, backup' \in {NoJournal, backup, Found},
           backup' # NoJournal => ~backup'.committed,
           UNCHANGED <<live, old, safety, before, target>>
    PROVE  Disk'
<1>1. \A g : Undoable(g)' <=> Undoable(g)
  BY DEF Undoable
<1>2. ~Found.committed => Undoable(Found)'
  BY <1>1 DEF Disk
<1> QED BY <1>1, <1>2 DEF Disk, Undoable

\* A process that is down, up, or about to start a restore promises nothing.
LEMMA Quiet == pc' \in {"down", "up", "look", "begin"} => (Rollback /\ Cleanup /\ Install)'
  BY DEF Rollback, Cleanup, Install, Rolling, Cleaning, Installing, Saving

\* A process that runs has no result yet.
LEMMA NoResultYet ==
    /\ Results /\ pc # "down" => result = "none"
    /\ result' = "none" => Results'
  BY DEF Results

-----------------------------------------------------------------------------
(* Every step keeps the invariant: starting, using and stopping.           *)

LEMMA StartKept ==
    ASSUME IInv, Start \/ \E parts \in SUBSET Parts : StartRestore(parts)
    PROVE  (Disk /\ Phases /\ Rollback /\ Cleanup /\ Install /\ Results)'
<1>1. /\ pc = "down" /\ pc' = "look" /\ phase' = "recover" /\ result' = "none"
      /\ mem' = mem /\ UNCHANGED <<disk, history>>
  BY DEF Start, StartRestore, At, Go
<1>2. Disk'
  BY <1>1, DiskKept DEF IInv, Disk, disk, history, Found
<1>3. Phases'
  BY <1>1 DEF IInv, Phases, Rolling, Cleaning, Installing, Saving
<1> QED BY <1>1, <1>2, <1>3, Quiet, NoResultYet

LEMMA UseKept ==
    ASSUME IInv, NEW p \in Parts \cup {Database}, NEW v \in Versions \cup {Absent}, Use(p, v)
    PROVE  (Disk /\ Phases /\ Rollback /\ Cleanup /\ Install /\ Results)'
<1>1. /\ pc = "up" /\ pc' = pc /\ phase' = phase /\ result' = result /\ mem' = mem
      /\ before' = live' /\ UNCHANGED <<old, safety, journal, backup>>
  BY DEF Use, At, process
<1>2. journal = NoJournal /\ backup = NoJournal /\ phase = "recover"
  BY <1>1 DEF IInv, Phases
<1>3. Disk'
  BY <1>1, <1>2, Journalled DEF IInv, Disk, Found
<1>4. Phases'
  BY <1>1, <1>2 DEF IInv, Phases, Rolling, Cleaning, Installing, Saving
<1> QED BY <1>1, <1>3, <1>4, Quiet, NoResultYet DEF IInv

LEMMA StopKept ==
    ASSUME IInv, Stop
    PROVE  (Disk /\ Phases /\ Rollback /\ Cleanup /\ Install /\ Results)'
<1>1. /\ pc # "down" /\ pc' = "down" /\ phase' = "recover" /\ result' = result
      /\ mem' = NoJournal /\ UNCHANGED <<disk, history>>
  BY DEF Stop, At, Go
<1>2. Disk'
  BY <1>1, DiskKept DEF IInv, Disk, disk, history, Found
<1>3. Phases'
  BY <1>1, Journalled DEF IInv, Phases, Rolling, Cleaning, Installing, Saving
<1> QED BY <1>1, <1>2, <1>3, Quiet, NoResultYet DEF IInv

\* Giving up before the first swap, after the commit, or in a recovery.
LEMMA EndedKept ==
    ASSUME IInv, Disk', Found' = Found, backup' \in {NoJournal, backup, Found},
           pc' = "down", phase' = "recover", mem' = NoJournal,
           live' = live \/ Rolling, UNCHANGED <<old, before>>,
           result' = IF phase = "install" THEN "error" ELSE "none",
           \/ pc \in {"look", "begin"} \/ Rolling \/ Cleaning
           \/ Saving /\ (mem.swaps = 0 \/ mem.committed)
    PROVE  (Disk /\ Phases /\ Rollback /\ Cleanup /\ Install /\ Results)'
<1>1. Phases'
  BY Journalled DEF IInv, Phases, Rolling, Cleaning, Installing, Saving
<1>2. ASSUME phase = "install", NoRestore' PROVE live' = before /\ old = NothingOld
  <2>1. Found = NoJournal
    BY <1>2 DEF NoRestore, Found
  <2>2. ~Rolling /\ ~Cleaning
    BY <2>1 DEF IInv, Rollback, Cleanup, Found
  <2>3. Saving /\ mem.swaps = 0
    <3>1. Saving /\ (mem.swaps = 0 \/ mem.committed)
      BY <1>2, <2>2 DEF IInv, Phases
    <3>2. ~(mem.swaps > 0)
      BY <2>1, <3>1 DEF IInv, Install, Installing
    <3> QED BY <3>1, <3>2, Journalled, Ordered DEF IInv, TypeOK
  <2> QED BY <2>2, <2>3 DEF IInv, Install, Installing, AllUntouched
<1>3. Results'
  BY <1>2 DEF Results
<1> QED BY <1>1, <1>3, Quiet

-----------------------------------------------------------------------------
(* Recovery and rollback.                                                  *)

LEMMA LookAtJournalKept ==
    ASSUME IInv, LookAtJournal
    PROVE  (Disk /\ Phases /\ Rollback /\ Cleanup /\ Install /\ Results)'
<1>1. /\ pc = "look" /\ journal' = Found /\ backup' = NoJournal /\ mem' = Found
      /\ phase' = phase /\ result' = result
      /\ UNCHANGED <<live, old, safety, before, target>>
      /\ pc' \in {"up", "begin", "clean", "undoDatabase"}
      /\ pc' \in {"up", "begin"} <=> Found = NoJournal
      /\ pc' = "clean" <=> Found # NoJournal /\ Found.committed
      /\ pc' = "clean" => k' = 1
  BY DEF LookAtJournal, At, Go, Found, history
<1>2. Found' = Found
  BY <1>1 DEF Found
<1>3. Disk'
  BY <1>1, <1>2, DiskKept DEF IInv
<1>4. phase = "recover"
  BY <1>1 DEF IInv, Phases
<1>5. Undoable(Found)' = Undoable(Found)
  BY <1>1, <1>2 DEF Undoable
<1>6. Phases'
  <2>1. Found.switched => Found.swaps = Len(SwapOrder)
    BY Journalled DEF IInv, Disk, Undoable, UndoableFrom
  <2> QED BY <1>1, <1>4, <2>1, Journalled DEF Phases, Rolling, Cleaning, Installing, Saving
<1>7. Rollback'
  BY <1>1, <1>2, <1>5 DEF IInv, Disk, Rollback, Rolling
<1>8. Cleanup'
  BY <1>1, Ordered DEF Cleanup, Cleaning, Order
<1>9. Install'
  BY <1>1 DEF Install, Installing, Saving
<1>10. Results'
  BY <1>1, NoResultYet DEF IInv
<1> QED BY <1>3, <1>6, <1>7, <1>8, <1>9, <1>10

\* Rolling back leaves Found as it is; what the step must keep is the rest.
LEMMA RollingKept ==
    ASSUME IInv, Rolling, Found' = Found, backup' = backup, journal' = journal, mem' = mem,
           pc' \in {"undoPrune", "undoCopy", "undo", "undoNew", "forget"}, phase' = phase, result' = result,
           target' = target, bundle' = bundle, before' = before, safetyBundle' = safetyBundle,
           \A g \in Journals : Undoable(g) => UndoableFrom(g, live', old', safety', before)
    PROVE  (Disk /\ Phases /\ Cleanup /\ Install /\ Results)' /\ Undoable(mem)' /\ mem' = mem
           /\ Found' # NoJournal /\ ~Found'.committed /\ ~mem.committed
<1>1. Found # NoJournal /\ ~Found.committed /\ Undoable(mem)
  BY DEF IInv, Rollback
<1>2. Found \in Journals /\ backup \in Journals /\ mem \in Journals
  BY FoundOnDisk DEF IInv, TypeOK
<1>3. Undoable(Found)' /\ (backup # NoJournal => Undoable(backup)') /\ Undoable(mem)'
  BY <1>1, <1>2 DEF IInv, Disk, Undoable
<1>4. Disk'
  BY <1>1, <1>3 DEF IInv, Disk
<1>5. ~mem.committed
  BY <1>1 DEF Undoable, UndoableFrom
<1>6. Phases'
  BY DEF IInv, Phases, Rolling, Cleaning, Installing, Saving
<1>7. Cleanup' /\ Install'
  BY <1>5 DEF Cleanup, Cleaning, Install, Installing, Saving
<1>8. result = "none"
  BY NoResultYet DEF IInv, Rolling
<1> QED BY <1>1, <1>3, <1>4, <1>5, <1>6, <1>7, <1>8, NoResultYet

LEMMA UndoDatabaseKept ==
    ASSUME IInv, UndoDatabase
    PROVE  (Disk /\ Phases /\ Rollback /\ Cleanup /\ Install /\ Results)'
<1>1. /\ pc = "undoDatabase" /\ pc' \in {"undoPrune", "undo"}
      /\ UNCHANGED <<live, old, safety, safetyBundle, journal, backup, phase, mem, bundle, result,
                     history>>
      /\ pc' = "undoPrune" => /\ mem.switched /\ mem.hadDatabase /\ safety # Absent
                              /\ staged' = safety
      /\ pc' = "undo" => ~(mem.switched /\ mem.hadDatabase) /\ k' = mem.swaps
  BY DEF UndoDatabase, At, Go
<1>2. Undoable(mem) /\ Rolling
  BY <1>1 DEF IInv, Rollback, Rolling
<1>3. mem.switched /\ mem.hadDatabase /\ safety # Absent => safety = before[Database]
  BY <1>2 DEF Undoable, UndoableFrom
<1>4. \A g \in Journals : Undoable(g) => UndoableFrom(g, live', old', safety', before)
  BY <1>1 DEF Undoable
<1>5. /\ (Disk /\ Phases /\ Cleanup /\ Install /\ Results)' /\ Undoable(mem)' /\ mem' = mem
      /\ Found' # NoJournal /\ ~Found'.committed
  BY <1>1, <1>2, <1>4, RollingKept DEF history, Found
<1>6. pc' = "undo" /\ mem.hadDatabase => live[Database] = before[Database]
  BY <1>1, <1>2 DEF Undoable, UndoableFrom
<1>7. \A i \in Order : i > mem.swaps => Untouched(SwapOrder[i])
  BY <1>2 DEF Undoable, UndoableFrom, SwapUndone, Untouched
<1>8. mem.swaps <= mem.swaps
  BY Journalled DEF IInv, TypeOK
<1>9. Rollback'
  BY <1>1, <1>3, <1>5, <1>6, <1>7, <1>8 DEF Rollback, Untouched, history
<1> QED BY <1>5, <1>9

LEMMA CopyBackKept ==
    ASSUME IInv, CopyBack
    PROVE  (Disk /\ Phases /\ Rollback /\ Cleanup /\ Install /\ Results)'
<1>1. /\ pc = "undoCopy" /\ pc' = "undo" /\ k' = mem.swaps
      /\ live' = [live EXCEPT ![Database] = staged]
      /\ UNCHANGED <<old, safety, safetyBundle, journal, backup, phase, mem, bundle, result, history>>
  BY DEF CopyBack, At, Go
<1>2. Undoable(mem) /\ Rolling /\ staged = before[Database]
  BY <1>1 DEF IInv, Rollback, Rolling
<1>3. ASSUME NEW g \in Journals, Undoable(g)
      PROVE  UndoableFrom(g, live', old', safety', before)
  BY <1>1, <1>2, <1>3, DatabasePut DEF IInv, TypeOK, Undoable
<1>4. /\ (Disk /\ Phases /\ Cleanup /\ Install /\ Results)' /\ Undoable(mem)' /\ mem' = mem
      /\ Found' # NoJournal /\ ~Found'.committed
  BY <1>1, <1>2, <1>3, RollingKept DEF history, Found
<1>5. live'[Database] = before[Database]
  BY <1>1, <1>2, Ordered DEF IInv, TypeOK, States
<1>6. \A i \in Order : i > mem.swaps => Untouched(SwapOrder[i])'
  <2>1. \A i \in Order : i > mem.swaps => Untouched(SwapOrder[i])
    BY <1>2 DEF Undoable, UndoableFrom, SwapUndone, Untouched
  <2>2. \A i \in Order : live'[SwapOrder[i]] = live[SwapOrder[i]]
    BY <1>1, Ordered DEF IInv, TypeOK, States
  <2> QED BY <1>1, <2>1, <2>2 DEF Untouched, history
<1>7. mem.swaps <= mem.swaps
  BY Journalled DEF IInv, TypeOK
<1>8. Rollback'
  BY <1>1, <1>4, <1>5, <1>6, <1>7 DEF Rollback, history
<1> QED BY <1>4, <1>8

\* A rollback may take the safety copy away; a restore never has so many snapshots.
LEMMA PruneSnapshotsKept ==
    ASSUME IInv, PruneSnapshots
    PROVE  (Disk /\ Phases /\ Rollback /\ Cleanup /\ Install /\ Results)'
<1>1. /\ UNCHANGED <<live, old, safetyBundle, snapshots, journal, backup, phase, mem, bundle,
                     staged, result, history>>
      /\ safety' = IF snapshots = Retention THEN Absent ELSE safety
      /\ \/ pc = "prune" /\ pc' = "copy"
         \/ pc = "undoPrune" /\ pc' = "undoCopy"
  BY DEF PruneSnapshots, At, Go, history
<1>2. CASE pc = "undoPrune"
  <2>1. pc' = "undoCopy" /\ Rolling
    BY <1>1, <1>2 DEF Rolling
  <2>2. mem.switched /\ mem.hadDatabase /\ staged = before[Database]
    BY <1>2, <2>1 DEF IInv, Rollback
  <2>3. \A g \in Journals : Undoable(g) => UndoableFrom(g, live', old', safety', before)
    BY <1>1, SafetyGone DEF Undoable
  <2>4. /\ (Disk /\ Phases /\ Cleanup /\ Install /\ Results)' /\ Undoable(mem)' /\ mem' = mem
        /\ Found' # NoJournal /\ ~Found'.committed
    BY <1>1, <2>1, <2>3, RollingKept DEF history, Found
  <2>5. Rollback'
    BY <1>1, <2>1, <2>2, <2>4 DEF Rollback, history
  <2> QED BY <2>4, <2>5
<1>3. CASE pc = "prune"
  <2>1. pc' = "copy" /\ Installing /\ pc # "down"
    BY <1>1, <1>3 DEF Installing
  <2>2. /\ journal = mem /\ backup = NoJournal /\ safety = before[Database] /\ snapshots <= 1
        /\ ~mem.committed
    BY <1>3, <2>1 DEF IInv, Install, Saving
  <2>3. safety' = safety
    BY <1>1, <2>2, RetentionAssumption DEF IInv, TypeOK
  <2>4. Found' = Found
    BY <1>1 DEF Found
  <2>5. Disk'
    BY <1>1, <2>2, <2>3, <2>4, DiskKept DEF IInv, history
  <2>6. Phases'
    BY <1>1, <1>3, <2>1 DEF IInv, Phases, Rolling, Cleaning, Installing, Saving, history
  <2>7. Rollback' /\ Cleanup' /\ Results'
    BY <1>1, <2>1, NoResultYet DEF IInv, Rollback, Rolling, Cleanup, Cleaning
  <2>8. /\ Undoable(mem)' <=> Undoable(mem)
        /\ Swapped1(mem.swaps)' <=> Swapped1(mem.swaps)
        /\ AllUntouched' <=> AllUntouched
    BY <1>1, <2>3 DEF Undoable, Swapped1, AllUntouched, history
  <2>9. Install'
    BY <1>1, <1>3, <2>1, <2>2, <2>3, <2>4, <2>8 DEF IInv, Install, Installing, Saving, history
  <2> QED BY <2>5, <2>6, <2>7, <2>9
<1> QED BY <1>1, <1>2, <1>3

LEMMA RollbackRefusedKept ==
    ASSUME IInv, RollbackRefused
    PROVE  (Disk /\ Phases /\ Rollback /\ Cleanup /\ Install /\ Results)'
<1>1. /\ pc = "undoDatabase" /\ pc' = "down" /\ phase' = "recover" /\ mem' = NoJournal
      /\ result' = (IF phase = "install" THEN "error" ELSE "none")
      /\ UNCHANGED <<disk, before, target>>
  BY DEF RollbackRefused, At, End, Go
<1>2. Disk'
  BY <1>1, DiskKept DEF IInv, Disk, disk, Found
<1> QED BY <1>1, <1>2, EndedKept DEF disk, Found, Rolling

LEMMA UndoSwapKept ==
    ASSUME IInv, UndoSwap
    PROVE  (Disk /\ Phases /\ Rollback /\ Cleanup /\ Install /\ Results)'
<1>1. /\ pc = "undo" /\ pc' = pc /\ k > 0
      /\ UNCHANGED <<safety, safetyBundle, journal, backup, phase, mem, bundle, result, history>>
  BY DEF UndoSwap, At
<1>2. /\ Undoable(mem) /\ Rolling /\ k <= mem.swaps
      /\ \A i \in Order : i > k => Untouched(SwapOrder[i])
      /\ mem.hadDatabase => live[Database] = before[Database]
  BY <1>1 DEF IInv, Rollback, Rolling
<1>3. k \in Order /\ k \in Nat /\ mem.swaps \in Nat
  BY <1>1, Ordered, Journalled DEF IInv, TypeOK, Order
<1>4. Part \in Parts /\ Part = SwapOrder[k] /\ Part # Database
  BY <1>3, Ordered DEF Part
<1>5. /\ live \in States /\ old \in [Parts -> Contents] /\ before \in States /\ mem \in Journals
  BY DEF IInv, TypeOK
<1>6. /\ Part \in mem.had <=> before[Part] # Absent
      /\ old[Part] # Absent => old[Part] = before[Part]
      /\ old[Part] = Absent /\ before[Part] # Absent => live[Part] = before[Part]
  <2>1. UndoableFrom(mem, live, old, safety, before)
    BY <1>2 DEF Undoable
  <2>2. /\ old[Part] # Absent => old[Part] = before[Part]
        /\ old[Part] = Absent /\ before[Part] # Absent => live[Part] = before[Part]
        /\ k <= mem.swaps => (Part \in mem.had <=> before[Part] # Absent)
    BY <1>3, <1>4, <1>5, <2>1, SwapSettled
  <2> QED BY <1>2, <2>2
<1>7. \/ /\ old[Part] # Absent /\ live[Part] # Absent
         /\ live' = [live EXCEPT ![Part] = Absent] /\ old' = old /\ k' = k
      \/ /\ old[Part] # Absent /\ live' = [live EXCEPT ![Part] = old[Part]]
         /\ old' = [old EXCEPT ![Part] = Absent] /\ k' = k - 1
      \/ /\ old[Part] = Absent /\ before[Part] = Absent
         /\ live' = [live EXCEPT ![Part] = Absent] /\ old' = old /\ k' = k - 1
      \/ /\ old[Part] = Absent /\ before[Part] # Absent
         /\ live' = live /\ old' = old /\ k' = k - 1
  BY <1>6 DEF UndoSwap
<1>8. ASSUME NEW g \in Journals, Undoable(g)
      PROVE  UndoableFrom(g, live', old', safety', before)
  <2>1. UndoableFrom(g, live, old, safety, before) /\ safety' = safety
    BY <1>1, <1>8 DEF Undoable
  <2>2. /\ old[Part] # Absent =>
               /\ UndoableFrom(g, [live EXCEPT ![Part] = Absent], old, safety, before)
               /\ UndoableFrom(g, [live EXCEPT ![Part] = old[Part]],
                               [old EXCEPT ![Part] = Absent], safety, before)
        /\ old[Part] = Absent /\ before[Part] = Absent =>
               UndoableFrom(g, [live EXCEPT ![Part] = Absent], old, safety, before)
    BY <1>3, <1>4, <1>5, <2>1, SwapBack
  <2> QED BY <1>7, <2>1, <2>2
<1>9. /\ (Disk /\ Phases /\ Cleanup /\ Install /\ Results)' /\ Undoable(mem)' /\ mem' = mem
      /\ Found' # NoJournal /\ ~Found'.committed
  BY <1>1, <1>2, <1>8, RollingKept DEF history, Found
<1>10. live'[Database] = live[Database]
  BY <1>4, <1>5, <1>7 DEF States
<1>11. \A i \in Order : i # k => live'[SwapOrder[i]] = live[SwapOrder[i]]
                                  /\ old'[SwapOrder[i]] = old[SwapOrder[i]]
  <2>1. \A i \in Order : i # k => SwapOrder[i] \in Parts /\ SwapOrder[i] # Part
    BY <1>3, <1>4, Ordered
  <2> QED BY <1>4, <1>5, <1>7, <2>1 DEF States
<1>12. k' = k - 1 => live'[Part] = before[Part] /\ old'[Part] = Absent
  <2>1. Part \in DOMAIN live /\ Part \in DOMAIN old
    BY <1>4, <1>5 DEF States
  <2> QED BY <1>3, <1>6, <1>7, <2>1
<1>13. ASSUME NEW i \in Order, i > k' PROVE Untouched(SwapOrder[i])'
  <2>1. i \in Nat /\ (k' = k \/ k' = k - 1)
    BY <1>7 DEF Order
  <2>2. CASE i = k
    BY <1>1, <1>3, <1>4, <1>12, <1>13, <2>1, <2>2 DEF Untouched, history
  <2>3. CASE i # k
    BY <1>1, <1>2, <1>3, <1>11, <1>13, <2>1, <2>3 DEF Untouched, history
  <2> QED BY <2>2, <2>3
<1>14. k' <= mem'.swaps
  BY <1>2, <1>3, <1>7, <1>9
<1>15. Rollback'
  BY <1>1, <1>2, <1>9, <1>10, <1>13, <1>14 DEF Rollback, history
<1> QED BY <1>9, <1>15

LEMMA UndoSafetyKept ==
    ASSUME IInv, UndoSafety
    PROVE  (Disk /\ Phases /\ Rollback /\ Cleanup /\ Install /\ Results)'
<1>1. /\ pc = "undo" /\ k = 0 /\ pc' = "undoNew" /\ safety' = Absent
      /\ UNCHANGED <<live, old, safetyBundle, journal, backup, phase, mem, bundle, result, history>>
  BY DEF UndoSafety, At, Go
<1>2. /\ Undoable(mem) /\ Rolling
      /\ \A i \in Order : i > 0 => Untouched(SwapOrder[i])
      /\ mem.hadDatabase => live[Database] = before[Database]
  BY <1>1 DEF IInv, Rollback, Rolling
<1>3. \A i \in Order : Untouched(SwapOrder[i])
  BY <1>2 DEF Order
<1>4. old = NothingOld
  BY <1>3, SameOld DEF IInv, TypeOK, Untouched
<1>5. ASSUME NEW g \in Journals, Undoable(g)
      PROVE  UndoableFrom(g, live', old', safety', before)
  BY <1>1, <1>5, SafetyGone DEF Undoable
<1>6. /\ (Disk /\ Phases /\ Cleanup /\ Install /\ Results)' /\ Undoable(mem)' /\ mem' = mem
      /\ Found' # NoJournal /\ ~Found'.committed
  BY <1>1, <1>2, <1>5, RollingKept DEF history, Found
<1>7. \A p \in Parts : live'[p] = before'[p]
  BY <1>1, <1>3, Ordered DEF Untouched, history
<1>8. Rollback'
  BY <1>1, <1>2, <1>4, <1>6, <1>7 DEF Rollback, history
<1> QED BY <1>6, <1>8

LEMMA UndoNewKept ==
    ASSUME IInv, UndoNew
    PROVE  (Disk /\ Phases /\ Rollback /\ Cleanup /\ Install /\ Results)'
<1>1. /\ pc = "undoNew" /\ pc' = "forget"
      /\ live' = IF mem.hadDatabase THEN live ELSE [live EXCEPT ![Database] = Absent]
      /\ UNCHANGED <<old, safety, safetyBundle, journal, backup, phase, mem, bundle, result, history>>
  BY DEF UndoNew, At, Go
<1>2. /\ Undoable(mem) /\ Rolling /\ old = NothingOld
      /\ \A p \in Parts : live[p] = before[p]
      /\ mem.hadDatabase => live[Database] = before[Database]
  BY <1>1 DEF IInv, Rollback, Rolling
<1>3. ~mem.hadDatabase => before[Database] = Absent
  BY <1>2 DEF Undoable, UndoableFrom
<1>4. ASSUME NEW g \in Journals, Undoable(g)
      PROVE  UndoableFrom(g, live', old', safety', before)
  BY <1>1, <1>3, <1>4, DatabasePut DEF IInv, TypeOK, Undoable
<1>5. /\ (Disk /\ Phases /\ Cleanup /\ Install /\ Results)' /\ Undoable(mem)' /\ mem' = mem
      /\ Found' # NoJournal /\ ~Found'.committed
  BY <1>1, <1>2, <1>4, RollingKept DEF history, Found
<1>6. live' = before'
  <2>1. live'[Database] = before[Database]
    BY <1>1, <1>2, <1>3 DEF IInv, TypeOK, States
  <2>2. \A i \in Order : live'[SwapOrder[i]] = before[SwapOrder[i]]
    BY <1>1, <1>2, Ordered DEF IInv, TypeOK, States
  <2>3. live' \in States /\ before' = before
    BY <1>1, Setting DEF IInv, TypeOK, history, Contents
  <2> QED BY <2>1, <2>2, <2>3, Same DEF IInv, TypeOK
<1>7. Rollback'
  BY <1>1, <1>2, <1>5, <1>6 DEF Rollback, AllUntouched
<1> QED BY <1>5, <1>7

-----------------------------------------------------------------------------
(* Cleaning up after the commit, and forgetting the journal.               *)

LEMMA CleanOldKept ==
    ASSUME IInv, CleanOld
    PROVE  (Disk /\ Phases /\ Rollback /\ Cleanup /\ Install /\ Results)'
<1>1. /\ pc = "clean" /\ old' = [old EXCEPT ![Part] = Absent]
      /\ IF k < mem.swaps THEN k' = k + 1 /\ pc' = "clean" ELSE k' = 0 /\ pc' = "cleanSafety"
      /\ UNCHANGED <<live, safety, safetyBundle, journal, backup, phase, mem, bundle, result, history>>
  BY DEF CleanOld, At, Go
<1>2. /\ journal = mem /\ backup = NoJournal /\ mem # NoJournal /\ mem.committed
      /\ k \in Order /\ \A i \in Order : i < k => old[SwapOrder[i]] = Absent
  BY <1>1 DEF IInv, Cleanup, Cleaning
<1>3. Found = mem /\ Found' = mem /\ live = target /\ mem.swaps = Len(SwapOrder)
  BY <1>1, <1>2 DEF Found, IInv, Disk
<1>4. Disk'
  BY <1>1, <1>2, <1>3 DEF Disk, history
<1>5. Phases'
  BY <1>1, <1>2 DEF IInv, Phases, Rolling, Cleaning, Installing, Saving, history
<1>6. Rollback' /\ Install' /\ Results'
  BY <1>1, NoResultYet DEF IInv, Rollback, Rolling, Install, Installing, Saving
<1>7. old' \in [Parts -> Contents] /\ \A i \in Order : i <= k => old'[SwapOrder[i]] = Absent
  <2>1. old'[SwapOrder[k]] = Absent /\ old' \in [Parts -> Contents]
    BY <1>1, <1>2, Ordered DEF IInv, TypeOK, Part, Contents
  <2>2. ASSUME NEW i \in Order, i < k PROVE old'[SwapOrder[i]] = Absent
    BY <1>1, <1>2, <2>2, Ordered DEF IInv, TypeOK, Part
  <2> QED BY <1>2, <2>1, <2>2 DEF Order
<1>8. pc' = "clean" => k' \in Order /\ \A i \in Order : i < k' => old'[SwapOrder[i]] = Absent
  BY <1>1, <1>2, <1>3, <1>7, Ordered DEF Order
<1>9. pc' = "cleanSafety" => old' = NothingOld
  <2> SUFFICES ASSUME pc' = "cleanSafety" PROVE old' = NothingOld
    OBVIOUS
  <2>1. \A i \in Order : i <= k
    BY <1>1, <1>2, <1>3, Ordered DEF Order
  <2> QED BY <1>7, <2>1, SameOld
<1>10. Cleanup'
  BY <1>1, <1>2, <1>8, <1>9 DEF Cleanup
<1> QED BY <1>4, <1>5, <1>6, <1>10

LEMMA CleanSafetyKept ==
    ASSUME IInv, CleanSafety
    PROVE  (Disk /\ Phases /\ Rollback /\ Cleanup /\ Install /\ Results)'
<1>1. /\ pc = "cleanSafety" /\ pc' = "forget"
      /\ UNCHANGED <<live, old, safetyBundle, journal, backup, phase, mem, bundle, result, history>>
  BY DEF CleanSafety, At, Go
<1>2. journal = mem /\ backup = NoJournal /\ mem # NoJournal /\ mem.committed /\ old = NothingOld
  BY <1>1 DEF IInv, Cleanup, Cleaning
<1>3. Found = mem /\ Found' = mem /\ live = target /\ mem.swaps = Len(SwapOrder)
  BY <1>1, <1>2 DEF Found, IInv, Disk
<1>4. Disk'
  BY <1>1, <1>2, <1>3 DEF Disk, history
<1>5. Phases'
  BY <1>1, <1>2 DEF IInv, Phases, Rolling, Cleaning, Installing, Saving, history
<1>6. Rollback' /\ Cleanup' /\ Install' /\ Results'
  BY <1>1, <1>2, NoResultYet
     DEF IInv, Rollback, Rolling, Cleanup, Cleaning, Install, Installing, Saving
<1> QED BY <1>4, <1>5, <1>6

LEMMA ForgetJournalKept ==
    ASSUME IInv, ForgetJournal
    PROVE  (Disk /\ Phases /\ Rollback /\ Cleanup /\ Install /\ Results)'
<1>1. /\ pc = "forget" /\ journal' = NoJournal /\ mem' = NoJournal
      /\ UNCHANGED <<live, old, safety, safetyBundle, backup, before, target>>
      /\ phase = "recover" => pc' \in {"up", "begin"} /\ phase' = phase /\ result' = result
      /\ phase # "recover" => /\ pc' = "down" /\ phase' = "recover"
                              /\ result' = IF mem.committed THEN "ok" ELSE "error"
  BY DEF ForgetJournal, At, Go, End, history
<1>2. ~mem.committed => /\ AllUntouched /\ ~Found.committed
                        /\ phase = "recover" => backup = NoJournal
  BY <1>1 DEF IInv, Rollback, Rolling, Phases
<1>3. mem.committed => /\ old = NothingOld /\ backup = NoJournal /\ live = target
  <2>1. mem.committed => /\ old = NothingOld /\ backup = NoJournal
                         /\ Found # NoJournal /\ Found.committed
    BY <1>1 DEF IInv, Cleanup, Cleaning, Found
  <2> QED BY <2>1 DEF IInv, Disk
<1>4. Found' = backup
  BY <1>1 DEF Found
<1>5. Disk'
  <2>1. backup # NoJournal => Undoable(backup)' /\ ~backup.committed
    BY <1>1, <1>2, <1>3 DEF IInv, Disk, Undoable
  <2>2. live \in {before, target} /\ old = NothingOld
    BY <1>2, <1>3 DEF AllUntouched
  <2> QED BY <1>1, <1>4, <2>1, <2>2, Journalled DEF Disk
<1>6. Phases'
  BY <1>1, <1>2, <1>3, Journalled DEF IInv, Phases, TypeOK, Rolling, Cleaning, Installing, Saving
<1>7. Results'
  <2>1. CASE phase = "recover"
    BY <1>1, <2>1, NoResultYet DEF IInv
  <2>2. CASE phase # "recover"
    <3>1. phase = "install" /\ (before[Database] # Absent => safetyBundle = before)
      BY <2>2 DEF IInv, TypeOK, Phases
    <3> QED BY <1>1, <1>2, <1>3, <2>2, <3>1 DEF Results, NoRestore, AllUntouched
  <2> QED BY <2>1, <2>2
<1> QED BY <1>1, <1>5, <1>6, <1>7, Quiet DEF IInv, TypeOK

-----------------------------------------------------------------------------
(* A restore.                                                              *)

LEMMA TakeSafetyKept ==
    ASSUME IInv, TakeSafety
    PROVE  (Disk /\ Phases /\ Rollback /\ Cleanup /\ Install /\ Results)'
<1> DEFINE g == [swaps |-> 0, had |-> {}, hadDatabase |-> live[Database] # Absent,
                 switched |-> FALSE, committed |-> FALSE]
<1>1. /\ pc = "begin" /\ pc' = "save" /\ phase' = "install" /\ mem' = g
      /\ safety' = live[Database] /\ snapshots' = 0 /\ before' = live
      /\ safetyBundle' = (IF live[Database] # Absent THEN live ELSE NoState)
      /\ target' = [p \in DOMAIN live |-> IF p \in bundle \cup {Database} THEN Bundled ELSE Absent]
      /\ UNCHANGED <<live, old, journal, backup, bundle, result>>
  BY DEF TakeSafety, At, Go
<1>2. journal = NoJournal /\ backup = NoJournal /\ Found = NoJournal /\ old = NothingOld
  BY <1>1 DEF IInv, Phases, Found, Disk
<1>3. Disk'
  BY <1>1, <1>2, Journalled DEF Disk, Found
<1>4. DOMAIN live = Parts \cup {Database}
  BY DEF IInv, TypeOK, States
<1>5. Phases'
  BY <1>1, <1>4 DEF Phases, Rolling, Cleaning, Installing, Saving
<1>6. Rollback' /\ Cleanup' /\ Results'
  BY <1>1, NoResultYet DEF IInv, Rollback, Rolling, Cleanup, Cleaning
<1>7. Undoable(mem)'
  <2>1. g \in Journals
    BY Ordered DEF Journals
  <2>2. UndoableFrom(g, live, old, safety', live)
    BY <1>2, <2>1, NothingToUndo DEF IInv, TypeOK
  <2> QED BY <1>1, <2>2 DEF Undoable
<1>8. Swapped1(mem.swaps - 1)'
  BY <1>1 DEF Swapped1, Order
<1>9. Install'
  BY <1>1, <1>2, <1>7, <1>8, Ordered DEF Install, Installing, Saving, AllUntouched, Found
<1> QED BY <1>3, <1>5, <1>6, <1>9

LEMMA SaveJournalKept ==
    ASSUME IInv, SaveJournal
    PROVE  (Disk /\ Phases /\ Rollback /\ Cleanup /\ Install /\ Results)'
<1>1. /\ pc = "save" /\ pc' = "replace" /\ backup' = Found' /\ journal' = NoJournal
      /\ backup' = (IF journal = NoJournal THEN backup ELSE journal)
      /\ UNCHANGED <<live, old, safety, safetyBundle, snapshots, phase, mem, bundle, result, history>>
  BY DEF SaveJournal, At, Go, Found
<1>2. /\ backup' = Found /\ Found' = Found /\ backup = NoJournal
      /\ ~(Found.committed /\ Found # NoJournal)
  BY <1>1 DEF Found, IInv, Install, Installing, Saving
<1>3. Disk'
  BY <1>1, <1>2, DiskKept DEF IInv, history
<1>4. Phases'
  BY <1>1 DEF IInv, Phases, Rolling, Cleaning, Installing, Saving, history
<1>5. Rollback' /\ Cleanup' /\ Results'
  BY <1>1, NoResultYet DEF IInv, Rollback, Rolling, Cleanup, Cleaning
<1>6. /\ Undoable(mem)' <=> Undoable(mem)
      /\ Swapped1(mem.swaps - 1)' <=> Swapped1(mem.swaps - 1)
      /\ Swapped1(mem.swaps)' <=> Swapped1(mem.swaps)
      /\ Untouched(SwapOrder[mem.swaps])' <=> Untouched(SwapOrder[mem.swaps])
      /\ AllUntouched' <=> AllUntouched
  BY <1>1 DEF Undoable, Swapped1, Untouched, AllUntouched, history
<1>7. Install'
  BY <1>1, <1>2, <1>6 DEF IInv, Install, Installing, Saving, history
<1> QED BY <1>3, <1>4, <1>5, <1>7

LEMMA ReplaceJournalKept ==
    ASSUME IInv, ReplaceJournal
    PROVE  (Disk /\ Phases /\ Rollback /\ Cleanup /\ Install /\ Results)'
<1>1. /\ pc = "replace" /\ pc' = "settle" /\ journal' = mem
      /\ UNCHANGED <<live, old, safety, safetyBundle, snapshots, backup, phase, mem, bundle, result, history>>
  BY DEF ReplaceJournal, At, Go
<1>2. /\ journal = NoJournal /\ Found = backup
      /\ ~(Found.committed /\ Found # NoJournal)
      /\ ~mem.committed => Undoable(mem)
      /\ mem.committed => live = target /\ mem.switched
      /\ mem.swaps = 0 => backup = NoJournal
  BY <1>1 DEF Found, IInv, Install, Installing, Saving
<1>3. mem.switched => mem.swaps = Len(SwapOrder)
  BY DEF IInv, Phases
<1>4. mem # NoJournal /\ Found' = mem
  <2>1. mem # NoJournal
    BY <1>2, <1>3, Journalled, Ordered
  <2> QED BY <1>1, <2>1 DEF Found
<1>5. backup # NoJournal => ~backup.committed /\ Undoable(backup)
  BY <1>2 DEF IInv, Disk
<1>6. \A g : Undoable(g)' <=> Undoable(g)
  BY <1>1 DEF Undoable, history
<1>7. Undoable(mem)' <=> Undoable(mem)
  BY <1>1 DEF Undoable, history
<1>8. Disk'
  <2>1. ~mem.committed => Undoable(mem)'
    BY <1>2, <1>7
  <2>2. Found.committed' => live' = target' /\ Found'.swaps = Len(SwapOrder)
    BY <1>1, <1>2, <1>3, <1>4 DEF history
  <2>3. Undoable(Found)' <=> Undoable(mem)
    BY <1>1, <1>4 DEF Undoable, history
  <2> QED BY <1>1, <1>2, <1>4, <1>5, <1>6, <2>2, <2>3 DEF Disk
<1>9. Phases'
  BY <1>1 DEF IInv, Phases, Rolling, Cleaning, Installing, Saving, history
<1>10. Rollback' /\ Cleanup' /\ Results'
  BY <1>1, NoResultYet DEF IInv, Rollback, Rolling, Cleanup, Cleaning
<1>11. /\ Swapped1(mem.swaps - 1)' <=> Swapped1(mem.swaps - 1)
       /\ Swapped1(mem.swaps)' <=> Swapped1(mem.swaps)
       /\ Untouched(SwapOrder[mem.swaps])' <=> Untouched(SwapOrder[mem.swaps])
       /\ AllUntouched' <=> AllUntouched
  BY <1>1 DEF Swapped1, Untouched, AllUntouched, history
<1>12. Install'
  BY <1>1, <1>4, <1>7, <1>11 DEF IInv, Install, Installing, Saving, history
<1> QED BY <1>8, <1>9, <1>10, <1>12

LEMMA SettleJournalKept ==
    ASSUME IInv, SettleJournal
    PROVE  (Disk /\ Phases /\ Rollback /\ Cleanup /\ Install /\ Results)'
<1>1. /\ pc = "settle" /\ backup' = NoJournal
      /\ mem.committed => pc' = "clean" /\ k' = 1
      /\ ~mem.committed /\ mem.switched => pc' = "switch"
      /\ ~mem.committed /\ ~mem.switched /\ mem.swaps = 0 => pc' = "record"
      /\ ~mem.committed /\ ~mem.switched /\ mem.swaps # 0 => pc' = "moveOut"
      /\ UNCHANGED <<live, old, safety, safetyBundle, snapshots, journal, phase, mem, bundle, result, history>>
  BY DEF SettleJournal, At, Go
<1>2. journal = mem /\ (mem.committed => mem.switched) /\ mem.swaps \in Nat
  BY <1>1, Journalled DEF IInv, TypeOK, Install, Installing, Saving
<1>3. mem # NoJournal /\ Found = mem /\ Found' = mem
  <2>1. mem # NoJournal
    BY <1>2, Journalled, Ordered DEF IInv, Phases
  <2> QED BY <1>1, <1>2, <2>1 DEF Found
<1>4. Disk'
  BY <1>1, <1>3, DiskKept DEF IInv, history
<1>5. Phases'
  BY <1>1, <1>2 DEF IInv, Phases, Rolling, Cleaning, Installing, Saving, history
<1>6. Results'
  BY <1>1, NoResultYet DEF IInv
<1>7. Rollback'
  BY <1>1 DEF Rollback, Rolling
<1>8. Cleanup'
  BY <1>1, <1>2, <1>3, Ordered DEF Cleanup, Cleaning, Order
<1>9. /\ Undoable(mem)' <=> Undoable(mem)
      /\ Swapped1(mem.swaps - 1)' <=> Swapped1(mem.swaps - 1)
      /\ Swapped1(mem.swaps)' <=> Swapped1(mem.swaps)
      /\ Untouched(SwapOrder[mem.swaps])' <=> Untouched(SwapOrder[mem.swaps])
      /\ AllUntouched' <=> AllUntouched
  BY <1>1 DEF Undoable, Swapped1, Untouched, AllUntouched, history
<1>10. mem.swaps = 0 => Swapped1(mem.swaps)
  BY DEF Swapped1, Order
<1>11. Install'
  BY <1>1, <1>2, <1>3, <1>9, <1>10 DEF IInv, Install, Installing, Saving, history
<1> QED BY <1>4, <1>5, <1>6, <1>7, <1>8, <1>11

LEMMA RecordNextKept ==
    ASSUME IInv, RecordNext
    PROVE  (Disk /\ Phases /\ Rollback /\ Cleanup /\ Install /\ Results)'
<1> DEFINE next == SwapOrder[mem.swaps + 1]
<1>1. /\ pc = "record" /\ pc' = "save"
      /\ mem.swaps = Len(SwapOrder) => mem' = [mem EXCEPT !.switched = TRUE]
      /\ mem.swaps # Len(SwapOrder) =>
             mem' = [mem EXCEPT !.swaps = @ + 1,
                                !.had = IF live[next] = Absent THEN @ ELSE @ \cup {next}]
      /\ UNCHANGED <<live, old, safety, safetyBundle, snapshots, journal, backup, phase, bundle, result, history>>
  BY DEF RecordNext, At, Go, disk
<1>2. /\ Undoable(mem) /\ Swapped1(mem.swaps) /\ ~mem.switched /\ ~mem.committed
      /\ journal = mem /\ backup = NoJournal /\ safety = before[Database] /\ snapshots <= 0
  BY <1>1 DEF IInv, Install, Installing, Saving
<1>3. /\ mem \in Journals /\ mem.swaps \in Nat /\ mem # NoJournal
      /\ mem.swaps # Len(SwapOrder) => mem.swaps < Len(SwapOrder)
  BY <1>2, Journalled, Ordered DEF IInv, TypeOK
<1>4. Found = mem /\ Found' = mem
  BY <1>1, <1>2, <1>3 DEF Found
<1>5. Disk'
  BY <1>1, <1>2, <1>4, DiskKept DEF IInv, history
<1>6. Rollback' /\ Cleanup' /\ Results'
  BY <1>1, NoResultYet DEF IInv, Rollback, Rolling, Cleanup, Cleaning
<1>7. CASE mem.swaps = Len(SwapOrder)
  <2>1. /\ mem'.switched /\ mem'.swaps = mem.swaps /\ mem'.had = mem.had
        /\ mem'.hadDatabase = mem.hadDatabase /\ mem'.committed = mem.committed
    BY <1>1, <1>3, <1>7 DEF Journals
  <2>2. Undoable(mem)'
    BY <1>1, <1>2, <1>7, <2>1 DEF Undoable, UndoableFrom, SwapUndone, history
  <2>3. Swapped1(mem.swaps)'
    BY <1>1, <1>2, <2>1 DEF Swapped1, history
  <2>4. Phases'
    BY <1>1, <1>7, <2>1 DEF IInv, Phases, Rolling, Cleaning, Installing, Saving, history
  <2>5. Install'
    BY <1>1, <1>2, <1>3, <1>4, <1>7, <2>1, <2>2, <2>3, Ordered
       DEF Install, Installing, Saving, history
  <2> QED BY <1>5, <1>6, <2>4, <2>5
<1>8. CASE mem.swaps # Len(SwapOrder)
  <2>1. /\ mem'.swaps = mem.swaps + 1 /\ mem'.switched = mem.switched
        /\ mem'.had = IF live[next] = Absent THEN mem.had ELSE mem.had \cup {next}
        /\ mem'.hadDatabase = mem.hadDatabase /\ mem'.committed = mem.committed
    BY <1>1, <1>3, <1>8 DEF Journals
  <2>2. next \in Parts
    BY <1>3, <1>8, Ordered DEF Order
  <2>3. mem' \in Journals
    BY <1>1, <1>3, <1>8, <2>1, <2>2, Ordered DEF Journals
  <2>4. /\ UndoableFrom(mem', live, old, safety, before)
        /\ live[next] = before[next] /\ old[next] = Absent
    <3>1. UndoableFrom(mem, live, old, safety, before)
      BY <1>2 DEF Undoable
    <3>2. mem'.had = IF live[SwapOrder[mem'.swaps]] = Absent THEN mem.had
                     ELSE mem.had \cup {SwapOrder[mem'.swaps]}
      BY <2>1
    <3>3. live \in States /\ old \in [Parts -> Contents] /\ before \in States
      BY DEF IInv, TypeOK
    <3>4. /\ UndoableFrom(mem', live, old, safety, before)
          /\ live[SwapOrder[mem'.swaps]] = before[SwapOrder[mem'.swaps]]
          /\ old[SwapOrder[mem'.swaps]] = Absent
      <4>1. RecordsSwap(mem, mem', live)
        BY <2>1, <3>2 DEF RecordsSwap
      <4> QED BY <1>2, <1>3, <1>8, <2>3, <3>1, <3>3, <4>1, Recorded
    <3> QED BY <2>1, <3>4
  <2>5. Undoable(mem)' /\ Untouched(SwapOrder[mem.swaps])'
    BY <1>1, <2>1, <2>4 DEF Undoable, Untouched, history
  <2>6. Swapped1(mem.swaps - 1)'
    <3>1. mem'.swaps - 1 = mem.swaps
      BY <1>3, <2>1
    <3> QED BY <1>1, <1>2, <3>1 DEF Swapped1, history
  <2>7. Phases'
    BY <1>1, <1>2, <2>1 DEF IInv, Phases, Rolling, Cleaning, Installing, Saving, history
  <2>8. Install'
    BY <1>1, <1>2, <1>3, <1>4, <2>1, <2>5, <2>6 DEF Install, Installing, Saving, history
  <2> QED BY <1>5, <1>6, <2>7, <2>8
<1> QED BY <1>7, <1>8

\* A swap leaves the journal alone; what it must keep is that it can be undone.
LEMMA SwappingKept ==
    ASSUME IInv, pc \in {"moveOut", "moveIn"}, pc' \in {"moveIn", "record"},
           UNCHANGED <<safety, safetyBundle, snapshots, journal, backup, phase, mem, bundle, result, history>>,
           Undoable(mem)',
           pc' = "moveIn" => /\ mem.swaps > 0 /\ ~mem.switched /\ Swapped1(mem.swaps - 1)'
                             /\ live'[SwapOrder[mem.swaps]] = Absent,
           pc' = "record" => Swapped1(mem.swaps)' /\ ~mem.switched /\ mem.swaps > 0
    PROVE  (Disk /\ Phases /\ Rollback /\ Cleanup /\ Install /\ Results)'
<1>1. /\ journal = mem /\ backup = NoJournal /\ ~mem.committed /\ ~mem.switched /\ mem # NoJournal
      /\ safety = before[Database]
  BY Journalled DEF IInv, Install, Installing, Saving
<1>2. Found' = mem /\ Found' = mem'
  BY <1>1 DEF Found
<1>3. Undoable(Found)' <=> Undoable(mem)'
  BY <1>2 DEF Undoable
<1>4. Disk'
  BY <1>1, <1>2, <1>3 DEF Disk
<1>5. Phases'
  BY DEF IInv, Phases, Rolling, Cleaning, Installing, Saving, history
<1>6. Rollback' /\ Cleanup'
  BY DEF Rollback, Rolling, Cleanup, Cleaning
<1>7. Results'
  BY NoResultYet DEF IInv
<1>8. Install'
  BY <1>1, <1>2, Journalled, Ordered DEF IInv, TypeOK, Install, Installing, Saving, history
<1> QED BY <1>4, <1>5, <1>6, <1>7, <1>8

LEMMA MoveOutKept ==
    ASSUME IInv, MoveOut
    PROVE  (Disk /\ Phases /\ Rollback /\ Cleanup /\ Install /\ Results)'
<1>1. /\ pc = "moveOut" /\ pc' = "moveIn"
      /\ Swapped \in mem.had => /\ old' = [old EXCEPT ![Swapped] = live[Swapped]]
                                /\ live' = [live EXCEPT ![Swapped] = Absent]
      /\ Swapped \notin mem.had => UNCHANGED <<old, live>>
      /\ UNCHANGED <<safety, safetyBundle, snapshots, journal, backup, phase, mem, bundle, result, history>>
  BY DEF MoveOut, At, Go
<1>2. /\ Undoable(mem) /\ Swapped1(mem.swaps - 1) /\ ~mem.switched /\ mem.swaps > 0
      /\ Untouched(SwapOrder[mem.swaps])
  BY <1>1, Journalled DEF IInv, TypeOK, Install, Installing, Saving, Undoable, UndoableFrom
<1>3. /\ mem.swaps \in Order /\ mem.swaps \in Nat /\ Swapped \in Parts
      /\ Swapped = SwapOrder[mem.swaps] /\ mem.swaps <= mem.swaps
  BY <1>2, Journalled, Ordered DEF IInv, TypeOK, Swapped, Order
<1>4. /\ live \in States /\ old \in [Parts -> Contents] /\ before \in States /\ mem \in Journals
  BY DEF IInv, TypeOK
<1>5. UndoableFrom(mem, live, old, safety, before) /\ live[Swapped] = before[Swapped]
  BY <1>2, <1>3 DEF Undoable, Untouched
<1>6. UndoableFrom(mem, live', old', safety, before)
  <2>1. Swapped \in mem.had =>
            UndoableFrom(mem, [live EXCEPT ![SwapOrder[mem.swaps]] = Absent],
                         [old EXCEPT ![SwapOrder[mem.swaps]] = live[SwapOrder[mem.swaps]]],
                         safety, before)
    BY <1>2, <1>3, <1>4, <1>5, MovedOut
  <2> QED BY <1>1, <1>3, <1>5, <2>1
<1>7. live'[Swapped] = Absent
  <2>1. Swapped \notin mem.had => before[Swapped] = Absent
    BY <1>3, <1>5 DEF UndoableFrom, SwapUndone
  <2> QED BY <1>1, <1>3, <1>4, <1>5, <2>1 DEF States
<1>8. Swapped1(mem.swaps - 1)'
  <2>1. ASSUME NEW i \in Order, i <= mem.swaps - 1
        PROVE  live'[SwapOrder[i]] = live[SwapOrder[i]]
    <3>1. SwapOrder[i] \in Parts /\ SwapOrder[i] # Swapped
      BY <1>3, <2>1, Ordered DEF Order
    <3> QED BY <1>1, <1>3, <1>4, <3>1 DEF States
  <2> QED BY <1>1, <1>2, <2>1 DEF Swapped1, history
<1>9. Undoable(mem)'
  BY <1>1, <1>6 DEF Undoable, history
<1> QED BY <1>1, <1>2, <1>3, <1>7, <1>8, <1>9, SwappingKept

LEMMA MoveInKept ==
    ASSUME IInv, MoveIn
    PROVE  (Disk /\ Phases /\ Rollback /\ Cleanup /\ Install /\ Results)'
<1>1. /\ pc = "moveIn" /\ pc' = "record"
      /\ live' = IF Swapped \in bundle THEN [live EXCEPT ![Swapped] = Bundled] ELSE live
      /\ UNCHANGED <<old, safety, safetyBundle, snapshots, journal, backup, phase, mem, bundle, result, history>>
  BY DEF MoveIn, At, Go
<1>2. /\ Undoable(mem) /\ Swapped1(mem.swaps - 1) /\ ~mem.switched /\ mem.swaps > 0
      /\ live[SwapOrder[mem.swaps]] = Absent /\ phase = "install"
  BY <1>1, Journalled
     DEF IInv, TypeOK, Phases, Install, Installing, Saving, Undoable, UndoableFrom
<1>3. /\ mem.swaps \in Order /\ mem.swaps \in Nat /\ Swapped \in Parts
      /\ Swapped = SwapOrder[mem.swaps] /\ mem.swaps <= mem.swaps
  BY <1>2, Journalled, Ordered DEF IInv, TypeOK, Swapped, Order
<1>4. /\ live \in States /\ old \in [Parts -> Contents] /\ before \in States /\ mem \in Journals
  BY DEF IInv, TypeOK
<1>5. UndoableFrom(mem, live, old, safety, before)
  BY <1>2 DEF Undoable
<1>6. Swapped \in mem.had => old[Swapped] = before[Swapped]
  BY <1>2, <1>3, <1>5 DEF UndoableFrom, SwapUndone
<1>7. UndoableFrom(mem, live', old, safety, before)
  <2>1. UndoableFrom(mem, [live EXCEPT ![SwapOrder[mem.swaps]] = Bundled], old, safety, before)
    BY <1>2, <1>3, <1>4, <1>5, <1>6, PutThere
  <2> QED BY <1>1, <1>3, <1>5, <2>1
<1>8. target = [p \in Parts \cup {Database} |->
                    IF p \in bundle \cup {Database} THEN Bundled ELSE Absent]
  BY <1>2 DEF IInv, Phases
<1>9. live'[Swapped] = target[Swapped]
  BY <1>1, <1>2, <1>3, <1>4, <1>8, Ordered DEF States
<1>10. Swapped1(mem.swaps)'
  <2>1. ASSUME NEW i \in Order, i <= mem.swaps PROVE live'[SwapOrder[i]] = target[SwapOrder[i]]
    <3>1. CASE i = mem.swaps
      BY <1>3, <1>9, <3>1
    <3>2. CASE i # mem.swaps
      <4>1. i <= mem.swaps - 1 /\ SwapOrder[i] \in Parts /\ SwapOrder[i] # Swapped
        BY <1>3, <2>1, <3>2, Ordered DEF Order
      <4>2. live'[SwapOrder[i]] = live[SwapOrder[i]]
        BY <1>1, <1>3, <1>4, <4>1 DEF States
      <4> QED BY <1>2, <4>1, <4>2 DEF Swapped1
    <3> QED BY <3>1, <3>2
  <2> QED BY <1>1, <2>1 DEF Swapped1, history
<1>11. Undoable(mem)'
  BY <1>1, <1>7 DEF Undoable, history
<1> QED BY <1>1, <1>2, <1>10, <1>11, SwappingKept

LEMMA SwitchDatabaseKept ==
    ASSUME IInv, SwitchDatabase
    PROVE  (Disk /\ Phases /\ Rollback /\ Cleanup /\ Install /\ Results)'
<1>1. /\ pc = "switch" /\ pc' = "prune" /\ (snapshots' = snapshots \/ snapshots' = snapshots + 1)
      /\ UNCHANGED <<live, old, safety, safetyBundle, journal, backup, phase, mem, bundle, result,
                     history>>
  BY DEF SwitchDatabase, SnapshotTaken, At, Go
<1>2. /\ journal = mem /\ backup = NoJournal /\ safety = before[Database] /\ snapshots <= 0
      /\ snapshots \in Nat
  BY <1>1 DEF IInv, TypeOK, Install, Installing, Saving
<1>3. Found' = Found
  BY <1>1 DEF Found
<1>4. Disk'
  BY <1>1, <1>2, <1>3, DiskKept DEF IInv, history
<1>5. Phases'
  BY <1>1 DEF IInv, Phases, Rolling, Cleaning, Installing, Saving, history
<1>6. Rollback' /\ Cleanup' /\ Results'
  BY <1>1, NoResultYet DEF IInv, Rollback, Rolling, Cleanup, Cleaning
<1>7. /\ Undoable(mem)' <=> Undoable(mem)
      /\ Swapped1(mem.swaps)' <=> Swapped1(mem.swaps)
      /\ AllUntouched' <=> AllUntouched
  BY <1>1 DEF Undoable, Swapped1, AllUntouched, history
<1>8. snapshots' <= 1
  BY <1>1, <1>2
<1>9. Install'
  BY <1>1, <1>2, <1>3, <1>7, <1>8 DEF IInv, Install, Installing, Saving, history
<1> QED BY <1>4, <1>5, <1>6, <1>9

LEMMA CopyDatabaseKept ==
    ASSUME IInv, CopyDatabase
    PROVE  (Disk /\ Phases /\ Rollback /\ Cleanup /\ Install /\ Results)'
<1>1. /\ pc = "copy" /\ pc' = "save" /\ live' = [live EXCEPT ![Database] = Bundled]
      /\ mem' = [mem EXCEPT !.committed = TRUE]
      /\ UNCHANGED <<old, safety, safetyBundle, snapshots, journal, backup, phase, bundle, result, history>>
  BY DEF CopyDatabase, At, Go
<1>2. /\ Undoable(mem) /\ Swapped1(mem.swaps) /\ mem.switched /\ ~mem.committed
      /\ journal = mem /\ backup = NoJournal /\ safety = before[Database] /\ snapshots <= 1
  BY <1>1 DEF IInv, Install, Installing, Saving
<1>3. phase = "install" /\ mem.swaps = Len(SwapOrder)
  BY <1>1, <1>2 DEF IInv, Phases, Installing, Saving
<1>4. /\ mem'.committed /\ mem'.switched /\ mem'.swaps = mem.swaps
      /\ mem # NoJournal /\ Found = mem /\ Found' = mem
  <2>1. mem # NoJournal
    BY <1>2, Journalled
  <2>2. mem'.committed /\ mem'.switched /\ mem'.swaps = mem.swaps
    BY <1>1, <1>2 DEF IInv, TypeOK, Journals
  <2> QED BY <1>1, <1>2, <2>1, <2>2 DEF Found
<1>5. live' = target
  <2>1. target[Database] = Bundled /\ live'[Database] = Bundled
    BY <1>1, <1>3 DEF IInv, TypeOK, Phases, States
  <2>2. \A i \in Order : live'[SwapOrder[i]] = target[SwapOrder[i]]
    BY <1>1, <1>2, <1>3, Ordered DEF IInv, TypeOK, States, Swapped1, Order
  <2>3. live' \in States
    BY <1>1, Setting DEF IInv, TypeOK, Contents
  <2> QED BY <2>1, <2>2, <2>3, Same DEF IInv, TypeOK
<1>6. Undoable(Found)'
  <2>1. UndoableFrom(mem, [live EXCEPT ![Database] = Bundled], old, safety, before)
    BY <1>2, DatabasePut DEF IInv, TypeOK, Undoable
  <2> QED BY <1>1, <1>4, <2>1 DEF Undoable, history
<1>7. Disk'
  BY <1>1, <1>2, <1>4, <1>6 DEF Disk
<1>8. Phases'
  BY <1>1, <1>3, <1>4 DEF IInv, Phases, Rolling, Cleaning, Installing, Saving, history
<1>9. Rollback' /\ Cleanup' /\ Results'
  BY <1>1, NoResultYet DEF IInv, Rollback, Rolling, Cleanup, Cleaning
<1>10. Swapped1(mem.swaps)'
  BY <1>1, <1>4, <1>5 DEF Swapped1, history
<1>11. Install'
  BY <1>1, <1>2, <1>3, <1>4, <1>5, <1>10, Ordered DEF Install, Installing, Saving, history
<1> QED BY <1>7, <1>8, <1>9, <1>11

\* What a failed operation has done leaves the journal to find as it is.
LEMMA FailedEffectKept ==
    ASSUME IInv, FailedEffect, UNCHANGED history
    PROVE  /\ Disk' /\ Found' = Found
           /\ backup' \in {NoJournal, backup, Found}
           /\ pc \notin {"copy", "undoCopy"} => live' = live
           /\ live'[Database] = live[Database] \/ safety = before[Database]
                                              \/ live'[Database] = before[Database]
           /\ old' = old /\ UNCHANGED <<safety, safetyBundle, snapshots>>
           /\ Undoable(mem) => UndoableFrom(mem, live', old', safety', before)
<1>1. CASE UNCHANGED disk
  <2>1. Disk'
    BY <1>1, DiskKept DEF IInv, Disk, disk, history, Found
  <2> QED BY <1>1, <2>1 DEF disk, Found, Undoable
<1>2. CASE /\ At("replace") /\ backup # NoJournal /\ journal' = backup /\ backup' = NoJournal
           /\ UNCHANGED <<live, old, safety, safetyBundle, snapshots>>
  <2>1. Found = backup /\ Found' = backup
    BY <1>2 DEF At, IInv, Install, Installing, Saving, Found
  <2>2. Disk'
    BY <1>2, <2>1, DiskKept DEF IInv, history
  <2> QED BY <1>2, <2>1, <2>2 DEF Undoable
<1>3. CASE /\ pc \in {"copy", "undoCopy"}
           /\ live' = [live EXCEPT ![Database] = IF At("copy") THEN Bundled ELSE staged]
           /\ UNCHANGED <<old, safety, safetyBundle, snapshots, journal, backup>>
  <2>1. /\ Undoable(mem) /\ mem.switched
        /\ pc = "copy" => journal = mem /\ backup = NoJournal /\ safety = before[Database]
        /\ pc = "undoCopy" => Found # NoJournal /\ staged = before[Database]
    BY <1>3 DEF IInv, Install, Installing, Saving, Rollback, Rolling
  <2>2. Found # NoJournal /\ ~Found.committed /\ Found' = Found
    BY <1>3, <2>1, Journalled DEF Found, Undoable, UndoableFrom, IInv, Rollback, Rolling
  <2>3. ASSUME NEW g \in Journals, Undoable(g), pc = "undoCopy" \/ g = mem
        PROVE  UndoableFrom(g, live', old, safety, before)
    BY <1>3, <2>1, <2>3, DatabasePut DEF IInv, TypeOK, Undoable, At
  <2>4. Undoable(Found)' /\ (backup # NoJournal => Undoable(backup)')
    <3>1. Found \in Journals /\ backup \in Journals /\ Undoable(Found)
      BY <2>2, FoundOnDisk DEF IInv, TypeOK, Disk
    <3>2. pc = "copy" => Found = mem /\ backup = NoJournal
      BY <2>1, <2>2 DEF Found
    <3>3. backup # NoJournal => Undoable(backup)
      BY <2>2 DEF IInv, Disk
    <3> QED BY <1>3, <2>2, <2>3, <3>1, <3>2, <3>3 DEF Undoable, history
  <2>5. Disk'
    BY <1>3, <2>2, <2>4 DEF IInv, Disk
  <2>6. live'[Database] = before[Database] \/ safety = before[Database]
    BY <1>3, <2>1, Ordered DEF IInv, TypeOK, States, At
  <2>7. UndoableFrom(mem, live', old', safety', before)
    BY <1>3, <2>1, <2>3 DEF IInv, TypeOK
  <2> QED BY <1>3, <2>2, <2>5, <2>6, <2>7
<1> QED BY <1>1, <1>2, <1>3 DEF FailedEffect

LEMMA InstallFailsKept ==
    ASSUME IInv, InstallFails
    PROVE  (Disk /\ Phases /\ Rollback /\ Cleanup /\ Install /\ Results)'
<1>1. /\ pc \in {"save", "replace", "settle", "moveOut", "moveIn", "switch", "prune", "copy"}
      /\ Installing
      /\ mem.swaps > 0 /\ ~mem.committed /\ FailedEffect /\ pc' = "undoDatabase"
      /\ UNCHANGED <<phase, mem, bundle, result, history>>
  BY DEF InstallFails, Go, Installing, Saving
<1>2. Found # NoJournal /\ ~Found.committed /\ phase = "install"
  BY <1>1 DEF IInv, Install, Phases
<1>3. /\ Disk' /\ Found' = Found /\ safetyBundle' = safetyBundle
      /\ Undoable(mem) => UndoableFrom(mem, live', old', safety', before)
  BY <1>1, FailedEffectKept
<1>4. Undoable(mem)
  BY <1>1 DEF IInv, Install
<1>5. Undoable(mem)'
  BY <1>1, <1>3, <1>4 DEF Undoable, history
<1>6. Rollback'
  BY <1>1, <1>2, <1>3, <1>5 DEF Rollback
<1>7. Phases'
  BY <1>1, <1>2, <1>3 DEF IInv, Phases, Rolling, Cleaning, Installing, Saving, history
<1>8. Cleanup' /\ Install' /\ Results'
  BY <1>1, NoResultYet DEF IInv, Cleanup, Cleaning, Install, Installing, Saving
<1> QED BY <1>3, <1>6, <1>7, <1>8

LEMMA GivesUpKept ==
    ASSUME IInv, GivesUp
    PROVE  (Disk /\ Phases /\ Rollback /\ Cleanup /\ Install /\ Results)'
<1>1. /\ FailedEffect /\ pc' = "down" /\ phase' = "recover" /\ mem' = NoJournal
      /\ result' = (IF phase = "install" THEN "error" ELSE "none")
      /\ UNCHANGED history
      /\ \/ pc \in {"look", "begin", "undoDatabase", "undoPrune", "undoCopy", "undo", "undoNew",
                    "clean", "cleanSafety", "forget"}
         \/ pc \in {"save", "replace", "settle"} /\ (mem.swaps = 0 \/ mem.committed)
  BY DEF GivesUp, End, Go
<1>2. pc # "copy" /\ (pc = "undoCopy" => Rolling)
  BY <1>1 DEF Rolling
<1>3. /\ Disk' /\ Found' = Found /\ backup' \in {NoJournal, backup, Found}
      /\ live' = live \/ Rolling
      /\ old' = old
  BY <1>1, <1>2, FailedEffectKept
<1>4. \/ pc \in {"look", "begin"} \/ Rolling \/ Cleaning
      \/ Saving /\ (mem.swaps = 0 \/ mem.committed)
  BY <1>1 DEF Rolling, Cleaning, Saving
<1>5. before' = before
  BY <1>1 DEF history
<1> QED BY <1>1, <1>3, <1>4, <1>5, EndedKept

-----------------------------------------------------------------------------
(* The copies of the database.                                             *)

\* A restore that runs has made them.
LEMMA MadeSafe == IInv /\ Installing => Safe
  BY DEF IInv, Phases, Install, Safe

\* They serve as long as nobody removes them and the database is as it was or back.
LEMMA StaysSafe ==
    ASSUME Safe, UNCHANGED <<before, safety, safetyBundle>>,
           snapshots' = snapshots \/ snapshots # Retention,
           live'[Database] \in {live[Database], before[Database]}
    PROVE  Safe'
  BY DEF Safe

LEMMA CopiesKept ==
    ASSUME IInv, Next
    PROVE  Copies'
<1>1. Copies /\ (Uncommitted \/ Installing => Safe)
  BY MadeSafe DEF IInv, Copies
<1>2. CASE Start \/ \E parts \in SUBSET Parts : StartRestore(parts)
  BY <1>1, <1>2 DEF Start, StartRestore, disk, history, Copies, Uncommitted, Found, Safe
<1>3. CASE \E p \in Parts \cup {Database}, v \in Versions \cup {Absent} : Use(p, v)
  BY <1>3 DEF Use, At, IInv, Phases, Copies, Uncommitted, Found
<1>4. CASE Stop \/ RollbackRefused
  BY <1>1, <1>4 DEF Stop, RollbackRefused, End, disk, history, Copies, Uncommitted, Found, Safe
<1>5. CASE LookAtJournal
  BY <1>1, <1>5 DEF LookAtJournal, history, Copies, Uncommitted, Found, Safe
<1>6. CASE UndoDatabase
  <2>1. Uncommitted
    BY <1>6 DEF UndoDatabase, At, IInv, Rollback, Rolling, Uncommitted
  <2>2. UNCHANGED <<before, safety, safetyBundle, live>> /\ (snapshots' = snapshots \/ snapshots # Retention)
    BY <1>6 DEF UndoDatabase, SnapshotTaken, history
  <2> QED BY <1>1, <2>1, <2>2, StaysSafe DEF Copies
<1>7. CASE PruneSnapshots
  <2>1. Uncommitted \/ Installing
    BY <1>7 DEF PruneSnapshots, At, IInv, Rollback, Rolling, Uncommitted, Installing
  <2> QED BY <1>1, <1>7, <2>1 DEF PruneSnapshots, history, Copies, Safe
<1>8. CASE CopyBack
  <2>1. Uncommitted /\ staged = before[Database]
    BY <1>8 DEF CopyBack, At, IInv, Rollback, Rolling, Uncommitted
  <2>2. live'[Database] = before[Database] /\ UNCHANGED <<before, safety, safetyBundle, snapshots>>
    BY <1>8, <2>1 DEF CopyBack, IInv, TypeOK, States, history
  <2> QED BY <1>1, <2>1, <2>2, StaysSafe DEF Copies
<1>9. CASE UndoSwap
  <2>1. Uncommitted /\ k \in Order
    BY <1>9, Ordered DEF UndoSwap, At, IInv, TypeOK, Rollback, Rolling, Uncommitted, Order
  <2>2. Part # Database
    BY <2>1, Ordered DEF Part
  <2>3. live'[Database] = live[Database] /\ UNCHANGED <<before, safety, safetyBundle, snapshots>>
    BY <1>9, <2>2 DEF UndoSwap, IInv, TypeOK, States, history
  <2> QED BY <1>1, <2>1, <2>3, StaysSafe DEF Copies
<1>10. CASE UndoSafety
  <2>1. /\ Uncommitted /\ Undoable(mem) /\ (mem.hadDatabase => live[Database] = before[Database])
        /\ UNCHANGED <<before, safetyBundle, live>> /\ safety' = Absent
    BY <1>10 DEF UndoSafety, At, IInv, Rollback, Rolling, Uncommitted, history
  <2>2. ~mem.hadDatabase => before[Database] = Absent
    BY <2>1 DEF Undoable, UndoableFrom
  <2> QED BY <1>1, <2>1, <2>2 DEF Copies, Safe
<1>11. CASE UndoNew
  <2>1. /\ Uncommitted /\ Undoable(mem) /\ (mem.hadDatabase => live[Database] = before[Database])
        /\ UNCHANGED <<before, safety, safetyBundle, snapshots>>
        /\ live' = IF mem.hadDatabase THEN live ELSE [live EXCEPT ![Database] = Absent]
    BY <1>11 DEF UndoNew, At, IInv, Rollback, Rolling, Uncommitted, history
  <2>2. ~mem.hadDatabase => before[Database] = Absent
    BY <2>1 DEF Undoable, UndoableFrom
  <2>3. live'[Database] = before[Database]
    BY <2>1, <2>2 DEF IInv, TypeOK, States
  <2> QED BY <1>1, <2>1, <2>3, StaysSafe DEF Copies
<1>12. CASE CleanOld \/ CleanSafety
  <2>1. Cleaning /\ UNCHANGED <<journal, backup>>
    BY <1>12 DEF CleanOld, CleanSafety, At, Cleaning
  <2> QED BY <2>1 DEF IInv, Cleanup, Found, Copies, Uncommitted
<1>13. CASE ForgetJournal
  <2>1. /\ pc = "forget" /\ journal' = NoJournal
        /\ UNCHANGED <<live, safety, safetyBundle, snapshots, backup, before>>
    BY <1>13 DEF ForgetJournal, At, history
  <2>2. Uncommitted' => Uncommitted
    BY <2>1 DEF IInv, Rollback, Rolling, Cleanup, Cleaning, Found, Uncommitted
  <2> QED BY <1>1, <2>1, <2>2 DEF Copies, Safe
<1>14. CASE TakeSafety
  BY <1>14 DEF TakeSafety, At, IInv, Phases, Copies, Uncommitted, Found
<1>15. CASE SaveJournal \/ ReplaceJournal \/ SettleJournal \/ RecordNext
  <2>1. Installing /\ UNCHANGED <<live, safety, safetyBundle, snapshots, before>>
    BY <1>15 DEF SaveJournal, ReplaceJournal, SettleJournal, RecordNext, At, Installing, Saving,
                 disk, history
  <2> QED BY <1>1, <2>1 DEF Copies, Safe
<1>16. CASE MoveOut \/ MoveIn \/ SwitchDatabase \/ CopyDatabase
  <2>1. /\ Installing /\ safety' = safety /\ safetyBundle' = safetyBundle /\ before' = before
    BY <1>16 DEF MoveOut, MoveIn, SwitchDatabase, CopyDatabase, At, Installing, history
  <2>2. safety = before[Database]
    BY <2>1 DEF IInv, Install
  <2> QED BY <1>1, <2>1, <2>2 DEF Copies, Safe
<1>17. CASE InstallFails \/ GivesUp
  <2>1. FailedEffect /\ UNCHANGED history
    BY <1>17 DEF InstallFails, GivesUp
  <2>2. /\ Found' = Found /\ UNCHANGED <<safety, safetyBundle, snapshots>>
        /\ \/ live'[Database] = live[Database] \/ safety = before[Database]
           \/ live'[Database] = before[Database]
    BY <2>1, FailedEffectKept
  <2> QED BY <1>1, <2>1, <2>2 DEF Copies, Uncommitted, Safe, history
<1> QED BY <1>2, <1>3, <1>4, <1>5, <1>6, <1>7, <1>8, <1>9, <1>10, <1>11, <1>12, <1>13, <1>14,
           <1>15, <1>16, <1>17 DEF Next

-----------------------------------------------------------------------------
(* The invariant, and what follows from it.                                *)

LEMMA InitInv == Init => IInv
<1> SUFFICES ASSUME Init PROVE IInv
  OBVIOUS
<1>1. /\ journal = NoJournal /\ backup = NoJournal /\ mem = NoJournal /\ live = before
      /\ old = NothingOld /\ pc = "down" /\ phase = "recover" /\ result = "none"
  BY DEF Init
<1>2. Disk /\ Copies
  BY <1>1, Journalled DEF Disk, Found, Copies, Uncommitted
<1>3. Phases /\ Rollback /\ Cleanup /\ Install /\ Results
  BY <1>1, Journalled
     DEF Phases, Rollback, Cleanup, Install, Results, Rolling, Cleaning, Installing, Saving
<1> QED BY <1>2, <1>3, InitType DEF IInv

LEMMA StepInv == IInv /\ [Next]_vars => IInv'
<1> SUFFICES ASSUME IInv, [Next]_vars PROVE IInv'
  OBVIOUS
<1>1. TypeOK'
  BY TypeKept DEF IInv
<1>2. CASE UNCHANGED vars
  <2>1. /\ live' = live /\ old' = old /\ safety' = safety /\ safetyBundle' = safetyBundle
        /\ snapshots' = snapshots /\ staged' = staged /\ journal' = journal /\ backup' = backup /\ pc' = pc /\ phase' = phase /\ mem' = mem
        /\ k' = k /\ bundle' = bundle /\ result' = result /\ before' = before
        /\ target' = target /\ refused' = refused
    BY <1>2 DEF vars, disk, process, history
  <2>7. Found' = Found /\ Rolling' = Rolling /\ Cleaning' = Cleaning /\ Saving' = Saving
    BY <2>1 DEF Found, Rolling, Cleaning, Saving
  <2>8. /\ Undoable(mem)' = Undoable(mem) /\ Undoable(Found)' = Undoable(Found)
        /\ Undoable(backup)' = Undoable(backup)
    BY <2>1, <2>7 DEF Undoable
  <2>9. NoRestore' = NoRestore
    BY <2>1 DEF NoRestore
  <2>2. Disk' /\ Phases'
    <3>1. Disk'
      BY <2>1, <2>7, <2>8 DEF IInv, Disk
    <3>2. Phases'
      BY <2>1, <2>7 DEF IInv, Phases, Installing
    <3> QED BY <3>1, <3>2
  <2>3. Rollback'
    BY <2>1, <2>7, <2>8 DEF IInv, Rollback, Untouched, AllUntouched
  <2>4. Cleanup'
    BY <2>1, <2>7 DEF IInv, Cleanup
  <2>5. Install'
    BY <2>1, <2>7, <2>8 DEF IInv, Install, Installing, Untouched, AllUntouched, Swapped1
  <2>6. Results'
    BY <2>1, <2>9 DEF IInv, Results
  <2>10. Copies'
    BY <2>1, <2>7 DEF IInv, Copies, Uncommitted, Safe
  <2> QED BY <1>1, <2>2, <2>3, <2>4, <2>5, <2>6, <2>10 DEF IInv
<1>3. CASE Next
  <2>9. Copies'
    BY <1>3, CopiesKept
  <2>1. CASE Start \/ \E parts \in SUBSET Parts : StartRestore(parts)
    BY <1>1, <2>9, <2>1, StartKept DEF IInv
  <2>2. CASE \E p \in Parts \cup {Database}, v \in Versions \cup {Absent} : Use(p, v)
    BY <1>1, <2>9, <2>2, UseKept DEF IInv
  <2>3. CASE Stop
    BY <1>1, <2>9, <2>3, StopKept DEF IInv
  <2>4. CASE \/ LookAtJournal \/ UndoDatabase \/ PruneSnapshots \/ CopyBack
             \/ RollbackRefused \/ UndoSwap
    BY <1>1, <2>9, <2>4, LookAtJournalKept, UndoDatabaseKept, PruneSnapshotsKept,
       CopyBackKept, RollbackRefusedKept, UndoSwapKept DEF IInv
  <2>5. CASE UndoSafety \/ UndoNew \/ CleanOld \/ CleanSafety \/ ForgetJournal
    BY <1>1, <2>9, <2>5, UndoSafetyKept, UndoNewKept, CleanOldKept, CleanSafetyKept, ForgetJournalKept
       DEF IInv
  <2>6. CASE TakeSafety \/ SaveJournal \/ ReplaceJournal \/ SettleJournal
    BY <1>1, <2>9, <2>6, TakeSafetyKept, SaveJournalKept, ReplaceJournalKept, SettleJournalKept DEF IInv
  <2>7. CASE RecordNext \/ MoveOut \/ MoveIn \/ SwitchDatabase \/ CopyDatabase
    BY <1>1, <2>9, <2>7, RecordNextKept, MoveOutKept, MoveInKept, SwitchDatabaseKept,
       CopyDatabaseKept DEF IInv
  <2>8. CASE InstallFails \/ GivesUp
    BY <1>1, <2>9, <2>8, InstallFailsKept, GivesUpKept DEF IInv
  <2> QED BY <1>3, <2>1, <2>2, <2>3, <2>4, <2>5, <2>6, <2>7, <2>8 DEF Next
<1> QED BY <1>2, <1>3

LEMMA Invariance == Spec => []IInv
  BY InitInv, StepInv, PTL DEF Spec

\* The variables have their types.
THEOREM TypeCorrect == Spec => []TypeOK
<1>1. IInv => TypeOK
  BY DEF IInv
<1> QED BY <1>1, Invariance, PTL

\* For any number of parts, swapped in any order: whoever opens the state, or
\* finds a directory without a journal, sees the state from before the restore
\* or the bundle's, never a mixture of the two, however often a restore and the
\* recoveries after it were cut short or failed.
THEOREM RestoreIsAllOrNothing == Spec => []AllOrNothing
<1>1. IInv => AllOrNothing
  BY DEF IInv, Disk, Phases, Found, AllOrNothing, NoRestore
<1> QED BY <1>1, Invariance, PTL

\* Until the bundle's state is complete and committed, every part the user had is in
\* its place or set aside, and so is the database, unless as many snapshots as are
\* retained were taken since: then the safety bundle has it.
THEOREM RestoreLosesNothing == Spec => []NothingLost
<1>1. IInv => NothingLost
  <2> SUFFICES ASSUME IInv, live # target \/ Uncommitted PROVE NothingLost
    BY DEF NothingLost, Uncommitted
  <2>1. CASE Found = NoJournal
    <3>1. live = before
      BY <2>1 DEF IInv, Disk, Uncommitted
    <3> QED BY <3>1 DEF NothingLost
  <2>2. CASE Found # NoJournal
    <3>1. Undoable(Found) /\ Safe
      BY <2>2 DEF IInv, Disk, Copies, Uncommitted
    <3>2. \A i \in Order : before[SwapOrder[i]] \in {Absent, live[SwapOrder[i]], old[SwapOrder[i]]}
      BY <3>1, Journalled, Ordered, FoundOnDisk
         DEF IInv, Undoable, UndoableFrom, SwapUndone, Order
    <3>3. \A p \in Parts : before[p] \in {Absent, live[p], old[p]}
      BY <3>2, Ordered
    <3> QED BY <3>1, <3>3 DEF Safe, NothingLost
  <2> QED BY <2>1, <2>2
<1> QED BY <1>1, Invariance, PTL

\* What a restore reports is what it has done.
THEOREM RestoreIsHonest == Spec => []OutcomeIsHonest
<1>1. IInv => OutcomeIsHonest
  BY DEF IInv, Results, OutcomeIsHonest
<1> QED BY <1>1, Invariance, PTL
=============================================================================
