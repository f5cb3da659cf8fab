--------------------------- MODULE WebJobsProofs ---------------------------
(* Theorems about WebJobs for every number of clients, uploads, jobs and    *)
(* permits: admission is exact, and what the API says of a job is true of   *)
(* its files, whatever runs beside it.                                      *)
EXTENDS WebJobs, FiniteSetTheorems, TLAPS

\* The map of jobs and the tasks that run them tell one story.
Staged ==
    \A j \in Jobs :
        /\ job[j].state \in {"none", "asked", "refused"} => task[j] = "none"
        /\ job[j].state = "queued" => task[j] \in {"spawned", "waiting"}
        /\ job[j].state = "running" => task[j] \in Converting \cup {"ended", "removing", "settling"}
        /\ job[j].state \in Terminal \cup {"swept"} => task[j] = "done"
        /\ job[j].state = "lost" => task[j] \in {"none", "gone"}

\* A row completes only together with the artifact, and the verdict that is
\* carried to the end says which it was.
Judged ==
    \A j \in Jobs :
        /\ task[j] \in {"none", "spawned", "waiting"} \cup Converting => row[j] # "completed"
        /\ task[j] \in {"ended", "removing", "settling"} =>
              \/ verdict[j] = "ok" /\ output[j] /\ row[j] = "completed"
              \/ verdict[j] = "error" /\ row[j] # "completed"

Known(j) == job[j].state \notin {"none", "lost"}

\* A job that is known names a registered upload; past finish_web_job's first
\* step the upload is used up, and a used upload has no file or a remover.
Used ==
    \A j \in Jobs : Known(j) =>
        /\ job[j].upload \in Uploads /\ job[j].client \in Clients
        /\ record[job[j].upload] \in {"live", "over"}
        /\ task[j] \in {"removing", "settling", "done"} => record[job[j].upload] = "over"
        /\ record[job[j].upload] = "over" =>
              \/ file[job[j].upload] = "none"
              \/ \E k \in Jobs : task[k] = "removing" /\ job[k].upload = job[j].upload

\* Whoever stands in line waits for a permit, and stands there once.
InLine ==
    /\ \A i \in DOMAIN line : task[line[i]] = "waiting"
    /\ \A i, k \in DOMAIN line : i # k => line[i] # line[k]

Holders == {j \in Jobs : task[j] \in Converting}

IInv ==
    /\ TypeOK /\ Staged /\ Judged /\ Used /\ InLine
    /\ ResultKept /\ FailedLeavesNothing
    /\ OneConversionPerClient /\ PermitsAccounted

-----------------------------------------------------------------------------
(* Types *)

\* Setting the state of a job leaves a job record, and nothing else changes.
LEMMA Settable == ASSUME NEW r \in JobRecord, NEW s \in JobState
                  PROVE  [r EXCEPT !.state = s] \in JobRecord
BY DEF JobRecord

LEMMA Zippable == ASSUME NEW r \in JobRecord, NEW b \in BOOLEAN
                  PROVE  [r EXCEPT !.zipped = b] \in JobRecord
BY DEF JobRecord

LEMMA JobType == ASSUME IInv PROVE job \in [Jobs -> JobRecord]
BY DEF IInv, TypeOK

LEMMA ReaderType == ASSUME IInv PROVE reader \in [Readers -> ReaderState]
BY DEF IInv, TypeOK

LEMMA Stepped == ASSUME NEW q \in ReaderState, NEW s \in {"zipped", "opening"}
                 PROVE  [q EXCEPT !.step = s] \in ReaderState
BY DEF ReaderState

LEMMA SetState ==
    ASSUME IInv, NEW j \in Jobs, NEW s \in JobState, job' = [job EXCEPT ![j].state = s]
    PROVE  \A k \in Jobs : /\ job'[k].state = IF k = j THEN s ELSE job[k].state
                           /\ job'[k].upload = job[k].upload
                           /\ job'[k].client = job[k].client
BY JobType DEF JobRecord

\* Noting that a job was zipped changes nothing else of it.
LEMMA SetZipped ==
    ASSUME IInv, NEW r \in Readers, DownloadRecordsZip(r)
    PROVE  \A k \in Jobs : /\ job'[k].state = job[k].state
                           /\ job'[k].upload = job[k].upload
                           /\ job'[k].client = job[k].client
<1>1. PICK i : \E b : job' = [job EXCEPT ![i].zipped = b]
  BY DEF DownloadRecordsZip
<1> QED
  BY <1>1, JobType DEF JobRecord

\* Uploads, readers and the clock do not touch the jobs and their tasks.
LEMMA Steps ==
    ASSUME [Next]_vars
    PROVE  \/ \E j \in Jobs : \/ \E c \in Clients, u \in Uploads : CreateLooks(j, c, u)
                              \/ CreateAdmits(j) \/ CreateRefused(j) \/ TaskSteps(j)
           \/ \E r \in Readers : DownloadRecordsZip(r)
           \/ SweepJobs \/ Restart
           \/ UNCHANGED <<job, task, verdict, line, free, row, output>>
BY DEF Next, vars, jobVars, UploadBegins, UploadTooLarge, UploadBreaks, UploadStored,
       UploadExpires, JobExpires, DownloadAsks, ZipEnds, DownloadOpens, SweepUploads

LEMMA HoldersFinite == IsFiniteSet(Holders) /\ Cardinality(Holders) \in Nat
<1>1. Holders \subseteq Jobs
  BY DEF Holders
<1> QED
  BY <1>1, JobsAssumption, FS_Subset, FS_CardinalityType

\* While somebody converts, not every permit is free.
LEMMA HeldPermit == ASSUME IInv, NEW j \in Jobs, task[j] \in Converting
                    PROVE  free < Slots /\ free \in Nat
<1>1. Holders # {} /\ Cardinality(Holders) # 0
  BY HoldersFinite, FS_EmptySet DEF Holders
<1> QED
  BY <1>1, HoldersFinite, SlotsAssumption DEF IInv, TypeOK, PermitsAccounted, Holders

\* Type correctness, with the permits that PermitsAccounted leaves.
LEMMA TypeKept ==
    ASSUME IInv, [Next]_vars PROVE TypeOK'
<1>1. ASSUME NEW u \in Uploads, UploadBegins(u) PROVE TypeOK'
  BY <1>1 DEF UploadBegins, IInv, TypeOK, RecordState, jobVars
<1>2. ASSUME NEW u \in Uploads, UploadTooLarge(u) PROVE TypeOK'
  BY <1>2 DEF UploadTooLarge, IInv, TypeOK, RecordState, jobVars
<1>3. ASSUME NEW u \in Uploads, UploadBreaks(u) PROVE TypeOK'
  BY <1>3 DEF UploadBreaks, IInv, TypeOK, RecordState, jobVars
<1>4. ASSUME NEW u \in Uploads, UploadStored(u) PROVE TypeOK'
  BY <1>4 DEF UploadStored, IInv, TypeOK, RecordState, jobVars
<1>5. ASSUME NEW u \in Uploads, UploadExpires(u) PROVE TypeOK'
  BY <1>5 DEF UploadExpires, IInv, TypeOK, uploadVars, jobVars
<1>6. ASSUME NEW j \in Jobs, NEW c \in Clients, NEW u \in Uploads, CreateLooks(j, c, u) PROVE TypeOK'
  BY <1>6 DEF CreateLooks, IInv, JobState, TypeOK, JobRecord, uploadVars
<1>7. ASSUME NEW j \in Jobs, CreateAdmits(j) PROVE TypeOK'
  <2>1. job' \in [Jobs -> JobRecord]
    BY <1>7, JobType, Settable DEF CreateAdmits, JobState
  <2> QED
    BY <1>7, <2>1 DEF CreateAdmits, uploadVars, IInv, TypeOK, TaskStep
<1>8. ASSUME NEW j \in Jobs, CreateRefused(j) PROVE TypeOK'
  <2>1. job' \in [Jobs -> JobRecord]
    BY <1>8, JobType, Settable DEF CreateRefused, JobState
  <2> QED
    BY <1>8, <2>1 DEF CreateRefused, uploadVars, IInv, TypeOK
<1>9. ASSUME NEW j \in Jobs, JobExpires(j) PROVE TypeOK'
  BY <1>9 DEF JobExpires, IInv, TypeOK, uploadVars, jobVars
<1>10. ASSUME NEW j \in Jobs, TaskQueues(j) PROVE TypeOK'
  BY <1>10 DEF TaskQueues, IInv, TypeOK, TaskStep, uploadVars
<1>11. ASSUME NEW j \in Jobs, TaskStarts(j) PROVE TypeOK'
  <2>1. job' \in [Jobs -> JobRecord]
    <3>1. job[j].state \in JobState
      BY JobType DEF JobRecord
    <3>2. PICK s \in JobState : job' = [job EXCEPT ![j].state = s]
      BY <1>11, <3>1 DEF TaskStarts, JobState
    <3> QED
      BY <3>2, JobType, Settable
  <2>2. free' \in 0..Slots /\ line' \in Seq(Jobs)
    BY <1>11, SlotsAssumption DEF TaskStarts, IInv, TypeOK
  <2> QED
    BY <1>11, <2>1, <2>2 DEF TaskStarts, uploadVars, IInv, Converting, TypeOK, TaskStep
<1>12. ASSUME NEW j \in Jobs, PrepareSucceeds(j) PROVE TypeOK'
  BY <1>12 DEF PrepareSucceeds, IInv, Converting, TypeOK, TaskStep, RowState, uploadVars
<1>13. ASSUME NEW j \in Jobs, PrepareFails(j) PROVE TypeOK'
  <2>1. task[j] \in Converting /\ free < Slots /\ free \in Nat
    BY <1>13, HeldPermit DEF PrepareFails, Converting
  <2>2. free' \in 0..Slots
    BY <1>13, <2>1, SlotsAssumption DEF PrepareFails, Ends
  <2>3. row[j] \in RowState
    BY DEF IInv, TypeOK, RowState
  <2>4. row' \in [Jobs -> RowState]
    BY <1>13, <2>3 DEF PrepareFails, IInv, TypeOK, RowState
  <2> QED
    BY <1>13, <2>2, <2>4 DEF PrepareFails, Ends, uploadVars, IInv, TypeOK, TaskStep
<1>14. ASSUME NEW j \in Jobs, EngineFinishes(j) PROVE TypeOK'
  BY <1>14 DEF EngineFinishes, IInv, Converting, TypeOK, TaskStep, RowState, uploadVars
<1>15. ASSUME NEW j \in Jobs, Succeeds(j) PROVE TypeOK'
  <2>1. task[j] \in Converting /\ free < Slots /\ free \in Nat
    BY <1>15, HeldPermit DEF Succeeds, Converting
  <2>2. free' \in 0..Slots
    BY <1>15, <2>1, SlotsAssumption DEF Succeeds, Ends
  <2>3. row[j] \in RowState
    BY DEF IInv, TypeOK, RowState
  <2>4. row' \in [Jobs -> RowState]
    BY <1>15, <2>3 DEF Succeeds, IInv, TypeOK, RowState
  <2> QED
    BY <1>15, <2>2, <2>4 DEF Succeeds, Ends, uploadVars, IInv, TypeOK, TaskStep
<1>16. ASSUME NEW j \in Jobs, ReportFails(j) PROVE TypeOK'
  <2>1. task[j] \in Converting /\ free < Slots /\ free \in Nat
    BY <1>16, HeldPermit DEF ReportFails, Converting
  <2>2. free' \in 0..Slots
    BY <1>16, <2>1, SlotsAssumption DEF ReportFails, Ends
  <2>3. row[j] \in RowState
    BY DEF IInv, TypeOK, RowState
  <2>4. row' \in [Jobs -> RowState]
    BY <1>16, <2>3 DEF ReportFails, IInv, TypeOK, RowState
  <2> QED
    BY <1>16, <2>2, <2>4 DEF ReportFails, Ends, uploadVars, IInv, TypeOK, TaskStep
<1>17. ASSUME NEW j \in Jobs, ExecutionStops(j) PROVE TypeOK'
  <2>1. task[j] \in Converting /\ free < Slots /\ free \in Nat
    BY <1>17, HeldPermit DEF ExecutionStops, Converting
  <2>2. free' \in 0..Slots
    BY <1>17, <2>1, SlotsAssumption DEF ExecutionStops, Ends
  <2>3. row[j] \in RowState
    BY DEF IInv, TypeOK, RowState
  <2>4. row' \in [Jobs -> RowState]
    BY <1>17, <2>3 DEF ExecutionStops, IInv, TypeOK, RowState
  <2> QED
    BY <1>17, <2>2, <2>4 DEF ExecutionStops, Ends, uploadVars, IInv, TypeOK, TaskStep
<1>18. ASSUME NEW j \in Jobs, TimesOut(j) PROVE TypeOK'
  <2>1. task[j] \in Converting /\ free < Slots /\ free \in Nat
    BY <1>18, HeldPermit DEF TimesOut
  <2>2. free' \in 0..Slots
    BY <1>18, <2>1, SlotsAssumption DEF TimesOut, Ends
  <2>3. row[j] \in RowState
    BY DEF IInv, TypeOK, RowState
  <2>4. row' \in [Jobs -> RowState]
    BY <1>18, <2>3 DEF TimesOut, IInv, TypeOK
  <2> QED
    BY <1>18, <2>2, <2>4 DEF TimesOut, Ends, uploadVars, IInv, TypeOK, TaskStep
<1>19. ASSUME NEW j \in Jobs, FinishTakesUpload(j) PROVE TypeOK'
  <2>1. record' \in [Uploads -> RecordState]
    BY <1>19 DEF FinishTakesUpload, IInv, TypeOK, RecordState
  <2>2. task' \in [Jobs -> TaskStep]
    BY <1>19 DEF FinishTakesUpload, IInv, TypeOK, TaskStep
  <2> QED
    BY <1>19, <2>1, <2>2 DEF FinishTakesUpload, IInv, TypeOK
<1>20. ASSUME NEW j \in Jobs, FinishRemovesInput(j) PROVE TypeOK'
  BY <1>20 DEF FinishRemovesInput, IInv, TypeOK, TaskStep
<1>21. ASSUME NEW j \in Jobs, FinishSettles(j) PROVE TypeOK'
  <2>1. job' \in [Jobs -> JobRecord]
    <3>1. PICK s \in JobState : job' = [job EXCEPT ![j].state = s]
      BY <1>21 DEF FinishSettles, JobState
    <3> QED
      BY <3>1, JobType, Settable
  <2>2. /\ output' \in [Jobs -> BOOLEAN]
        /\ zip' \in [Jobs -> {"none", "part", "whole"}]
    BY <1>21 DEF FinishSettles, RemoveArtifacts, IInv, TypeOK
  <2> QED
    BY <1>21, <2>1, <2>2 DEF FinishSettles, uploadVars, IInv, TypeOK, TaskStep
<1>22. ASSUME NEW r \in Readers, NEW j \in Jobs, DownloadAsks(r, j) PROVE TypeOK'
  <2>1. zip' \in [Jobs -> {"none", "part", "whole"}]
    BY <1>22 DEF DownloadAsks, IInv, TypeOK
  <2>2. PICK s \in {"zipping", "opening"} : reader' = [reader EXCEPT ![r] = [step |-> s, job |-> j]]
    BY <1>22 DEF DownloadAsks
  <2>3. [step |-> s, job |-> j] \in ReaderState
    BY DEF ReaderState
  <2>4. reader' \in [Readers -> ReaderState]
    BY <2>2, <2>3 DEF IInv, TypeOK
  <2> QED
    BY <1>22, <2>1, <2>4 DEF DownloadAsks, uploadVars, IInv, TypeOK
<1>23. ASSUME NEW r \in Readers, ZipEnds(r) PROVE TypeOK'
  <2>1. zip' \in [Jobs -> {"none", "part", "whole"}]
    BY <1>23 DEF ZipEnds, IInv, TypeOK
  <2>2. Idle \in ReaderState
    BY DEF ReaderState, Idle
  <2>3. reader' \in [Readers -> ReaderState]
    <3>1. reader \in [Readers -> ReaderState] /\ [reader[r] EXCEPT !.step = "zipped"] \in ReaderState
      BY ReaderType, Stepped
    <3>2. \/ reader' = [reader EXCEPT ![r] = Idle]
          \/ reader' = [reader EXCEPT ![r] = [reader[r] EXCEPT !.step = "zipped"]]
      BY <1>23 DEF ZipEnds
    <3> QED
      BY ONLY <2>2, <3>1, <3>2
  <2> QED
    BY <1>23, <2>1, <2>3 DEF ZipEnds, uploadVars, IInv, TypeOK
<1>24. ASSUME NEW r \in Readers, DownloadRecordsZip(r) PROVE TypeOK'
  <2>1. job' \in [Jobs -> JobRecord]
    <3>1. \A k \in Jobs, b \in BOOLEAN : [job[k] EXCEPT !.zipped = b] \in JobRecord
      BY JobType, Zippable
    <3>2. reader[r].job \in Jobs \cup {NoOne} /\ NoOne \notin Jobs
      BY NoOneAssumption DEF IInv, TypeOK, ReaderState
    <3>3. CASE reader[r].job \in Jobs
      BY <1>24, <3>1, <3>3 DEF DownloadRecordsZip, IInv, TypeOK
    <3>4. CASE reader[r].job = NoOne
      BY <1>24, <3>2, <3>4 DEF DownloadRecordsZip, IInv, TypeOK
    <3> QED
      BY <3>2, <3>3, <3>4
  <2>2. reader' \in [Readers -> ReaderState]
    BY <1>24, ReaderType, Stepped DEF DownloadRecordsZip
  <2> QED
    BY <1>24, <2>1, <2>2 DEF DownloadRecordsZip, uploadVars, IInv, TypeOK
<1>25. ASSUME NEW r \in Readers, DownloadOpens(r) PROVE TypeOK'
  BY <1>25 DEF DownloadOpens, IInv, TypeOK, Idle, ReaderState, uploadVars, jobVars
<1>26. ASSUME SweepUploads PROVE TypeOK'
  BY <1>26 DEF SweepUploads, IInv, TypeOK, RecordState, jobVars
<1>27. ASSUME SweepJobs PROVE TypeOK'
  <2>1. job' \in [Jobs -> JobRecord]
    BY <1>27, JobType, Settable DEF SweepJobs, JobState
  <2>2. /\ output' \in [Jobs -> BOOLEAN]
        /\ zip' \in [Jobs -> {"none", "part", "whole"}]
    BY <1>27 DEF SweepJobs, RemoveArtifacts, IInv, TypeOK
  <2> QED
    BY <1>27, <2>1, <2>2 DEF SweepJobs, uploadVars, IInv, TypeOK
<1>28. ASSUME Restart PROVE TypeOK'
  <2>1. job' \in [Jobs -> JobRecord]
    BY <1>28, JobType, Settable DEF Restart, JobState
  <2>2. free' \in 0..Slots /\ line' \in Seq(Jobs)
    BY <1>28, SlotsAssumption DEF Restart
  <2>3. task' \in [Jobs -> TaskStep]
    BY <1>28 DEF Restart, IInv, TypeOK, TaskStep
  <2>4. record' \in [Uploads -> RecordState]
    BY <1>28 DEF Restart, IInv, RecordState
  <2>5. reader' \in [Readers -> ReaderState]
    BY <1>28 DEF Restart, Idle, ReaderState
  <2> QED
    BY <1>28, <2>1, <2>2, <2>3, <2>4, <2>5 DEF Restart, IInv, TypeOK
<1>29. ASSUME UNCHANGED vars PROVE TypeOK'
  BY <1>29 DEF vars, IInv, TypeOK
<1> QED
  BY <1>1, <1>2, <1>3, <1>4, <1>5, <1>6, <1>7, <1>8, <1>9, <1>10, <1>11, <1>12, <1>13, <1>14,
     <1>15, <1>16, <1>17, <1>18, <1>19, <1>20, <1>21, <1>22, <1>23, <1>24, <1>25, <1>26, <1>27,
     <1>28, <1>29
     DEF Next, TaskSteps

-----------------------------------------------------------------------------
(* Control *)

\* The map and the tasks stay in step.
LEMMA StagedKept ==
    ASSUME IInv, [Next]_vars PROVE Staged'
<1>1. ASSUME NEW j \in Jobs, NEW c \in Clients, NEW u \in Uploads, CreateLooks(j, c, u) PROVE Staged'
  BY <1>1 DEF CreateLooks, IInv, Terminal, Staged
<1>2. ASSUME NEW j \in Jobs, CreateAdmits(j) PROVE Staged'
  BY <1>2 DEF CreateAdmits, IInv, Terminal, TypeOK, Staged
<1>3. ASSUME NEW j \in Jobs, CreateRefused(j) PROVE Staged'
  BY <1>3 DEF CreateRefused, IInv, Terminal, Staged
<1>4. ASSUME NEW j \in Jobs, TaskQueues(j) PROVE Staged'
  BY <1>4 DEF TaskQueues, IInv, Converting, Staged
<1>5. ASSUME NEW j \in Jobs, TaskStarts(j) PROVE Staged'
  BY <1>5 DEF TaskStarts, IInv, Terminal, Converting, TypeOK, Staged, InLine
<1>6. ASSUME NEW j \in Jobs, PrepareSucceeds(j) PROVE Staged'
  BY <1>6 DEF PrepareSucceeds, IInv, Converting, Staged
<1>7. ASSUME NEW j \in Jobs, PrepareFails(j) PROVE Staged'
  BY <1>7 DEF PrepareFails, IInv, Staged, Ends
<1>8. ASSUME NEW j \in Jobs, EngineFinishes(j) PROVE Staged'
  BY <1>8 DEF EngineFinishes, IInv, Converting, Staged
<1>9. ASSUME NEW j \in Jobs, Succeeds(j) PROVE Staged'
  BY <1>9 DEF Succeeds, IInv, Staged, Ends
<1>10. ASSUME NEW j \in Jobs, ReportFails(j) PROVE Staged'
  BY <1>10 DEF ReportFails, IInv, Staged, Ends
<1>11. ASSUME NEW j \in Jobs, ExecutionStops(j) PROVE Staged'
  BY <1>11 DEF ExecutionStops, IInv, Staged, Ends
<1>12. ASSUME NEW j \in Jobs, TimesOut(j) PROVE Staged'
  BY <1>12 DEF TimesOut, IInv, Converting, Staged, Ends
<1>13. ASSUME NEW j \in Jobs, FinishTakesUpload(j) PROVE Staged'
  BY <1>13 DEF FinishTakesUpload, IInv, TypeOK, Staged
<1>14. ASSUME NEW j \in Jobs, FinishRemovesInput(j) PROVE Staged'
  BY <1>14 DEF FinishRemovesInput, IInv, Staged
<1>15. ASSUME NEW j \in Jobs, FinishSettles(j) PROVE Staged'
  <2>1. task[j] = "settling" /\ verdict[j] \in {"ok", "error"}
    BY <1>15 DEF FinishSettles, IInv
  <2>2. PICK s \in Terminal : /\ s = "succeeded" <=> verdict[j] = "ok"
                              /\ job' = [job EXCEPT ![j].state = s]
    BY <1>15 DEF FinishSettles, Terminal
  <2>3. s \in JobState
    BY DEF JobState, Terminal
  <2>4. \A k \in Jobs : /\ job'[k].state = IF k = j THEN s ELSE job[k].state
                        /\ job'[k].upload = job[k].upload
                        /\ job'[k].client = job[k].client
    BY <2>2, <2>3, SetState, Zenon
  <2>5. CASE verdict[j] = "ok"
    BY <1>15, <2>1, <2>2, <2>4, <2>5 DEF FinishSettles, IInv, TypeOK, Staged
  <2>6. CASE verdict[j] = "error"
    BY <1>15, <2>1, <2>2, <2>4, <2>6 DEF FinishSettles, IInv, Terminal, TypeOK, Staged
  <2> QED
    BY <2>1, <2>5, <2>6
<1>16. ASSUME NEW r \in Readers, DownloadRecordsZip(r) PROVE Staged'
  BY <1>16 DEF DownloadRecordsZip, IInv, Staged
<1>17. ASSUME SweepJobs PROVE Staged'
  BY <1>17 DEF SweepJobs, IInv, Staged
<1>18. ASSUME Restart PROVE Staged'
  BY <1>18 DEF Restart, IInv, Terminal, Staged
<1>19. ASSUME UNCHANGED <<job, task, verdict, line, free, row, output>> PROVE Staged'
  BY <1>19 DEF IInv, Staged
<1> QED
  BY <1>1, <1>2, <1>3, <1>4, <1>5, <1>6, <1>7, <1>8, <1>9, <1>10, <1>11, <1>12, <1>13, <1>14,
     <1>15, <1>16, <1>17, <1>18, <1>19, Steps
     DEF TaskSteps

\* The line is first come, first served: Head leaves, the new one goes to the end.
LEMMA InLineKept ==
    ASSUME IInv, [Next]_vars PROVE InLine'
<1>1. ASSUME NEW j \in Jobs, NEW c \in Clients, NEW u \in Uploads, CreateLooks(j, c, u) PROVE InLine'
  BY <1>1 DEF CreateLooks, IInv, InLine
<1>2. ASSUME NEW j \in Jobs, CreateAdmits(j) PROVE InLine'
  BY <1>2 DEF CreateAdmits, IInv, Staged, InLine
<1>3. ASSUME NEW j \in Jobs, CreateRefused(j) PROVE InLine'
  BY <1>3 DEF CreateRefused, IInv, InLine
<1>4. ASSUME NEW j \in Jobs, TaskQueues(j) PROVE InLine'
  BY <1>4 DEF TaskQueues, IInv, TypeOK, InLine
<1>5. ASSUME NEW j \in Jobs, TaskStarts(j) PROVE InLine'
  BY <1>5 DEF TaskStarts, IInv, TypeOK, InLine
<1>6. ASSUME NEW j \in Jobs, PrepareSucceeds(j) PROVE InLine'
  BY <1>6 DEF PrepareSucceeds, IInv, InLine
<1>7. ASSUME NEW j \in Jobs, PrepareFails(j) PROVE InLine'
  BY <1>7 DEF PrepareFails, IInv, InLine, Ends
<1>8. ASSUME NEW j \in Jobs, EngineFinishes(j) PROVE InLine'
  BY <1>8 DEF EngineFinishes, IInv, InLine
<1>9. ASSUME NEW j \in Jobs, Succeeds(j) PROVE InLine'
  BY <1>9 DEF Succeeds, IInv, InLine, Ends
<1>10. ASSUME NEW j \in Jobs, ReportFails(j) PROVE InLine'
  BY <1>10 DEF ReportFails, IInv, InLine, Ends
<1>11. ASSUME NEW j \in Jobs, ExecutionStops(j) PROVE InLine'
  BY <1>11 DEF ExecutionStops, IInv, InLine, Ends
<1>12. ASSUME NEW j \in Jobs, TimesOut(j) PROVE InLine'
  BY <1>12 DEF TimesOut, IInv, Converting, InLine, Ends
<1>13. ASSUME NEW j \in Jobs, FinishTakesUpload(j) PROVE InLine'
  BY <1>13 DEF FinishTakesUpload, IInv, TypeOK, InLine
<1>14. ASSUME NEW j \in Jobs, FinishRemovesInput(j) PROVE InLine'
  BY <1>14 DEF FinishRemovesInput, IInv, InLine
<1>15. ASSUME NEW j \in Jobs, FinishSettles(j) PROVE InLine'
  BY <1>15 DEF FinishSettles, IInv, InLine
<1>16. ASSUME NEW r \in Readers, DownloadRecordsZip(r) PROVE InLine'
  BY <1>16 DEF DownloadRecordsZip, IInv, InLine
<1>17. ASSUME SweepJobs PROVE InLine'
  BY <1>17 DEF SweepJobs, IInv, InLine
<1>18. ASSUME Restart PROVE InLine'
  BY <1>18 DEF Restart, IInv, InLine
<1>19. ASSUME UNCHANGED <<job, task, verdict, line, free, row, output>> PROVE InLine'
  BY <1>19 DEF IInv, InLine
<1> QED
  BY <1>1, <1>2, <1>3, <1>4, <1>5, <1>6, <1>7, <1>8, <1>9, <1>10, <1>11, <1>12, <1>13, <1>14,
     <1>15, <1>16, <1>17, <1>18, <1>19, Steps
     DEF TaskSteps

\* Only CreateAdmits makes a job active, and it asks under the lock.
LEMMA OneKept ==
    ASSUME IInv, [Next]_vars PROVE OneConversionPerClient'
<1>1. ASSUME NEW j \in Jobs, NEW c \in Clients, NEW u \in Uploads, CreateLooks(j, c, u) PROVE OneConversionPerClient'
  BY <1>1 DEF CreateLooks, IInv, Active, OneConversionPerClient
<1>2. ASSUME NEW j \in Jobs, CreateAdmits(j) PROVE OneConversionPerClient'
  BY <1>2 DEF CreateAdmits, IInv, OneConversionPerClient, Busy
<1>3. ASSUME NEW j \in Jobs, CreateRefused(j) PROVE OneConversionPerClient'
  BY <1>3 DEF CreateRefused, IInv, Active, OneConversionPerClient
<1>4. ASSUME NEW j \in Jobs, TaskQueues(j) PROVE OneConversionPerClient'
  BY <1>4 DEF TaskQueues, IInv, OneConversionPerClient
<1>5. ASSUME NEW j \in Jobs, TaskStarts(j) PROVE OneConversionPerClient'
  BY <1>5 DEF TaskStarts, IInv, Active, OneConversionPerClient
<1>6. ASSUME NEW j \in Jobs, PrepareSucceeds(j) PROVE OneConversionPerClient'
  BY <1>6 DEF PrepareSucceeds, IInv, OneConversionPerClient
<1>7. ASSUME NEW j \in Jobs, PrepareFails(j) PROVE OneConversionPerClient'
  BY <1>7 DEF PrepareFails, IInv, OneConversionPerClient
<1>8. ASSUME NEW j \in Jobs, EngineFinishes(j) PROVE OneConversionPerClient'
  BY <1>8 DEF EngineFinishes, IInv, OneConversionPerClient
<1>9. ASSUME NEW j \in Jobs, Succeeds(j) PROVE OneConversionPerClient'
  BY <1>9 DEF Succeeds, IInv, OneConversionPerClient
<1>10. ASSUME NEW j \in Jobs, ReportFails(j) PROVE OneConversionPerClient'
  BY <1>10 DEF ReportFails, IInv, OneConversionPerClient
<1>11. ASSUME NEW j \in Jobs, ExecutionStops(j) PROVE OneConversionPerClient'
  BY <1>11 DEF ExecutionStops, IInv, OneConversionPerClient
<1>12. ASSUME NEW j \in Jobs, TimesOut(j) PROVE OneConversionPerClient'
  BY <1>12 DEF TimesOut, IInv, OneConversionPerClient
<1>13. ASSUME NEW j \in Jobs, FinishTakesUpload(j) PROVE OneConversionPerClient'
  BY <1>13 DEF FinishTakesUpload, IInv, OneConversionPerClient
<1>14. ASSUME NEW j \in Jobs, FinishRemovesInput(j) PROVE OneConversionPerClient'
  BY <1>14 DEF FinishRemovesInput, IInv, OneConversionPerClient
<1>15. ASSUME NEW j \in Jobs, FinishSettles(j) PROVE OneConversionPerClient'
  <2>1. task[j] = "settling" /\ verdict[j] \in {"ok", "error"}
    BY <1>15 DEF FinishSettles, IInv
  <2>2. PICK s \in Terminal : /\ s = "succeeded" <=> verdict[j] = "ok"
                              /\ job' = [job EXCEPT ![j].state = s]
    BY <1>15 DEF FinishSettles, Terminal
  <2>3. s \in JobState
    BY DEF JobState, Terminal
  <2>4. \A k \in Jobs : /\ job'[k].state = IF k = j THEN s ELSE job[k].state
                        /\ job'[k].upload = job[k].upload
                        /\ job'[k].client = job[k].client
    BY <2>2, <2>3, SetState, Zenon
  <2>5. CASE verdict[j] = "ok"
    BY <1>15, <2>1, <2>2, <2>4, <2>5 DEF FinishSettles, IInv, Active, OneConversionPerClient
  <2>6. CASE verdict[j] = "error"
    BY <1>15, <2>1, <2>2, <2>4, <2>6
       DEF FinishSettles, IInv, Active, Terminal, OneConversionPerClient
  <2> QED
    BY <2>1, <2>5, <2>6
<1>16. ASSUME NEW r \in Readers, DownloadRecordsZip(r) PROVE OneConversionPerClient'
  BY <1>16 DEF DownloadRecordsZip, IInv, OneConversionPerClient
<1>17. ASSUME SweepJobs PROVE OneConversionPerClient'
  BY <1>17 DEF SweepJobs, IInv, Active, OneConversionPerClient
<1>18. ASSUME Restart PROVE OneConversionPerClient'
  BY <1>18 DEF Restart, IInv, Active, OneConversionPerClient
<1>19. ASSUME UNCHANGED <<job, task, verdict, line, free, row, output>> PROVE OneConversionPerClient'
  BY <1>19 DEF IInv, OneConversionPerClient
<1> QED
  BY <1>1, <1>2, <1>3, <1>4, <1>5, <1>6, <1>7, <1>8, <1>9, <1>10, <1>11, <1>12, <1>13, <1>14,
     <1>15, <1>16, <1>17, <1>18, <1>19, Steps
     DEF TaskSteps

-----------------------------------------------------------------------------
(* Permits *)

\* A step that neither gives nor takes a permit moves no task into or out of
\* the converting steps.
LEMMA SameHolders == ASSUME IInv, free' = free, Holders' = Holders PROVE PermitsAccounted'
BY DEF IInv, PermitsAccounted, Holders

\* The end of a conversion returns the one permit that it held.
LEMMA EndReturnsPermit ==
    ASSUME IInv, NEW j \in Jobs, task[j] \in Converting, task' = [task EXCEPT ![j] = "ended"],
           free' = free + 1
    PROVE  PermitsAccounted'
<1>1. Holders' = Holders \ {j} /\ j \in Holders
  BY DEF Holders, IInv, TypeOK, Converting
<1>2. Cardinality(Holders') = Cardinality(Holders) - 1
  BY <1>1, HoldersFinite, FS_RemoveElement
<1> QED
  BY <1>2, HoldersFinite, SlotsAssumption DEF IInv, TypeOK, PermitsAccounted, Holders

\* No permit is lost and none is returned twice.
LEMMA PermitsKept ==
    ASSUME IInv, [Next]_vars PROVE PermitsAccounted'
<1>1. ASSUME NEW j \in Jobs, NEW c \in Clients, NEW u \in Uploads, CreateLooks(j, c, u) PROVE PermitsAccounted'
  <2>1. free' = free /\ Holders' = Holders
    BY <1>1 DEF CreateLooks, Holders, IInv
  <2> QED
    BY <2>1, SameHolders
<1>2. ASSUME NEW j \in Jobs, CreateAdmits(j) PROVE PermitsAccounted'
  <2>1. free' = free /\ Holders' = Holders
    BY <1>2 DEF CreateAdmits, Holders, Converting, IInv, Staged
  <2> QED
    BY <2>1, SameHolders
<1>3. ASSUME NEW j \in Jobs, CreateRefused(j) PROVE PermitsAccounted'
  <2>1. free' = free /\ Holders' = Holders
    BY <1>3 DEF CreateRefused, Holders, IInv
  <2> QED
    BY <2>1, SameHolders
<1>4. ASSUME NEW j \in Jobs, TaskQueues(j) PROVE PermitsAccounted'
  <2>1. free' = free /\ Holders' = Holders
    BY <1>4 DEF TaskQueues, Holders, Converting, IInv
  <2> QED
    BY <2>1, SameHolders
<1>5. ASSUME NEW j \in Jobs, TaskStarts(j) PROVE PermitsAccounted'
  <2>1. task[j] = "waiting" /\ task' = [task EXCEPT ![j] = "preparing"] /\ free' = free - 1
    BY <1>5 DEF TaskStarts, IInv, InLine, TypeOK
  <2>2. Holders' = Holders \cup {j} /\ j \notin Holders
    BY <2>1 DEF Holders, IInv, TypeOK, Converting
  <2>3. Cardinality(Holders') = Cardinality(Holders) + 1
    BY <2>2, HoldersFinite, FS_AddElement
  <2> QED
    BY <2>1, <2>3, HoldersFinite, SlotsAssumption DEF IInv, TypeOK, PermitsAccounted, Holders
<1>6. ASSUME NEW j \in Jobs, PrepareSucceeds(j) PROVE PermitsAccounted'
  <2>1. free' = free /\ Holders' = Holders
    BY <1>6 DEF PrepareSucceeds, Holders, Converting, IInv
  <2> QED
    BY <2>1, SameHolders
<1>7. ASSUME NEW j \in Jobs, PrepareFails(j) PROVE PermitsAccounted'
  BY <1>7, EndReturnsPermit DEF PrepareFails, Ends, Converting
<1>8. ASSUME NEW j \in Jobs, EngineFinishes(j) PROVE PermitsAccounted'
  <2>1. free' = free /\ Holders' = Holders
    BY <1>8 DEF EngineFinishes, Holders, Converting, IInv
  <2> QED
    BY <2>1, SameHolders
<1>9. ASSUME NEW j \in Jobs, Succeeds(j) PROVE PermitsAccounted'
  BY <1>9, EndReturnsPermit DEF Succeeds, Ends, Converting
<1>10. ASSUME NEW j \in Jobs, ReportFails(j) PROVE PermitsAccounted'
  BY <1>10, EndReturnsPermit DEF ReportFails, Ends, Converting
<1>11. ASSUME NEW j \in Jobs, ExecutionStops(j) PROVE PermitsAccounted'
  BY <1>11, EndReturnsPermit DEF ExecutionStops, Ends, Converting
<1>12. ASSUME NEW j \in Jobs, TimesOut(j) PROVE PermitsAccounted'
  BY <1>12, EndReturnsPermit DEF TimesOut, Ends
<1>13. ASSUME NEW j \in Jobs, FinishTakesUpload(j) PROVE PermitsAccounted'
  <2>1. free' = free /\ Holders' = Holders
    BY <1>13 DEF FinishTakesUpload, Holders, Converting, IInv, TypeOK
  <2> QED
    BY <2>1, SameHolders
<1>14. ASSUME NEW j \in Jobs, FinishRemovesInput(j) PROVE PermitsAccounted'
  <2>1. free' = free /\ Holders' = Holders
    BY <1>14 DEF FinishRemovesInput, Holders, Converting, IInv
  <2> QED
    BY <2>1, SameHolders
<1>15. ASSUME NEW j \in Jobs, FinishSettles(j) PROVE PermitsAccounted'
  <2>1. free' = free /\ Holders' = Holders
    BY <1>15 DEF FinishSettles, Holders, Converting, IInv
  <2> QED
    BY <2>1, SameHolders
<1>16. ASSUME NEW r \in Readers, DownloadRecordsZip(r) PROVE PermitsAccounted'
  <2>1. free' = free /\ Holders' = Holders
    BY <1>16 DEF DownloadRecordsZip, Holders, IInv
  <2> QED
    BY <2>1, SameHolders
<1>17. ASSUME SweepJobs PROVE PermitsAccounted'
  <2>1. free' = free /\ Holders' = Holders
    BY <1>17 DEF SweepJobs, Holders, IInv
  <2> QED
    BY <2>1, SameHolders
<1>18. ASSUME Restart PROVE PermitsAccounted'
  <2>1. Holders' = {}
    BY <1>18 DEF Restart, Holders, IInv, Converting
  <2>2. Cardinality(Holders') = 0 /\ free' = Slots
    BY <1>18, <2>1, FS_EmptySet DEF Restart
  <2> QED
    BY <2>2, SlotsAssumption DEF PermitsAccounted, Holders
<1>19. ASSUME UNCHANGED <<job, task, verdict, line, free, row, output>> PROVE PermitsAccounted'
  BY <1>19, SameHolders DEF Holders
<1> QED
  BY <1>1, <1>2, <1>3, <1>4, <1>5, <1>6, <1>7, <1>8, <1>9, <1>10, <1>11, <1>12, <1>13, <1>14,
     <1>15, <1>16, <1>17, <1>18, <1>19, Steps
     DEF TaskSteps

-----------------------------------------------------------------------------
(* Files *)

\* Artifact, row and verdict agree on the way to the end.
LEMMA JudgedKept ==
    ASSUME IInv, [Next]_vars PROVE Judged'
<1>1. ASSUME NEW j \in Jobs, NEW c \in Clients, NEW u \in Uploads, CreateLooks(j, c, u) PROVE Judged'
  BY <1>1 DEF CreateLooks, IInv, Judged
<1>2. ASSUME NEW j \in Jobs, CreateAdmits(j) PROVE Judged'
  BY <1>2 DEF CreateAdmits, IInv, Staged, Judged
<1>3. ASSUME NEW j \in Jobs, CreateRefused(j) PROVE Judged'
  BY <1>3 DEF CreateRefused, IInv, Judged
<1>4. ASSUME NEW j \in Jobs, TaskQueues(j) PROVE Judged'
  BY <1>4 DEF TaskQueues, IInv, Judged
<1>5. ASSUME NEW j \in Jobs, TaskStarts(j) PROVE Judged'
  <2>1. task[j] = "waiting"
    BY <1>5 DEF TaskStarts, IInv, InLine, TypeOK
  <2>2. task' = [task EXCEPT ![j] = "preparing"] /\ UNCHANGED <<verdict, row, output>>
    BY <1>5 DEF TaskStarts
  <2> QED
    BY <2>1, <2>2 DEF IInv, TypeOK, Judged, Converting
<1>6. ASSUME NEW j \in Jobs, PrepareSucceeds(j) PROVE Judged'
  BY <1>6 DEF PrepareSucceeds, IInv, Converting, Judged
<1>7. ASSUME NEW j \in Jobs, PrepareFails(j) PROVE Judged'
  BY <1>7 DEF PrepareFails, IInv, TypeOK, Judged, Ends
<1>8. ASSUME NEW j \in Jobs, EngineFinishes(j) PROVE Judged'
  BY <1>8 DEF EngineFinishes, IInv, Converting, Judged
<1>9. ASSUME NEW j \in Jobs, Succeeds(j) PROVE Judged'
  BY <1>9 DEF Succeeds, IInv, Converting, TypeOK, Judged, Ends
<1>10. ASSUME NEW j \in Jobs, ReportFails(j) PROVE Judged'
  BY <1>10 DEF ReportFails, IInv, TypeOK, Judged, Ends
<1>11. ASSUME NEW j \in Jobs, ExecutionStops(j) PROVE Judged'
  BY <1>11 DEF ExecutionStops, IInv, Converting, TypeOK, Judged, Ends
<1>12. ASSUME NEW j \in Jobs, TimesOut(j) PROVE Judged'
  BY <1>12 DEF TimesOut, IInv, TypeOK, Judged, Ends
<1>13. ASSUME NEW j \in Jobs, FinishTakesUpload(j) PROVE Judged'
  BY <1>13 DEF FinishTakesUpload, IInv, Converting, TypeOK, Judged
<1>14. ASSUME NEW j \in Jobs, FinishRemovesInput(j) PROVE Judged'
  BY <1>14 DEF FinishRemovesInput, IInv, Converting, Judged
<1>15. ASSUME NEW j \in Jobs, FinishSettles(j) PROVE Judged'
  BY <1>15 DEF FinishSettles, IInv, Converting, TypeOK, Judged, RemoveArtifacts
<1>16. ASSUME NEW r \in Readers, DownloadRecordsZip(r) PROVE Judged'
  BY <1>16 DEF DownloadRecordsZip, IInv, Judged
<1>17. ASSUME SweepJobs PROVE Judged'
  BY <1>17 DEF SweepJobs, IInv, Staged, Judged, RemoveArtifacts
<1>18. ASSUME Restart PROVE Judged'
  BY <1>18 DEF Restart, IInv, Converting, Judged
<1>19. ASSUME UNCHANGED <<job, task, verdict, line, free, row, output>> PROVE Judged'
  BY <1>19 DEF IInv, Judged
<1> QED
  BY <1>1, <1>2, <1>3, <1>4, <1>5, <1>6, <1>7, <1>8, <1>9, <1>10, <1>11, <1>12, <1>13, <1>14,
     <1>15, <1>16, <1>17, <1>18, <1>19, Steps
     DEF TaskSteps

\* A used upload has no file, or someone about to remove it.
LEMMA UsedKept ==
    ASSUME IInv, [Next]_vars PROVE Used'
<1>1. ASSUME NEW u \in Uploads, UploadBegins(u) PROVE Used'
  BY <1>1 DEF UploadBegins, IInv, Used, Known, jobVars
<1>2. ASSUME NEW u \in Uploads, UploadTooLarge(u) PROVE Used'
  BY <1>2 DEF UploadTooLarge, IInv, Used, Known, jobVars
<1>3. ASSUME NEW u \in Uploads, UploadBreaks(u) PROVE Used'
  BY <1>3 DEF UploadBreaks, IInv, Used, Known, jobVars
<1>4. ASSUME NEW u \in Uploads, UploadStored(u) PROVE Used'
  BY <1>4 DEF UploadStored, IInv, Used, Known, jobVars
<1>5. ASSUME NEW u \in Uploads, UploadExpires(u) PROVE Used'
  BY <1>5 DEF UploadExpires, IInv, Used, Known, uploadVars, jobVars
<1>6. ASSUME NEW j \in Jobs, NEW c \in Clients, NEW u \in Uploads, CreateLooks(j, c, u) PROVE Used'
  BY <1>6 DEF CreateLooks, IInv, Staged, Used, Known, uploadVars
<1>7. ASSUME NEW j \in Jobs, CreateAdmits(j) PROVE Used'
  <2>1. "queued" \in JobState
    BY DEF JobState
  <2>2. \A k \in Jobs : /\ job'[k].state = IF k = j THEN "queued" ELSE job[k].state
                        /\ job'[k].upload = job[k].upload
                        /\ job'[k].client = job[k].client
    BY <1>7, <2>1, SetState, Zenon DEF CreateAdmits
  <2>3. task[j] = "none" /\ job[j].state = "asked"
    BY <1>7 DEF CreateAdmits, IInv, Staged
  <2> QED
    BY <1>7, <2>2, <2>3 DEF CreateAdmits, uploadVars, IInv, Used, Known
<1>8. ASSUME NEW j \in Jobs, CreateRefused(j) PROVE Used'
  BY <1>8 DEF CreateRefused, IInv, Used, Known, uploadVars
<1>9. ASSUME NEW j \in Jobs, JobExpires(j) PROVE Used'
  BY <1>9 DEF JobExpires, IInv, Used, Known, uploadVars, jobVars
<1>10. ASSUME NEW j \in Jobs, TaskQueues(j) PROVE Used'
  BY <1>10 DEF TaskQueues, IInv, Used, Known, uploadVars
<1>11. ASSUME NEW j \in Jobs, TaskStarts(j) PROVE Used'
  <2>1. task[j] = "waiting" /\ task' = [task EXCEPT ![j] = "preparing"]
    BY <1>11 DEF TaskStarts, IInv, InLine, TypeOK
  <2>2. \A k \in Jobs : /\ Known(k)' = Known(k) /\ job'[k].upload = job[k].upload
                        /\ job'[k].client = job[k].client
    BY <1>11 DEF TaskStarts, Known, IInv
  <2>3. record' = record /\ file' = file
    BY <1>11 DEF TaskStarts, uploadVars
  <2> QED
    BY <2>1, <2>2, <2>3 DEF IInv, Used
<1>12. ASSUME NEW j \in Jobs, PrepareSucceeds(j) PROVE Used'
  BY <1>12 DEF PrepareSucceeds, IInv, Used, Known, uploadVars
<1>13. ASSUME NEW j \in Jobs, PrepareFails(j) PROVE Used'
  BY <1>13 DEF PrepareFails, IInv, Used, Known, Ends, uploadVars
<1>14. ASSUME NEW j \in Jobs, EngineFinishes(j) PROVE Used'
  BY <1>14 DEF EngineFinishes, IInv, Used, Known, uploadVars
<1>15. ASSUME NEW j \in Jobs, Succeeds(j) PROVE Used'
  BY <1>15 DEF Succeeds, IInv, Used, Known, Ends, uploadVars
<1>16. ASSUME NEW j \in Jobs, ReportFails(j) PROVE Used'
  BY <1>16 DEF ReportFails, IInv, Used, Known, Ends, uploadVars
<1>17. ASSUME NEW j \in Jobs, ExecutionStops(j) PROVE Used'
  BY <1>17 DEF ExecutionStops, IInv, Used, Known, Ends, uploadVars
<1>18. ASSUME NEW j \in Jobs, TimesOut(j) PROVE Used'
  BY <1>18 DEF TimesOut, IInv, Converting, Used, Known, Ends, uploadVars
<1>19. ASSUME NEW j \in Jobs, FinishTakesUpload(j) PROVE Used'
  BY <1>19 DEF FinishTakesUpload, IInv, TypeOK, Used, Known
<1>20. ASSUME NEW j \in Jobs, FinishRemovesInput(j) PROVE Used'
  BY <1>20 DEF FinishRemovesInput, IInv, TypeOK, Used, Known
<1>21. ASSUME NEW j \in Jobs, FinishSettles(j) PROVE Used'
  <2>1. task[j] = "settling" /\ verdict[j] \in {"ok", "error"}
    BY <1>21 DEF FinishSettles, IInv
  <2>2. PICK s \in Terminal : /\ s = "succeeded" <=> verdict[j] = "ok"
                              /\ job' = [job EXCEPT ![j].state = s]
    BY <1>21 DEF FinishSettles, Terminal
  <2>3. s \in JobState
    BY DEF JobState, Terminal
  <2>4. \A k \in Jobs : /\ job'[k].state = IF k = j THEN s ELSE job[k].state
                        /\ job'[k].upload = job[k].upload
                        /\ job'[k].client = job[k].client
    BY <2>2, <2>3, SetState, Zenon
  <2>5. CASE verdict[j] = "ok"
    BY <1>21, <2>1, <2>2, <2>4, <2>5 DEF FinishSettles, uploadVars, IInv, Staged, Used, Known
  <2>6. CASE verdict[j] = "error"
    BY <1>21, <2>1, <2>2, <2>4, <2>6 DEF FinishSettles, uploadVars, IInv, Staged, Used, Known
  <2> QED
    BY <2>1, <2>5, <2>6
<1>22. ASSUME NEW r \in Readers, NEW j \in Jobs, DownloadAsks(r, j) PROVE Used'
  BY <1>22 DEF DownloadAsks, IInv, Used, Known, uploadVars
<1>23. ASSUME NEW r \in Readers, ZipEnds(r) PROVE Used'
  BY <1>23 DEF ZipEnds, IInv, Used, Known, uploadVars
<1>24. ASSUME NEW r \in Readers, DownloadRecordsZip(r) PROVE Used'
  <2>1. UNCHANGED <<task, record, file>>
    BY <1>24 DEF DownloadRecordsZip, uploadVars
  <2> QED
    BY <1>24, <2>1, SetZipped DEF IInv, Used, Known
<1>25. ASSUME NEW r \in Readers, DownloadOpens(r) PROVE Used'
  BY <1>25 DEF DownloadOpens, IInv, Used, Known, uploadVars, jobVars
<1>26. ASSUME SweepUploads PROVE Used'
  BY <1>26 DEF SweepUploads, IInv, Used, Known, jobVars
<1>27. ASSUME SweepJobs PROVE Used'
  BY <1>27 DEF SweepJobs, IInv, Staged, Used, Known, uploadVars
<1>28. ASSUME Restart PROVE Used'
  BY <1>28 DEF Restart, IInv, Used, Known
<1>29. ASSUME UNCHANGED vars PROVE Used'
  BY <1>29 DEF vars, IInv, Used, Known
<1> QED
  BY <1>1, <1>2, <1>3, <1>4, <1>5, <1>6, <1>7, <1>8, <1>9, <1>10, <1>11, <1>12, <1>13, <1>14,
     <1>15, <1>16, <1>17, <1>18, <1>19, <1>20, <1>21, <1>22, <1>23, <1>24, <1>25, <1>26, <1>27,
     <1>28, <1>29
     DEF Next, TaskSteps

\* The artifact of a success stays.
LEMMA SuccessKept ==
    ASSUME IInv, [Next]_vars PROVE ResultKept'
<1>1. ASSUME NEW j \in Jobs, NEW c \in Clients, NEW u \in Uploads, CreateLooks(j, c, u) PROVE ResultKept'
  BY <1>1 DEF CreateLooks, IInv, ResultKept
<1>2. ASSUME NEW j \in Jobs, CreateAdmits(j) PROVE ResultKept'
  BY <1>2 DEF CreateAdmits, IInv, ResultKept
<1>3. ASSUME NEW j \in Jobs, CreateRefused(j) PROVE ResultKept'
  BY <1>3 DEF CreateRefused, IInv, ResultKept
<1>4. ASSUME NEW j \in Jobs, TaskQueues(j) PROVE ResultKept'
  BY <1>4 DEF TaskQueues, IInv, ResultKept
<1>5. ASSUME NEW j \in Jobs, TaskStarts(j) PROVE ResultKept'
  BY <1>5 DEF TaskStarts, IInv, ResultKept
<1>6. ASSUME NEW j \in Jobs, PrepareSucceeds(j) PROVE ResultKept'
  BY <1>6 DEF PrepareSucceeds, IInv, Converting, Judged, ResultKept
<1>7. ASSUME NEW j \in Jobs, PrepareFails(j) PROVE ResultKept'
  BY <1>7 DEF PrepareFails, IInv, Converting, Judged, ResultKept
<1>8. ASSUME NEW j \in Jobs, EngineFinishes(j) PROVE ResultKept'
  BY <1>8 DEF EngineFinishes, IInv, Converting, Judged, ResultKept
<1>9. ASSUME NEW j \in Jobs, Succeeds(j) PROVE ResultKept'
  BY <1>9 DEF Succeeds, IInv, ResultKept
<1>10. ASSUME NEW j \in Jobs, ReportFails(j) PROVE ResultKept'
  BY <1>10 DEF ReportFails, IInv, Converting, Judged, ResultKept
<1>11. ASSUME NEW j \in Jobs, ExecutionStops(j) PROVE ResultKept'
  BY <1>11 DEF ExecutionStops, IInv, Converting, Judged, ResultKept
<1>12. ASSUME NEW j \in Jobs, TimesOut(j) PROVE ResultKept'
  BY <1>12 DEF TimesOut, IInv, ResultKept
<1>13. ASSUME NEW j \in Jobs, FinishTakesUpload(j) PROVE ResultKept'
  BY <1>13 DEF FinishTakesUpload, IInv, ResultKept
<1>14. ASSUME NEW j \in Jobs, FinishRemovesInput(j) PROVE ResultKept'
  BY <1>14 DEF FinishRemovesInput, IInv, ResultKept
<1>15. ASSUME NEW j \in Jobs, FinishSettles(j) PROVE ResultKept'
  <2>1. task[j] = "settling" /\ verdict[j] \in {"ok", "error"}
    BY <1>15 DEF FinishSettles, IInv
  <2>2. PICK s \in Terminal : /\ s = "succeeded" <=> verdict[j] = "ok"
                              /\ job' = [job EXCEPT ![j].state = s]
    BY <1>15 DEF FinishSettles, Terminal
  <2>3. s \in JobState
    BY DEF JobState, Terminal
  <2>4. \A k \in Jobs : /\ job'[k].state = IF k = j THEN s ELSE job[k].state
                        /\ job'[k].upload = job[k].upload
                        /\ job'[k].client = job[k].client
    BY <2>2, <2>3, SetState, Zenon
  <2>5. CASE verdict[j] = "ok"
    BY <1>15, <2>1, <2>2, <2>4, <2>5 DEF FinishSettles, IInv, Judged, ResultKept
  <2>6. CASE verdict[j] = "error"
    BY <1>15, <2>1, <2>2, <2>4, <2>6 DEF FinishSettles, RemoveArtifacts, IInv, TypeOK, ResultKept
  <2> QED
    BY <2>1, <2>5, <2>6
<1>16. ASSUME NEW r \in Readers, DownloadRecordsZip(r) PROVE ResultKept'
  BY <1>16 DEF DownloadRecordsZip, IInv, ResultKept
<1>17. ASSUME SweepJobs PROVE ResultKept'
  BY <1>17 DEF SweepJobs, IInv, TypeOK, ResultKept, RemoveArtifacts
<1>18. ASSUME Restart PROVE ResultKept'
  BY <1>18 DEF Restart, IInv, ResultKept
<1>19. ASSUME UNCHANGED <<job, task, verdict, line, free, row, output>> PROVE ResultKept'
  BY <1>19 DEF IInv, ResultKept
<1> QED
  BY <1>1, <1>2, <1>3, <1>4, <1>5, <1>6, <1>7, <1>8, <1>9, <1>10, <1>11, <1>12, <1>13, <1>14,
     <1>15, <1>16, <1>17, <1>18, <1>19, Steps
     DEF TaskSteps

\* The artifact of a failure goes.
LEMMA FailureKept ==
    ASSUME IInv, [Next]_vars PROVE FailedLeavesNothing'
<1>1. ASSUME NEW j \in Jobs, NEW c \in Clients, NEW u \in Uploads, CreateLooks(j, c, u) PROVE FailedLeavesNothing'
  BY <1>1 DEF CreateLooks, IInv, FailedLeavesNothing
<1>2. ASSUME NEW j \in Jobs, CreateAdmits(j) PROVE FailedLeavesNothing'
  BY <1>2 DEF CreateAdmits, IInv, FailedLeavesNothing
<1>3. ASSUME NEW j \in Jobs, CreateRefused(j) PROVE FailedLeavesNothing'
  BY <1>3 DEF CreateRefused, IInv, FailedLeavesNothing
<1>4. ASSUME NEW j \in Jobs, TaskQueues(j) PROVE FailedLeavesNothing'
  BY <1>4 DEF TaskQueues, IInv, FailedLeavesNothing
<1>5. ASSUME NEW j \in Jobs, TaskStarts(j) PROVE FailedLeavesNothing'
  BY <1>5 DEF TaskStarts, IInv, FailedLeavesNothing
<1>6. ASSUME NEW j \in Jobs, PrepareSucceeds(j) PROVE FailedLeavesNothing'
  BY <1>6 DEF PrepareSucceeds, IInv, FailedLeavesNothing
<1>7. ASSUME NEW j \in Jobs, PrepareFails(j) PROVE FailedLeavesNothing'
  BY <1>7 DEF PrepareFails, IInv, FailedLeavesNothing
<1>8. ASSUME NEW j \in Jobs, EngineFinishes(j) PROVE FailedLeavesNothing'
  BY <1>8 DEF EngineFinishes, IInv, FailedLeavesNothing
<1>9. ASSUME NEW j \in Jobs, Succeeds(j) PROVE FailedLeavesNothing'
  BY <1>9 DEF Succeeds, IInv, Terminal, Staged, FailedLeavesNothing
<1>10. ASSUME NEW j \in Jobs, ReportFails(j) PROVE FailedLeavesNothing'
  BY <1>10 DEF ReportFails, IInv, Terminal, Staged, FailedLeavesNothing
<1>11. ASSUME NEW j \in Jobs, ExecutionStops(j) PROVE FailedLeavesNothing'
  BY <1>11 DEF ExecutionStops, IInv, FailedLeavesNothing
<1>12. ASSUME NEW j \in Jobs, TimesOut(j) PROVE FailedLeavesNothing'
  BY <1>12 DEF TimesOut, IInv, FailedLeavesNothing
<1>13. ASSUME NEW j \in Jobs, FinishTakesUpload(j) PROVE FailedLeavesNothing'
  BY <1>13 DEF FinishTakesUpload, IInv, FailedLeavesNothing
<1>14. ASSUME NEW j \in Jobs, FinishRemovesInput(j) PROVE FailedLeavesNothing'
  BY <1>14 DEF FinishRemovesInput, IInv, FailedLeavesNothing
<1>15. ASSUME NEW j \in Jobs, FinishSettles(j) PROVE FailedLeavesNothing'
  <2>1. task[j] = "settling" /\ verdict[j] \in {"ok", "error"}
    BY <1>15 DEF FinishSettles, IInv
  <2>2. PICK s \in Terminal : /\ s = "succeeded" <=> verdict[j] = "ok"
                              /\ job' = [job EXCEPT ![j].state = s]
    BY <1>15 DEF FinishSettles, Terminal
  <2>3. s \in JobState
    BY DEF JobState, Terminal
  <2>4. \A k \in Jobs : /\ job'[k].state = IF k = j THEN s ELSE job[k].state
                        /\ job'[k].upload = job[k].upload
                        /\ job'[k].client = job[k].client
    BY <2>2, <2>3, SetState, Zenon
  <2>5. CASE verdict[j] = "ok"
    BY <1>15, <2>1, <2>2, <2>4, <2>5 DEF FinishSettles, IInv, FailedLeavesNothing
  <2>6. CASE verdict[j] = "error"
    <3>0. output' = [k \in Jobs |-> output[k] /\ k \notin {j}]
      BY <1>15, <2>6 DEF FinishSettles, RemoveArtifacts
    <3>1. \A k \in Jobs : output'[k] <=> output[k] /\ k # j
      BY <3>0
    <3>2. s = "failed" /\ row' = row
      BY <1>15, <2>2, <2>6 DEF FinishSettles, Terminal
    <3>3. row[j] # "completed"
      BY <2>1, <2>6 DEF IInv, Judged
    <3> QED
      BY <2>4, <3>1, <3>2, <3>3 DEF IInv, FailedLeavesNothing
  <2> QED
    BY <2>1, <2>5, <2>6
<1>16. ASSUME NEW r \in Readers, DownloadRecordsZip(r) PROVE FailedLeavesNothing'
  BY <1>16 DEF DownloadRecordsZip, IInv, FailedLeavesNothing
<1>17. ASSUME SweepJobs PROVE FailedLeavesNothing'
  BY <1>17 DEF SweepJobs, IInv, TypeOK, FailedLeavesNothing, RemoveArtifacts
<1>18. ASSUME Restart PROVE FailedLeavesNothing'
  BY <1>18 DEF Restart, IInv, FailedLeavesNothing
<1>19. ASSUME UNCHANGED <<job, task, verdict, line, free, row, output>> PROVE FailedLeavesNothing'
  BY <1>19 DEF IInv, FailedLeavesNothing
<1> QED
  BY <1>1, <1>2, <1>3, <1>4, <1>5, <1>6, <1>7, <1>8, <1>9, <1>10, <1>11, <1>12, <1>13, <1>14,
     <1>15, <1>16, <1>17, <1>18, <1>19, Steps
     DEF TaskSteps

-----------------------------------------------------------------------------
LEMMA InitInv == Init => IInv
<1> SUFFICES ASSUME Init PROVE IInv
  OBVIOUS
<1>1. TypeOK
  <2>1. NoJob \in JobRecord /\ Idle \in ReaderState
    BY DEF NoJob, JobRecord, JobState, Idle, ReaderState
  <2> QED
    BY <2>1, SlotsAssumption DEF Init, TypeOK, RecordState, TaskStep, RowState
<1>2. Staged /\ Judged /\ Used /\ InLine /\ ResultKept /\ FailedLeavesNothing /\ OneConversionPerClient
  BY DEF Init, Staged, Judged, Used, InLine, ResultKept, FailedLeavesNothing,
         OneConversionPerClient, Known, NoJob, Terminal, Active, Converting
<1>3. PermitsAccounted
  <2>1. Holders = {}
    BY DEF Init, Holders, Converting
  <2>2. Cardinality(Holders) = 0
    BY <2>1, FS_EmptySet
  <2> QED
    BY <2>2, SlotsAssumption DEF Init, PermitsAccounted, Holders
<1> QED
  BY <1>1, <1>2, <1>3 DEF IInv

LEMMA SpecInvariant == Spec => []IInv
<1>1. IInv /\ [Next]_vars => IInv'
  <2> SUFFICES ASSUME IInv, [Next]_vars PROVE IInv'
    OBVIOUS
  <2> QED
    BY TypeKept, StagedKept, InLineKept, OneKept, PermitsKept, JudgedKept, UsedKept,
       SuccessKept, FailureKept DEF IInv
<1> QED
  BY InitInv, <1>1, PTL DEF Spec

\* Every variable keeps its type; in particular the semaphore never holds more
\* permits than it began with (execute_web_job).
THEOREM TypeCorrect == Spec => []TypeOK
<1>1. IInv => TypeOK
  BY DEF IInv
<1> QED
  BY SpecInvariant, <1>1, PTL

\* One conversion for each client address and no permit lost or returned twice,
\* for any number of clients, jobs and permits (create_job, execute_web_job).
THEOREM AdmissionIsExact == Spec => []AdmissionExact
<1>1. IInv => AdmissionExact
  BY DEF IInv, AdmissionExact
<1> QED
  BY SpecInvariant, <1>1, PTL

\* What the API says of a job is true of its files: a success has its artifact
\* and its completed row, a failure has neither, and the input of both is gone
\* or about to be removed (finish_web_job, sweep_expired, download_job_output).
THEOREM FilesMatch == Spec => []FilesMatchJobs
<1>1. IInv => InputGone
  <2> SUFFICES ASSUME IInv, NEW j \in Jobs, job[j].state \in Terminal
               PROVE  \/ file[job[j].upload] = "none"
                      \/ \E k \in Jobs : task[k] = "removing" /\ job[k].upload = job[j].upload
    BY DEF InputGone
  <2>1. task[j] = "done" /\ Known(j)
    BY DEF IInv, Staged, Known, Terminal
  <2> QED
    BY <2>1 DEF IInv, Used
<1>2. IInv => FilesMatchJobs
  BY <1>1 DEF IInv, FilesMatchJobs
<1> QED
  BY SpecInvariant, <1>2, PTL
=============================================================================
