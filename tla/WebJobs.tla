------------------------------ MODULE WebJobs ------------------------------
(***************************************************************************)
(* The web track of the API server (crates/server/src/web.rs): uploads,    *)
(* queued conversions and downloads.  Uploads and jobs live in two maps,   *)
(* each under its own mutex, the files they name live on disk, and every   *)
(* conversion also writes a row of the durable store through               *)
(* ConversionService::run_prepared.  An action is what happens between two *)
(* awaits: a critical section, or one poll of a conversion.                *)
(* The clock is left out: a record may expire at any moment after it was   *)
(* made, and a watchdog may fire at any moment of its conversion.          *)
(***************************************************************************)
EXTENDS Naturals, Sequences, FiniteSets

CONSTANTS Clients,     \* addresses that forwarded_client_ip() tells apart
          Uploads,     \* upload IDs, each given out once
          Jobs,        \* job IDs, each given out once
          Readers,     \* download requests that may be under way at once
          Slots,       \* max_concurrent_conversions.max(1)
          NoOne        \* no client, no upload, no job

ASSUME SlotsAssumption == Slots \in Nat \ {0}
ASSUME NoOneAssumption == NoOne \notin Clients \cup Uploads \cup Jobs
ASSUME DisjointIds == Uploads \cap Jobs = {}
ASSUME JobsAssumption == IsFiniteSet(Jobs)

VARIABLES
    record,    \* uploads: the map of UploadRecords and what is not in it yet
    file,      \* the stored inputs on disk
    job,       \* jobs: the map of WebJobs and the requests that make them
    expired,   \* uploads and jobs whose expires_at has passed
    task,      \* where execute_web_job is with each job
    verdict,   \* the outcome of its conversion that it carries to the end
    line,      \* tasks waiting for a permit: the semaphore is first come, first served
    free,      \* permits of conversion_slots
    row,       \* the rows of the durable store; Warning counts as completed
    output,    \* the artifacts on disk
    zip,       \* the archives of paged artifacts on disk
    reader     \* downloads

vars == <<record, file, job, expired, task, verdict, line, free, row, output, zip, reader>>

JobState == {"none", "asked", "refused", "queued", "running", "succeeded",
             "failed", "swept", "lost"}
Active == {"queued", "running"}
Terminal == {"succeeded", "failed"}
Converting == {"preparing", "executing", "validating"}

\* the artifact of a paged job is a directory, shipped as a zip
NoJob == [state |-> "none", client |-> NoOne, upload |-> NoOne,
          paged |-> FALSE, zipped |-> FALSE]
Idle == [step |-> "idle", job |-> NoOne]

JobRecord == [state : JobState, client : Clients \cup {NoOne},
              upload : Uploads \cup {NoOne}, paged : BOOLEAN, zipped : BOOLEAN]
RecordState == {"none", "storing", "live", "over", "lost"}
TaskStep == Converting \cup
    {"none", "spawned", "waiting", "ended", "removing", "settling", "done", "gone"}
RowState == {"none", "created", "running", "validating", "completed",
             "interrupted", "cancelled", "failed"}
ReaderState == [step : {"idle", "zipping", "zipped", "opening"}, job : Jobs \cup {NoOne}]

TypeOK ==
    /\ record \in [Uploads -> RecordState]
    /\ file \in [Uploads -> {"none", "part", "whole"}]
    /\ job \in [Jobs -> JobRecord]
    /\ expired \subseteq Uploads \cup Jobs
    /\ task \in [Jobs -> TaskStep]
    /\ verdict \in [Jobs -> {"none", "ok", "error"}]
    /\ line \in Seq(Jobs)
    /\ free \in 0..Slots
    /\ row \in [Jobs -> RowState]
    /\ output \in [Jobs -> BOOLEAN]
    /\ zip \in [Jobs -> {"none", "part", "whole"}]
    /\ reader \in [Readers -> ReaderState]

Init ==
    /\ record = [u \in Uploads |-> "none"]
    /\ file = [u \in Uploads |-> "none"]
    /\ job = [j \in Jobs |-> NoJob]
    /\ expired = {}
    /\ task = [j \in Jobs |-> "none"]
    /\ verdict = [j \in Jobs |-> "none"]
    /\ line = <<>>
    /\ free = Slots
    /\ row = [j \in Jobs |-> "none"]
    /\ output = [j \in Jobs |-> FALSE]
    /\ zip = [j \in Jobs |-> "none"]
    /\ reader = [r \in Readers |-> Idle]

-----------------------------------------------------------------------------
(* POST /v1/uploads *)

uploadVars == <<record, file>>
jobVars == <<job, task, verdict, line, free, row, output, zip>>

UploadBegins(u) ==
    /\ record[u] = "none"
    /\ record' = [record EXCEPT ![u] = "storing"]
    /\ file' = [file EXCEPT ![u] = "part"]
    /\ UNCHANGED <<jobVars, expired, reader>>

UploadTooLarge(u) ==
    /\ record[u] = "storing"
    /\ record' = [record EXCEPT ![u] = "over"]
    /\ file' = [file EXCEPT ![u] = "none"]
    /\ UNCHANGED <<jobVars, expired, reader>>

\* The stream or a write fails, or the client goes away and the handler is
\* dropped: the early return leaves the file, and no record names it.
UploadBreaks(u) ==
    /\ record[u] = "storing"
    /\ record' = [record EXCEPT ![u] = "over"]
    /\ UNCHANGED <<jobVars, file, expired, reader>>

UploadStored(u) ==
    /\ record[u] = "storing"
    /\ record' = [record EXCEPT ![u] = "live"]
    /\ file' = [file EXCEPT ![u] = "whole"]
    /\ UNCHANGED <<jobVars, expired, reader>>

-----------------------------------------------------------------------------
(* POST /v1/jobs *)

\* The upload is looked up and its file tested; the lock is not kept.
CreateLooks(j, c, u) ==
    /\ job[j].state = "none"
    /\ record[u] = "live" /\ file[u] # "none"
    /\ \E paged \in BOOLEAN :
          job' = [job EXCEPT ![j] = [state |-> "asked", client |-> c, upload |-> u,
                                     paged |-> paged, zipped |-> FALSE]]
    /\ UNCHANGED <<uploadVars, expired, task, verdict, line, free, row, output, zip, reader>>

Busy(c) == \E j \in Jobs : job[j].state \in Active /\ job[j].client = c

\* One conversion for each client address, decided under the jobs lock.
CreateAdmits(j) ==
    /\ job[j].state = "asked"
    /\ ~Busy(job[j].client)
    /\ job' = [job EXCEPT ![j].state = "queued"]
    /\ task' = [task EXCEPT ![j] = "spawned"]
    /\ UNCHANGED <<uploadVars, expired, verdict, line, free, row, output, zip, reader>>

\* Refused, or dropped with its connection while it waits for the lock.
CreateRefused(j) ==
    /\ job[j].state = "asked"
    /\ job' = [job EXCEPT ![j].state = "refused"]
    /\ UNCHANGED <<uploadVars, expired, task, verdict, line, free, row, output, zip, reader>>

-----------------------------------------------------------------------------
(* execute_web_job *)

\* The spawned task asks for a permit.
TaskQueues(j) ==
    /\ task[j] = "spawned"
    /\ task' = [task EXCEPT ![j] = "waiting"]
    /\ line' = Append(line, j)
    /\ UNCHANGED <<uploadVars, expired, job, verdict, free, row, output, zip, reader>>

TaskStarts(j) ==
    /\ line # <<>> /\ Head(line) = j /\ free > 0
    /\ line' = Tail(line)
    /\ free' = free - 1
    /\ job' = [job EXCEPT ![j].state = IF @ = "queued" THEN "running" ELSE @]
    /\ task' = [task EXCEPT ![j] = "preparing"]
    /\ UNCHANGED <<uploadVars, expired, verdict, row, output, zip, reader>>

\* prepare_conversion reads the input; then the row is created and moved to
\* Running before the next await.
PrepareSucceeds(j) ==
    /\ task[j] = "preparing"
    /\ file[job[j].upload] # "none"
    /\ task' = [task EXCEPT ![j] = "executing"]
    /\ row' = [row EXCEPT ![j] = "running"]
    /\ UNCHANGED <<uploadVars, expired, job, verdict, line, free, output, zip, reader>>

\* The conversion has its outcome: the watchdog is aborted, the permit returned.
Ends(j, outcome) ==
    /\ task' = [task EXCEPT ![j] = "ended"]
    /\ verdict' = [verdict EXCEPT ![j] = outcome]
    /\ free' = free + 1

\* Mutant: an early return forgets the permit.
PrepareFailsHoldingPermit(j) ==
    /\ task[j] = "preparing"
    /\ task' = [task EXCEPT ![j] = "ended"]
    /\ verdict' = [verdict EXCEPT ![j] = "error"]
    /\ UNCHANGED <<uploadVars, expired, job, line, free, row, output, zip, reader>>

\* Inspection, planning or a write of the store fails; the row may be there
\* already, created and not yet running.
PrepareFails(j) ==
    /\ task[j] = "preparing"
    /\ \E state \in {"none", "created"} : row' = [row EXCEPT ![j] = state]
    /\ Ends(j, "error")
    /\ UNCHANGED <<uploadVars, expired, job, line, output, zip, reader>>

EngineFinishes(j) ==
    /\ task[j] = "executing"
    /\ task' = [task EXCEPT ![j] = "validating"]
    /\ row' = [row EXCEPT ![j] = "validating"]
    /\ UNCHANGED <<uploadVars, expired, job, verdict, line, free, output, zip, reader>>

\* The input is compared once more, the artifact renamed into place, the
\* report saved and the row settled: no await in between.
Succeeds(j) ==
    /\ task[j] = "validating"
    /\ file[job[j].upload] # "none"
    /\ output' = [output EXCEPT ![j] = TRUE]
    /\ row' = [row EXCEPT ![j] = "completed"]
    /\ Ends(j, "ok")
    /\ UNCHANGED <<uploadVars, expired, job, line, zip, reader>>

\* The report cannot be saved, or the last transition is refused: the artifact
\* is in place and the conversion is an error all the same.
ReportFails(j) ==
    /\ task[j] = "validating"
    /\ file[job[j].upload] # "none"
    /\ output' = [output EXCEPT ![j] = TRUE]
    /\ \E state \in {"interrupted", "validating"} : row' = [row EXCEPT ![j] = state]
    /\ Ends(j, "error")
    /\ UNCHANGED <<uploadVars, expired, job, line, zip, reader>>

\* The runner gives up, or sees the cancelled token first, and run_prepared
\* settles the row; that write may fail too.
ExecutionStops(j) ==
    /\ task[j] \in {"executing", "validating"}
    /\ \E state \in {"failed", "cancelled", row[j]} : row' = [row EXCEPT ![j] = state]
    /\ Ends(j, "error")
    /\ UNCHANGED <<uploadVars, expired, job, line, output, zip, reader>>

\* Mutant: the watchdog covers the engine only.
TimesOutInEngine(j) ==
    /\ task[j] \in {"executing", "validating"}
    /\ Ends(j, "error")
    /\ UNCHANGED <<uploadVars, expired, job, line, row, output, zip, reader>>

\* The select takes the watchdog's branch: the conversion is dropped where it
\* stands and its row stays as it is.
TimesOut(j) ==
    /\ task[j] \in Converting
    /\ Ends(j, "error")
    /\ UNCHANGED <<uploadVars, expired, job, line, row, output, zip, reader>>

\* finish_web_job: the upload's record goes first, ...
FinishTakesUpload(j) ==
    /\ task[j] = "ended"
    /\ IF record[job[j].upload] = "live"
       THEN /\ record' = [record EXCEPT ![job[j].upload] = "over"]
            /\ task' = [task EXCEPT ![j] = "removing"]
       ELSE /\ task' = [task EXCEPT ![j] = "settling"]
            /\ UNCHANGED record
    /\ UNCHANGED <<file, expired, job, verdict, line, free, row, output, zip, reader>>

\* ... then its file, ...
FinishRemovesInput(j) ==
    /\ task[j] = "removing"
    /\ file' = [file EXCEPT ![job[j].upload] = "none"]
    /\ task' = [task EXCEPT ![j] = "settling"]
    /\ UNCHANGED <<record, expired, job, verdict, line, free, row, output, zip, reader>>

\* remove_output_artifacts for a set of jobs
RemoveArtifacts(these) ==
    /\ output' = [j \in Jobs |-> output[j] /\ j \notin these]
    /\ zip' = [j \in Jobs |-> IF j \in these /\ job[j].zipped THEN "none" ELSE zip[j]]

\* ... and the job is settled and lives for another TTL.
FinishSettles(j) ==
    /\ task[j] = "settling"
    /\ task' = [task EXCEPT ![j] = "done"]
    /\ expired' = expired \ {j}
    /\ \/ /\ verdict[j] = "ok"
          /\ job' = [job EXCEPT ![j].state = "succeeded"]
          /\ UNCHANGED <<output, zip>>
       \/ /\ verdict[j] = "error"
          /\ job' = [job EXCEPT ![j].state = "failed"]
          /\ RemoveArtifacts({j})
    /\ UNCHANGED <<uploadVars, verdict, line, free, row, reader>>

-----------------------------------------------------------------------------
(* GET /v1/jobs/{job_id}/download *)

\* The job's paths are copied under the lock; a paged artifact without a usable
\* archive is zipped, which begins by truncating the archive file.
DownloadAsks(r, j) ==
    /\ reader[r] = Idle
    /\ job[j].state = "succeeded"
    /\ IF job[j].paged /\ output[j] /\ ~(job[j].zipped /\ zip[j] # "none")
       THEN /\ zip' = [zip EXCEPT ![j] = "part"]
            /\ reader' = [reader EXCEPT ![r] = [step |-> "zipping", job |-> j]]
       ELSE /\ reader' = [reader EXCEPT ![r] = [step |-> "opening", job |-> j]]
            /\ UNCHANGED zip
    /\ UNCHANGED <<uploadVars, expired, job, task, verdict, line, free, row, output>>

\* Every concurrent zip of the same directory writes the same file.
ZipEnds(r) ==
    LET j == reader[r].job
        others == \E q \in Readers \ {r} : reader[q] = [step |-> "zipping", job |-> j]
    IN  /\ reader[r].step = "zipping"
        /\ \/ /\ output[j]
              /\ zip' = [zip EXCEPT ![j] = IF others \/ @ = "none" THEN @ ELSE "whole"]
              /\ reader' = [reader EXCEPT ![r].step = "zipped"]
           \/ /\ reader' = [reader EXCEPT ![r] = Idle]     \* an error: the archive stays
              /\ UNCHANGED zip
        /\ UNCHANGED <<uploadVars, expired, job, task, verdict, line, free, row, output>>

DownloadRecordsZip(r) ==
    LET j == reader[r].job
    IN  /\ reader[r].step = "zipped"
        /\ job' = [job EXCEPT ![j].zipped = @ \/ job[j].state = "succeeded"]
        /\ reader' = [reader EXCEPT ![r].step = "opening"]
        /\ UNCHANGED <<uploadVars, expired, task, verdict, line, free, row, output, zip>>

\* The source is opened and streamed, or found to be gone (404).
DownloadOpens(r) ==
    /\ reader[r].step = "opening"
    /\ reader' = [reader EXCEPT ![r] = Idle]
    /\ UNCHANGED <<uploadVars, expired, jobVars>>

-----------------------------------------------------------------------------
(* sweep_expired, the clock and the server's end *)

UploadExpires(u) ==
    /\ record[u] = "live" /\ u \notin expired
    /\ expired' = expired \cup {u}
    /\ UNCHANGED <<uploadVars, jobVars, reader>>

JobExpires(j) ==
    /\ job[j].state \in Active \cup Terminal /\ j \notin expired
    /\ expired' = expired \cup {j}
    /\ UNCHANGED <<uploadVars, jobVars, reader>>

SweepUploads ==
    LET dead == {u \in Uploads \cap expired : record[u] = "live"}
    IN  /\ dead # {}
        /\ record' = [u \in Uploads |-> IF u \in dead THEN "over" ELSE record[u]]
        /\ file' = [u \in Uploads |-> IF u \in dead THEN "none" ELSE file[u]]
        /\ UNCHANGED <<jobVars, expired, reader>>

\* Mutant: only the record of an active job is spared, not its artifact.
SweepJobsAndArtifacts ==
    LET dead == {j \in Jobs \cap expired : job[j].state \in Active \cup Terminal}
    IN  /\ dead # {}
        /\ job' = [j \in Jobs |-> IF j \in dead /\ job[j].state \in Terminal
                                  THEN [job[j] EXCEPT !.state = "swept"] ELSE job[j]]
        /\ RemoveArtifacts(dead)
        /\ UNCHANGED <<uploadVars, expired, task, verdict, line, free, row, reader>>

SweepJobs ==
    LET dead == {j \in Jobs \cap expired : job[j].state \in Terminal}
    IN  /\ dead # {}
        /\ job' = [j \in Jobs |-> IF j \in dead THEN [job[j] EXCEPT !.state = "swept"] ELSE job[j]]
        /\ RemoveArtifacts(dead)
        /\ UNCHANGED <<uploadVars, expired, task, verdict, line, free, row, reader>>

\* The process ends and another one starts: the maps are empty, the files stay.
Restart ==
    /\ record' = [u \in Uploads |-> IF record[u] = "none" THEN "none" ELSE "lost"]
    /\ job' = [j \in Jobs |-> IF job[j].state = "none" THEN job[j]
                              ELSE [job[j] EXCEPT !.state = "lost"]]
    /\ task' = [j \in Jobs |-> IF task[j] = "none" THEN "none" ELSE "gone"]
    /\ verdict' = [j \in Jobs |-> "none"]
    /\ line' = <<>>
    /\ free' = Slots
    /\ reader' = [r \in Readers |-> Idle]
    /\ UNCHANGED <<file, expired, row, output, zip>>

-----------------------------------------------------------------------------
TaskSteps(j) ==
    \/ TaskQueues(j) \/ TaskStarts(j) \/ PrepareSucceeds(j) \/ PrepareFails(j)
    \/ EngineFinishes(j) \/ Succeeds(j) \/ ReportFails(j) \/ ExecutionStops(j)
    \/ TimesOut(j) \/ FinishTakesUpload(j) \/ FinishRemovesInput(j) \/ FinishSettles(j)

Next ==
    \/ \E u \in Uploads : \/ UploadBegins(u) \/ UploadTooLarge(u) \/ UploadBreaks(u)
                          \/ UploadStored(u) \/ UploadExpires(u)
    \/ \E j \in Jobs : \/ \E c \in Clients, u \in Uploads : CreateLooks(j, c, u)
                       \/ CreateAdmits(j) \/ CreateRefused(j) \/ JobExpires(j)
                       \/ TaskSteps(j)
    \/ \E r \in Readers : \/ \E j \in Jobs : DownloadAsks(r, j)
                          \/ ZipEnds(r) \/ DownloadRecordsZip(r) \/ DownloadOpens(r)
    \/ SweepUploads \/ SweepJobs \/ Restart

Spec == Init /\ [][Next]_vars

\* The runtime polls every ready task, the watchdog fires in the end, time
\* passes, and the sweeper ticks.  No engine need ever finish.
FairSpec ==
    /\ Spec
    /\ \A j \in Jobs : /\ WF_vars(TaskQueues(j)) /\ WF_vars(TaskStarts(j))
                       /\ WF_vars(TimesOut(j)) /\ WF_vars(FinishTakesUpload(j))
                       /\ WF_vars(FinishRemovesInput(j)) /\ WF_vars(FinishSettles(j))
    /\ \A u \in Uploads : WF_vars(UploadExpires(u))
    /\ WF_vars(SweepUploads)

-----------------------------------------------------------------------------
(* Properties *)

\* A job that the API reports as succeeded has its artifact on disk and a
\* completed row in the durable store, through every finish, sweep and
\* download that runs beside it.
ResultKept ==
    \A j \in Jobs : job[j].state = "succeeded" => output[j] /\ row[j] = "completed"

\* A failed conversion leaves no artifact, not even one whose rename succeeded
\* and whose report did not, and the durable store does not call it a success.
FailedLeavesNothing ==
    \A j \in Jobs : job[j].state = "failed" => ~output[j] /\ row[j] # "completed"

\* "inputs are deleted as soon as their conversion reaches a terminal state":
\* once a job is terminal its input is gone, or another job that used the same
\* upload is just about to remove it.
InputGone ==
    \A j \in Jobs : job[j].state \in Terminal =>
        \/ file[job[j].upload] = "none"
        \/ \E k \in Jobs : task[k] = "removing" /\ job[k].upload = job[j].upload

\* What the API says of a job is true of its files: the artifact of a success
\* stays, a failure leaves none, and the input of either is removed
\* (finish_web_job, sweep and download beside each other).
FilesMatchJobs == ResultKept /\ FailedLeavesNothing /\ InputGone

\* One queued or running conversion for each client address.
OneConversionPerClient ==
    \A j, k \in Jobs :
        (job[j].state \in Active /\ job[k].state \in Active /\ job[j].client = job[k].client)
            => j = k

\* Every permit is free or held by a running conversion: none is lost on the
\* many ways out of execute_web_job, and none is returned twice.
PermitsAccounted ==
    free + Cardinality({j \in Jobs : task[j] \in Converting}) = Slots

\* Admission is exact: one conversion for each client address, and every permit
\* accounted for (create_job, execute_web_job).
AdmissionExact == OneConversionPerClient /\ PermitsAccounted

\* Whoever is accepted gets an answer: no job stays queued or running, though
\* its engine may hang, unless the server itself is restarted.
JobsEnd ==
    \A j \in Jobs : job[j].state = "queued" ~> job[j].state \notin Active

\* The file of a registered upload disappears, used or not, unless the server
\* is restarted before the sweep.
UploadsGo ==
    \A u \in Uploads : record[u] = "live" ~>
        file[u] = "none" \/ record[u] = "lost"

\* Nothing waits for ever: neither a client for its answer nor an upload for
\* its removal.
EverythingEnds == JobsEnd /\ UploadsGo
=============================================================================
