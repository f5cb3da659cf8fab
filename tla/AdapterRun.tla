----------------------------- MODULE AdapterRun -----------------------------
(***************************************************************************)
(* One conversion inside execute_plan_observed (crates/core/src/runner.rs  *)
(* and the mail modules): what each adapter does between the call and its  *)
(* return, in what order, and what it leaves behind on every way out.      *)
(*                                                                         *)
(* An adapter is a program: the sequence of its steps.  The steps are      *)
(* shared, because the adapters are written from the same pieces; they     *)
(* differ in which pieces they have, in what order, and in whether an      *)
(* error is returned with `?` or after cleanup_partial.  Around the run    *)
(* stand a user who cancels, a filesystem in which the input changes and   *)
(* a file appears at the destination, engines that fail or hang, a caller  *)
(* that drops the future, a crash, and the next attempt of the same job.   *)
(***************************************************************************)
EXTENDS Naturals, Sequences, FiniteSets

CONSTANTS Adapters,   \* the adapters under study, names of Program
          Attempts    \* bound: how often the job may be run

ASSUME AttemptsAssumption == Attempts \in Nat \ {0}

VARIABLES
    adapter,   \* the adapter that the plan's first step selects
    at,        \* the step it is at
    result,    \* "running", or how the call ended
    ended,     \* the step at which the last attempt ended, or "recovered"
    attempt,   \* how many attempts have begun
    staged,    \* the staging path: a file, or a work directory
    dest,      \* the destination
    engine,    \* TRUE: a child process of this run is alive
    loose,     \* a process or a worker thread that outlives its run
    stray,     \* TRUE: one of those wrote to the staging path of this run
    input,     \* the input file
    from,      \* the input that the staged result was made from
    cancelled, \* the cancellation token
    told       \* how often ExecutionMilestone::EngineFinished was sent

vars == <<adapter, at, result, ended, attempt, staged, dest, engine, loose, stray,
          input, from, cancelled, told>>

-----------------------------------------------------------------------------
(* The programs.                                                           *)

\* execute_plan_observed, before it selects an adapter
Begin == <<"absent", "sameFirst", "vacant">>

Deliver == <<"clear", "commit">>

OfficePdfMakes == <<"mkdir", "prepare", "spawn", "wait", "stem", "appear", "heed">>
OfficePdf == OfficePdfMakes \o <<"tell", "heed", "same", "inspect", "render", "validate">>
    \o Deliver \o <<"sweep">>

OfficeExchangeMakes == <<"mkdir", "prepare", "spawn", "wait", "stem", "appear", "heed">>
OfficeExchange == OfficeExchangeMakes \o <<"tell", "heed", "same", "inspect", "validate">>
    \o Deliver \o <<"sweep">>

OfficeCsv == <<"mkdir", "workGuarded", "heed", "tell", "same", "validate">>
    \o Deliver \o <<"sweep">>

EdgePrintMakes == <<"mkdir", "prepare", "spawn", "print", "appear", "heed">>
EdgePrint == EdgePrintMakes \o <<"tell", "heed", "same", "inspect", "render", "evidence",
    "validate">> \o Deliver \o <<"sweep">>

PdfRenderMakes == <<"mkdir", "arguments", "spawn", "wait", "pages", "heed">>
PdfRender == PdfRenderMakes \o <<"tell", "same", "inspect", "validate">> \o Deliver

HeifMakes == <<"mkdir", "arguments", "spawn", "wait", "readdir", "present">>
Heif == HeifMakes \o <<"tell", "same", "inspect", "validate">> \o Deliver \o <<"sweep">>

MagickMakes == <<"mkdir", "arguments", "spawn", "wait", "present">>
Magick == MagickMakes \o <<"tell", "same", "inspect", "validate">> \o Deliver \o <<"sweep">>

\* Pandoc makes a DOCX, and the office adapter runs inside its work directory.
\* (mutant) The DOCX is taken for good and its milestone is sent as well.
MarkupPdfTellsTwice == <<"mkdir", "spawn", "wait", "present", "heed", "tell", "inspect",
    "validate", "prepare", "spawn", "waitInner", "appear", "heed", "tell", "heed", "same",
    "inspect", "render", "validate">> \o Deliver \o <<"sweep">>

MarkupPdf == <<"mkdir", "spawn", "wait", "present", "heed", "inspect", "validate",
    "prepare", "spawn", "waitInner", "appear", "heed", "tell", "heed", "same", "inspect",
    "render", "validate">> \o Deliver \o <<"sweep">>

PdfOpsMakes == <<"arguments", "spawn", "wait", "present">>
PdfOps == PdfOpsMakes \o <<"tell", "same", "doctor", "inspect", "validate">> \o Deliver

PdfMetadata == <<"work", "present", "heed", "tell", "same", "doctor", "inspect",
    "validate">> \o Deliver

ImageOcr == <<"recognize", "write", "heed", "tell", "same", "inspect", "validate">>
    \o Deliver

\* two pages
PdfOcr == <<"doctor", "heed", "raster", "recognize", "heed", "raster", "recognize",
    "write", "tell", "same", "inspect", "validate">> \o Deliver

Archive == <<"work", "present", "heed", "tell", "same", "inspect", "validate">> \o Deliver

Pdftotext == <<"extract", "heed", "write", "tell", "same", "inspect", "validate">>
    \o Deliver

Pandoc == <<"spawn", "wait", "present", "heed", "tell", "same", "inspect", "validate">>
    \o Deliver

Structured == <<"workHeeding", "present", "heed", "tell", "same", "inspect", "validate">>
    \o Deliver

\* a ladder of two attempts, of four at most
FfmpegAttempt == <<"spawn", "wait", "present">>
Ffmpeg == FfmpegAttempt \o <<"fit">> \o FfmpegAttempt \o <<"heed", "tell", "same",
    "inspect", "validate">> \o Deliver

\* The mail adapters write the destination itself.
Eml == <<"absent", "parse", "publish", "inspectOutput", "judgeOutput", "tellAfter">>
Msg == <<"absent", "parse", "publishWorker", "inspectOutput", "judgeOutput", "tellAfter",
    "removeRejected">>
MboxText == <<"absent", "parse", "mkdir", "publishWorker", "inspectOutput", "judgeOutput",
    "dropWork", "tellAfter", "removeRejected">>

\* one mail, printed by a nested run, and the merge of all
MboxPdf == <<"absent", "parse", "mkdir", "heed", "prepare", "spawn", "print", "prepare",
    "merge", "inspect", "validate">> \o Deliver \o <<"dropWork", "tellAfter">>

Body == [OfficePdf |-> OfficePdf, OfficeExchange |-> OfficeExchange,
         OfficeCsv |-> OfficeCsv, EdgePrint |-> EdgePrint, PdfRender |-> PdfRender,
         Heif |-> Heif, Magick |-> Magick, MarkupPdf |-> MarkupPdf, PdfOps |-> PdfOps,
         PdfMetadata |-> PdfMetadata, ImageOcr |-> ImageOcr, PdfOcr |-> PdfOcr,
         Archive |-> Archive, Pdftotext |-> Pdftotext, Pandoc |-> Pandoc,
         Structured |-> Structured, Ffmpeg |-> Ffmpeg, Eml |-> Eml, Msg |-> Msg,
         MboxText |-> MboxText, MboxPdf |-> MboxPdf]

Program(a) == Begin \o Body[a]

\* steps whose error goes to the caller with `?`, past any cleanup
Asks == {"sameFirst", "arguments", "doctor", "readdir", "parse", "stem"}

\* steps whose error is returned after cleanup_partial
Calls == {"prepare", "pages", "inspect", "evidence"}

\* steps that run on a thread of the blocking pool until they are done
Workers == {"work", "workGuarded", "workHeeding", "publishWorker"}

Mail == {"Eml", "Msg", "MboxText", "MboxPdf"}
Mailbox == {"MboxText", "MboxPdf"}
DirectWriters == {"Eml", "Msg", "MboxText"}

ASSUME AdaptersAssumption == Adapters \subseteq DOMAIN Body

\* the engine writes into a directory that the adapter made
InDirectory(a) == \E i \in DOMAIN Body[a] : Body[a][i] = "mkdir"

-----------------------------------------------------------------------------
Results == {"running", "ok", "error", "cancelled", "dropped", "crashed", "recovered"}
Ours == {"part", "good", "bad"}
Ends(a) == {"nowhere", "recovered"} \cup {Program(a)[i] : i \in DOMAIN Program(a)}

TypeOK ==
    /\ adapter \in Adapters
    /\ at \in 1..Len(Program(adapter))
    /\ result \in Results
    /\ ended \in Ends(adapter)
    /\ attempt \in 1..Attempts
    /\ staged \in {"none", "dir", "part", "good", "bad"}
    /\ dest \in {"free", "foreign"} \cup Ours
    /\ engine \in BOOLEAN /\ stray \in BOOLEAN /\ cancelled \in BOOLEAN
    /\ loose \in {"none", "engine", "writer"}
    /\ input \in {"planned", "changed"} /\ from \in {"planned", "changed"}
    /\ told \in 0..1

Init ==
    /\ adapter \in Adapters
    /\ at = 1 /\ result = "running" /\ ended = "nowhere" /\ attempt = 1
    /\ staged = "none" /\ dest = "free"
    /\ engine = FALSE /\ loose = "none" /\ stray = FALSE
    /\ input = "planned" /\ from = "planned"
    /\ cancelled = FALSE /\ told = 0

Running == result = "running"
Step == Program(adapter)[at]
At(s) == Running /\ Step = s

run == <<adapter, attempt>>
surroundings == <<dest, input, cancelled, loose, stray>>

Advance ==
    IF at = Len(Program(adapter))
    THEN result' = "ok" /\ ended' = Step /\ at' = at
    ELSE at' = at + 1 /\ UNCHANGED <<result, ended>>

\* the call returns, the staging path as it is; a child dies with its handle
Returns(r) ==
    /\ result' = r /\ ended' = Step
    /\ engine' = FALSE
    /\ UNCHANGED <<at, told, from>>

\* the call returns after cleanup_partial
ReturnsClean(r) == Returns(r) /\ staged' = "none"

\* steps before anything is staged
Early == {"absent", "sameFirst", "vacant", "parse", "mkdir"}

\* A mailbox removes its work directory on the way out, whatever happened.
Fails(r) == IF adapter \in Mailbox /\ Step \notin Early THEN ReturnsClean(r)
            ELSE Returns(r) /\ UNCHANGED staged

-----------------------------------------------------------------------------
(* Before the work.                                                        *)

\* output_path.exists()
Absent ==
    /\ At("absent")
    /\ IF dest = "free"
       THEN Advance /\ UNCHANGED <<staged, engine, told, from>>
       ELSE Fails("error")
    /\ UNCHANGED <<run, surroundings>>

\* partial_path.exists(): leftovers of another attempt turn the job away
Vacant ==
    /\ At("vacant")
    /\ IF staged = "none" \/ adapter \in Mailbox
       THEN Advance /\ UNCHANGED <<staged, engine, told, from>>
       ELSE Returns("error") /\ UNCHANGED staged
    /\ UNCHANGED <<run, surroundings>>

\* create_dir refuses a directory that is there
MakesDirectory ==
    /\ At("mkdir")
    /\ \/ staged = "none" /\ staged' = "dir" /\ Advance
          /\ UNCHANGED <<engine, told, from>>
       \/ Returns("error") /\ UNCHANGED staged
    /\ UNCHANGED <<run, surroundings>>

\* the input is the one that was probed
\* (mutant) it is not looked at again
SameInputUnchecked ==
    /\ At("same") /\ Advance
    /\ UNCHANGED <<run, surroundings, staged, engine, told, from>>

SameInput ==
    /\ At("same")
    /\ IF input = "planned"
       THEN Advance /\ UNCHANGED <<staged, engine, told, from>>
       ELSE ReturnsClean("error")
    /\ UNCHANGED <<run, surroundings>>

SameInputFirst ==
    /\ At("sameFirst")
    /\ input = "planned" /\ Advance
    /\ UNCHANGED <<run, surroundings, staged, engine, told, from>>

CallSucceeds ==
    /\ Running /\ Step \in (Asks \ {"sameFirst"}) \cup Calls
    /\ Advance
    /\ UNCHANGED <<run, surroundings, staged, engine, told, from>>

\* (mutant) every error is returned with `?`
CallFailsUncleaned ==
    /\ Running /\ Step \in Calls
    /\ Fails("error")
    /\ UNCHANGED <<run, surroundings>>

CallFails ==
    /\ Running /\ Step \in Calls
    /\ ReturnsClean("error")
    /\ UNCHANGED <<run, surroundings>>

AskFails ==
    /\ Running /\ Step \in Asks
    /\ Fails("error")
    /\ UNCHANGED <<run, surroundings>>

-----------------------------------------------------------------------------
(* The engine.                                                             *)

\* what a run makes, or nothing; a changed input may have been read before
\* or after it changed
Makes ==
    /\ staged' \in {"good", "bad"} \cup {IF InDirectory(adapter) THEN "dir" ELSE "none"}
    /\ from' \in (IF from = "planned" THEN {"planned", input} ELSE {from})

Spawns ==
    /\ At("spawn")
    /\ \/ engine' = TRUE /\ staged' = "part" /\ Advance /\ UNCHANGED <<told, from>>
       \/ ReturnsClean("error")
    /\ UNCHANGED <<run, surroundings>>

Waits == {"wait", "waitInner", "print"}

EngineExits ==
    /\ Running /\ Step \in Waits
    /\ \/ Makes /\ engine' = FALSE /\ Advance /\ UNCHANGED told
       \/ ReturnsClean("error")
    /\ UNCHANGED <<run, surroundings>>

\* Child::wait() itself fails: inside a nested run the outer one cleans up.
WaitFails ==
    /\ Running /\ Step \in Waits
    /\ IF Step = "waitInner" THEN ReturnsClean("error") ELSE Fails("error")
    /\ UNCHANGED <<run, surroundings>>

\* terminate_process_tree, then cleanup_partial
Kills ==
    /\ Running /\ Step \in Waits \cup {"render"} /\ cancelled
    /\ ReturnsClean("cancelled")
    /\ UNCHANGED <<run, surroundings>>

\* the timeouts of the browser
TimesOut ==
    /\ At("print")
    /\ ReturnsClean("error")
    /\ UNCHANGED <<run, surroundings>>

\* pages are rendered to see that the PDF opens
Renders ==
    /\ At("render")
    /\ \/ Advance /\ UNCHANGED <<staged, engine, told, from>>
       \/ ReturnsClean("error")
    /\ UNCHANGED <<run, surroundings>>

\* The file is there, soon (wait_for_regular_file) or at once.
Present ==
    /\ Running /\ Step \in {"present", "appear"}
    /\ IF staged \in {"good", "bad"}
       THEN Advance /\ UNCHANGED <<staged, engine, told, from>>
       ELSE ReturnsClean(IF Step = "appear" /\ cancelled THEN "cancelled" ELSE "error")
    /\ UNCHANGED <<run, surroundings>>

\* The rung of the ladder is small enough, or the next one begins.
Fit ==
    /\ At("fit")
    /\ \/ at' = at + Len(FfmpegAttempt) + 1 /\ UNCHANGED <<staged, result, ended>>
       \/ staged' = "none" /\ Advance
    /\ UNCHANGED <<run, surroundings, engine, told, from>>

\* Text arrives on a pipe and is not at the staging path yet.
Reads ==
    /\ Running /\ Step \in {"recognize", "extract", "raster"}
    /\ \/ /\ from' \in (IF from = "planned" THEN {"planned", input} ELSE {from})
          /\ Advance
          /\ UNCHANGED <<staged, engine, told>>
       \/ Step # "raster" /\ Fails("error")
       \/ Step = "raster" /\ ReturnsClean("error")
    /\ UNCHANGED <<run, surroundings>>

Writes ==
    /\ At("write")
    /\ \/ staged' \in {"good", "bad"} /\ Advance /\ UNCHANGED <<engine, told, from>>
       \/ ReturnsClean("error")
    /\ UNCHANGED <<run, surroundings>>

\* qpdf --empty --pages
Merges ==
    /\ At("merge")
    /\ \/ staged' \in {"good", "bad"} /\ Advance /\ UNCHANGED <<engine, told, from>>
       \/ ReturnsClean("error")
    /\ UNCHANGED <<run, surroundings>>

\* spawn_blocking: nobody can stop it, so Structured waits for it to end
WorkEnds ==
    /\ Running /\ Step \in Workers \ {"publishWorker"}
    /\ IF Step = "workHeeding" /\ cancelled
       THEN ReturnsClean("cancelled")
       ELSE \/ Makes /\ Advance /\ UNCHANGED <<engine, told>>
            \/ Step = "work" /\ staged' \in {staged, "part"} /\ Returns("error")
            \/ Step # "work" /\ ReturnsClean("error")
    /\ UNCHANGED <<run, surroundings>>

Heeds ==
    /\ At("heed")
    /\ IF cancelled THEN ReturnsClean("cancelled")
       ELSE Advance /\ UNCHANGED <<staged, engine, told, from>>
    /\ UNCHANGED <<run, surroundings>>

-----------------------------------------------------------------------------
(* From the staging path to the destination.                               *)

\* the observer writes the job's state, and may refuse
Tells ==
    /\ At("tell")
    /\ told' = told + 1
    /\ \/ Advance /\ UNCHANGED <<staged, engine, from>>
       \/ result' = "error" /\ ended' = Step /\ staged' = "none" /\ UNCHANGED <<at, engine, from>>
    /\ UNCHANGED <<run, surroundings>>

Validates ==
    /\ At("validate")
    /\ IF staged = "good"
       THEN Advance /\ UNCHANGED <<staged, engine, told, from>>
       ELSE ReturnsClean("error")
    /\ UNCHANGED <<run, surroundings>>

Clear ==
    /\ At("clear")
    /\ IF dest = "free"
       THEN Advance /\ UNCHANGED <<staged, engine, told, from>>
       ELSE ReturnsClean("error")
    /\ UNCHANGED <<run, surroundings>>

\* (mutant) rename() in place of the rename that refuses to replace
CommitsOver ==
    /\ At("commit")
    /\ dest' = staged
    /\ staged' = IF InDirectory(adapter) THEN "dir" ELSE "none"
    /\ Advance
    /\ UNCHANGED <<run, engine, told, from, input, cancelled, loose, stray>>

\* commit_path_no_replace
Commits ==
    /\ At("commit")
    /\ \/ /\ dest = "free" /\ dest' = staged
          /\ staged' = IF InDirectory(adapter) /\ adapter # "PdfRender" THEN "dir" ELSE "none"
          /\ Advance
          /\ UNCHANGED <<engine, told, from>>
       \/ ReturnsClean("error") /\ UNCHANGED dest
    /\ UNCHANGED <<run, input, cancelled, loose, stray>>

Sweeps ==
    /\ At("sweep")
    /\ staged' = "none" /\ Advance
    /\ UNCHANGED <<run, surroundings, engine, told, from>>

-----------------------------------------------------------------------------
(* Mail.                                                                   *)

\* fs::write creates or truncates, whatever is at the destination
Publishes ==
    /\ Running /\ Step \in {"publish", "publishWorker"}
    /\ \/ dest' \in {"good", "bad"}
          /\ from' \in {"planned", input}
          /\ Advance
          /\ UNCHANGED <<staged, engine, told>>
       \/ dest' = "part" /\ Fails("error")
    /\ UNCHANGED <<run, input, cancelled, loose, stray>>

InspectsOutput ==
    /\ At("inspectOutput")
    /\ \/ Advance /\ UNCHANGED <<staged, dest, engine, told, from>>
       \/ dest' = "free" /\ Fails("error")
    /\ UNCHANGED <<run, input, cancelled, loose, stray>>

\* The report fails: Eml returns, the others leave that to the caller.
JudgesOutput ==
    /\ At("judgeOutput")
    /\ IF dest = "good"
       THEN Advance /\ UNCHANGED <<staged, dest, engine, told, from>>
       ELSE /\ dest' = "free"
            /\ IF adapter = "Eml" THEN Fails("error")
               ELSE Advance /\ UNCHANGED <<staged, engine, told, from>>
    /\ UNCHANGED <<run, input, cancelled, loose, stray>>

\* remove_dir_all of the mailbox's directory
DropsWork ==
    /\ At("dropWork")
    /\ \/ staged' = "none" /\ Advance /\ UNCHANGED <<engine, told, from>>
       \/ Returns("error") /\ UNCHANGED staged
    /\ UNCHANGED <<run, surroundings>>

\* the observer's answer is ignored
TellsAfter ==
    /\ At("tellAfter")
    /\ told' = told + 1 /\ Advance
    /\ UNCHANGED <<run, surroundings, staged, engine, from>>

\* execute_plan_observed removes the path of a failed report once more
RemovesRejected ==
    /\ At("removeRejected")
    /\ IF dest = "good"
       THEN Advance /\ UNCHANGED <<staged, dest, engine, told, from>>
       ELSE dest' = "free" /\ Returns("error") /\ UNCHANGED staged
    /\ UNCHANGED <<run, input, cancelled, loose, stray>>

-----------------------------------------------------------------------------
(* Around the run.                                                         *)

Cancel ==
    /\ Running /\ ~cancelled
    /\ cancelled' = TRUE
    /\ UNCHANGED <<run, at, result, ended, staged, dest, engine, loose, stray, input, from, told>>

InputChanges ==
    /\ Running /\ input = "planned"
    /\ input' = "changed"
    /\ UNCHANGED <<run, at, result, ended, staged, dest, engine, loose, stray, from, cancelled, told>>

\* another program, or another job with the same destination
ForeignAppears ==
    /\ Running /\ dest = "free"
    /\ dest' = "foreign"
    /\ UNCHANGED <<run, at, result, ended, staged, engine, loose, stray, input, from, cancelled, told>>

\* Steps that end without an await cannot be interrupted by a drop.
Awaits == Waits \cup Workers \cup
    {"sameFirst", "same", "doctor", "inspect", "render", "evidence", "appear", "recognize",
     "extract", "raster", "merge", "inspectOutput"}

\* The caller drops the future (the watchdog of a web job): children are
\* killed, a worker thread goes on.
Dropped ==
    /\ Running /\ Step \in Awaits
    /\ result' = "dropped" /\ ended' = Step
    /\ engine' = FALSE
    /\ loose' = IF Step = "publishWorker" THEN "writer"
                ELSE IF Step \in Workers THEN "engine" ELSE loose
    /\ UNCHANGED <<run, at, staged, dest, stray, input, from, cancelled, told>>

\* The process dies; threads die with it, engines are processes of their own.
Crash ==
    /\ Running
    /\ result' = "crashed" /\ ended' = Step
    /\ dest' \in (IF Step \in {"publish", "publishWorker"} THEN {dest, "part"} ELSE {dest})
    /\ engine' = FALSE
    /\ loose' = IF engine THEN "engine" ELSE "none"
    /\ UNCHANGED <<run, at, staged, stray, input, from, cancelled, told>>

\* What is loose writes at the path of its own run; a directory that is gone
\* does not come back.
LooseWrites ==
    /\ loose # "none"
    /\ loose' = "none"
    /\ \/ /\ loose = "engine" /\ (InDirectory(adapter) => staged # "none")
          /\ staged' \in {"good", "bad"}
          /\ stray' = TRUE
          /\ UNCHANGED dest
       \/ loose = "writer" /\ dest' \in {"good", "bad"} /\ UNCHANGED <<staged, stray>>
    /\ UNCHANGED <<run, at, result, ended, engine, input, from, cancelled, told>>

LooseEnds ==
    /\ loose # "none"
    /\ loose' = "none"
    /\ UNCHANGED <<run, at, result, ended, staged, dest, engine, stray, input, from, cancelled, told>>

\* staged_output_candidates
Candidates == Adapters \ Mailbox

\* jobs recover after a crash: what is at the staging path is removed
Recovers ==
    /\ result = "crashed"
    /\ result' = "recovered" /\ ended' = "recovered"
    /\ staged' = IF adapter \in Candidates THEN "none" ELSE staged
    /\ stray' = (stray /\ dest \in Ours)
    /\ UNCHANGED <<run, at, dest, engine, loose, input, from, cancelled, told>>

\* The job is run again, planned anew from the input there is.
Again ==
    /\ result \in {"error", "cancelled", "recovered"} /\ attempt < Attempts
    /\ attempt' = attempt + 1
    /\ at' = 1 /\ result' = "running"
    /\ cancelled' = FALSE /\ told' = 0
    /\ input' = "planned" /\ from' = "planned"
    /\ UNCHANGED <<adapter, ended, staged, dest, engine, loose, stray>>

-----------------------------------------------------------------------------
Own == Absent \/ Vacant \/ MakesDirectory \/ SameInput \/ SameInputFirst \/ CallSucceeds
       \/ CallFails \/ AskFails \/ Spawns \/ Kills \/ TimesOut \/ Present \/ Fit \/ Writes
       \/ WorkEnds \/ Heeds \/ Tells \/ Validates \/ Clear \/ Commits \/ Sweeps \/ Publishes
       \/ InspectsOutput \/ JudgesOutput \/ DropsWork \/ TellsAfter \/ RemovesRejected

Engines == EngineExits \/ WaitFails \/ Renders \/ Reads \/ Merges

Around == Cancel \/ InputChanges \/ ForeignAppears \/ Dropped \/ Crash \/ LooseWrites
          \/ LooseEnds \/ Recovers \/ Again

Next == Own \/ Engines \/ Around

Spec == Init /\ [][Next]_vars

\* A reader with a time limit returns; the rasterizer of PdfOcr has none.
\* (mutant) Tesseract is waited for without its limit.
ReadsInTimeButOne == Reads /\ Step = "extract"

ReadsInTime == Reads /\ Step # "raster"

\* The program goes on by itself and worker threads come to an end.  No
\* engine has to finish.
FairSpec == Spec /\ WF_vars(Own) /\ WF_vars(ReadsInTime)
-----------------------------------------------------------------------------
(* Properties.                                                             *)

\* Where an error leaves the staging path as it is: a child's wait() fails; an
\* argument is read, the input's name taken, a directory listed or an engine
\* looked up after staging began; a worker's own error passes the cleanup; the mailbox's removal fails.
KnownLeaks ==
    {<<a, "wait">> : a \in Adapters} \cup {<<"EdgePrint", "print">>}
    \cup {<<a, "arguments">> : a \in {"PdfRender", "Heif", "Magick"}}
    \cup {<<"Heif", "readdir">>, <<"PdfOps", "doctor">>, <<"PdfMetadata", "doctor">>}
    \cup {<<a, "stem">> : a \in {"OfficePdf", "OfficeExchange"}}
    \cup {<<a, "work">> : a \in {"PdfMetadata", "Archive"}}
    \cup {<<a, "dropWork">> : a \in Mailbox}

\* A run that returns has removed what it staged: always when it succeeded or
\* was cancelled, and after an error except on the known ways out.
NothingLeftBehind ==
    result \in {"ok", "error", "cancelled"} /\ staged # "none" =>
        \/ stray
        \/ (result = "error" /\ <<adapter, ended>> \in KnownLeaks)
        \/ ended \in Early

\* An attempt finds the staging path of its job taken only after a known leak,
\* after a crash inside a mailbox, whose directory recovery does not know, or
\* because an engine of the crashed attempt still writes.
AttemptsBeginClean ==
    (At("vacant") \/ At("mkdir")) /\ staged # "none" =>
        \/ stray
        \/ <<adapter, ended>> \in KnownLeaks
        \/ (adapter \in Mailbox /\ ended = "recovered")
        \/ ended \in Early

\* Whatever is left at the staging path is explained, after a run and before
\* the next one (cleanup_partial, cleanup_staged_output).
StagingAccounted == NothingLeftBehind /\ AttemptsBeginClean

\* What reaches the destination through the staging path passed validation,
\* and what a run delivers was made from the input it was planned for; mail is
\* written in place and from whatever the file holds when it is read.
PublishesOnlyValidated ==
    /\ dest \in {"part", "bad"} => adapter \in DirectWriters \/ stray
    /\ result = "ok" => dest = "good" \/ stray
    /\ result = "ok" => from = "planned" \/ adapter \in Mail

\* The milestone is sent once in a run that succeeds, and before the output can
\* be seen; a mail adapter's is sent afterwards.
ToldBeforePublished ==
    [][/\ result' = "ok" => told' = 1
       /\ (dest' \in Ours /\ dest \notin Ours) => told = 1 \/ adapter \in Mail]_vars

\* A file that someone else put at the destination is neither replaced nor
\* removed, except by an adapter that writes the destination itself.
ForeignKept ==
    [][dest = "foreign" => dest' = "foreign" \/ adapter \in DirectWriters]_vars

\* pdftoppm inside PdfOcr and qpdf inside a mailbox run without a time limit
\* and without the cancellation token
Deaf == {"PdfOcr", "MboxPdf"}

\* adapters that wait for no unbounded process
TimeLimited == {"OfficeCsv", "PdfMetadata", "ImageOcr", "Archive", "Pdftotext",
                "Structured", "Eml", "Msg", "MboxText"}

\* A cancelled run comes to its end though its engine never would, and a run
\* with limits comes to its end without being cancelled.
RunsEnd ==
    (Running /\ ((cancelled /\ adapter \notin Deaf) \/ adapter \in TimeLimited)) ~> ~Running

\* docs/USER_GUIDE.md: existing destinations are refused, silent overwrite is
\* not supported.
ExistingDestinationKept == [][dest = "foreign" => dest' = "foreign"]_vars
=============================================================================
