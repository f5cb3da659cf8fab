----------------------------- MODULE Conversion -----------------------------
(***************************************************************************)
(* One conversion from the request to the published file.                  *)
(*                                                                         *)
(* A request is previewed, its plan is shown and approved by its hash; to  *)
(* convert, the input is inspected and planned again and the new plan must *)
(* have the approved hash (workflow.rs, conversion_service.rs, lib.rs of   *)
(* the desktop).  The runner then selects an adapter, starts the engine    *)
(* with the plan's arguments, and publishes what the validator does not    *)
(* refuse (runner.rs).  Which plan a request gets, what its arguments make *)
(* an engine write and what the validator says are functions of the        *)
(* modules Routes, MediaPlan and MediaCheck.                               *)
(*                                                                         *)
(* Between the steps the input or a further file of a merge may be edited, *)
(* an engine may be replaced or go away and the process may restart; the   *)
(* engine may write something else than it was told to.                    *)
(***************************************************************************)
EXTENDS Routes, MediaCheck, PdfPlan, DataPlan, MailPlan, DocumentPlan

CONSTANTS Cases,      \* the requests, [file, request, op, have], by the subject that they vary
          MaxTries    \* how often a job is run

ASSUME TriesAssumption == MaxTries \in Nat \ {0}

\* a file has what files of its container have
KnownFile(f) ==
    MediaFile(f) /\ PdfFile(f) /\ RecordFile(f) /\ ArchiveFile(f) /\ MailFile(f) /\ DocumentFile(f)

\* A request names one of the operations, its numbers are numbers, and its files are known.
CaseAssumption(c) ==
    /\ ClassOf(c.file.ext) \in DOMAIN SupportedTargets
    /\ c.op \in PdfOperations \cup {"none", "metadata-clean"}
    /\ c.request.quality \in Int /\ c.request.crf \in Int /\ c.request.width \in Int
    /\ c.request.start \in Nat \cup {Unset} /\ c.request.length \in Nat \cup {Unset}
    /\ c.request.parts \in Seq(Int \X Int) /\ c.request.more \in Seq(ToSet(c.request.more))
    /\ KnownFile(c.file) /\ \A f \in ToSet(c.request.more) : KnownFile(f)

ASSUME CasesAssumption == \A subject \in DOMAIN Cases : \A c \in Cases[subject] : CaseAssumption(c)

VARIABLES asked,      \* the case
          have,       \* the engines that are installed
          input,      \* the revision of the input file
          more,       \* the revision of the further files of a merge
          version,    \* the version of the engines
          late,       \* what of these was changed after the last preparation (history)
          stage,      \* how far the request is
          code,       \* why it was refused or failed
          shown,      \* the plan that the user approved
          plan,       \* the plan of the last preparation
          id,         \* its id
          secrets,    \* the passwords that wait in memory, by plan id
          given,      \* the password that the engine was given
          tries,      \* runs of the job
          rung,       \* the attempt at the size target
          fits,       \* whether the output is within it
          read,       \* the revisions of the files that the engine read, and its own version
          out,        \* the output of the engine
          verdict     \* what the validator said of it

vars == <<asked, have, input, more, version, late, stage, code, shown, plan, id, secrets, given,
          tries, rung, fits, read, out, verdict>>

None == "none"
NoOutput == [container |-> None]
MediaAdapters == {"Ffmpeg", "Heif", "Magick"}

-----------------------------------------------------------------------------
(* Planning.                                                               *)

Request == asked.request
Extension == ClassOf(asked.file.ext)
Content == ClassOf(asked.file.container)
LaneNow == Prepare(Extension, Content, Request.target, asked.op, have)

\* what the inspection of the lane finds out about a media file
Probe(lane) == IF lane = "Magick" THEN InspectMagick(asked.file) ELSE InspectMedia(asked.file)

PlanOfLane(lane) ==
    LET p == Probe(lane.adapter)
    IN CASE lane.adapter = "Magick" -> PlanMagick(p, Request)
         [] lane.adapter = "Heif" /\ Readable(asked.file) -> PlanHeic(p, Request)
         [] lane.adapter = "Ffmpeg" /\ Readable(asked.file) -> PlanMedia(p, Request)
         [] lane.adapter \in {"Ffmpeg", "Heif"} /\ ~Readable(asked.file) -> Refused("InputInvalid")
         [] lane.adapter \in PdfAdapters -> PlanPdf(lane, asked.file, Request, asked.op)
         [] lane.adapter \in DataAdapters -> PlanData(lane, asked.file, Request)
         [] lane.adapter \in MailAdapters -> PlanMail(lane, asked.file, Request)
         [] OTHER -> PlanDocument(lane, asked.file, Request)

\* prepare_conversion, and plan_metadata_clean as the command line calls it
PlanNow ==
    LET refusal == IF asked.op = "metadata-clean"
                   THEN IF {"ffprobe", "ffmpeg"} \subseteq have THEN "accepted" ELSE "EngineMissing"
                   ELSE RouteRefusal(Extension, Content, Request.target, asked.op, have)
    IN IF refusal # "accepted" THEN Refused(refusal)
       ELSE IF asked.op # "metadata-clean" THEN PlanOfLane(LaneNow)
       ELSE IF ~Readable(asked.file) THEN Refused("InputInvalid")
       ELSE PlanMetadataClean(Probe("Ffmpeg"), Request)

\* the fingerprints and versions of this moment
Stamps == [input |-> input, more |-> more, version |-> version]

\* A plan carries the fingerprint of its inputs, joined for a merge (joint_input_fingerprint), and
\* the versions of its engines.
Prepared ==
    [x \in DOMAIN PlanNow \cup DOMAIN Stamps |->
        IF x \in DOMAIN Stamps THEN Stamps[x] ELSE PlanNow[x]]

Redacted(p) == p.ok /\ "password" \in DOMAIN p.arguments /\ p.arguments.password = "[redacted]"

\* (mutant) The hash leaves the fingerprint of the input out.
HashWithoutInput(p) == [p EXCEPT !.input = 0]

\* deterministic_plan_hash: all of the plan but its id and its output path
Hash(p) == p

\* a preparation: a plan with an id of its own, whose password is registered under it
Prepares ==
    /\ plan' = Prepared
    /\ id' = id + 1
    /\ secrets' = IF Redacted(Prepared)
                  THEN [i \in DOMAIN secrets \cup {id + 1} |->
                           IF i = id + 1 THEN Registered(Prepared, Request) ELSE secrets[i]]
                  ELSE secrets
    /\ late' = {}

Init ==
    /\ \E subject \in DOMAIN Cases : asked \in Cases[subject]
    /\ have = asked.have
    /\ input = 0 /\ more = 0 /\ version = 0 /\ late = {} /\ read = Stamps
    /\ stage = "asked" /\ code = None
    /\ shown = Refused(None) /\ plan = Refused(None) /\ id = 0
    /\ secrets = <<>> /\ given = None
    /\ tries = 0 /\ rung = 0 /\ fits = FALSE
    /\ out = NoOutput /\ verdict = None

Run == <<given, tries, rung, fits, read, out, verdict>>

Preview ==
    /\ stage = "asked"
    /\ Prepares
    /\ shown' = Prepared
    /\ stage' = IF Prepared.ok THEN "previewed" ELSE "refused"
    /\ code' = IF Prepared.ok THEN None ELSE Prepared.code
    /\ UNCHANGED <<asked, have, input, more, version, Run>>

\* ensure_plan_approved on a plan that was made anew
Convert ==
    /\ stage = "previewed"
    /\ Prepares
    /\ IF Prepared.ok /\ Hash(Prepared) = Hash(shown)
       THEN stage' = "ready" /\ code' = None
       ELSE stage' = "refused" /\ code' = IF Prepared.ok THEN "InputChanged" ELSE Prepared.code
    /\ UNCHANGED <<asked, have, input, more, version, shown, Run>>

-----------------------------------------------------------------------------
(* Running.                                                                *)

Fails(why) == stage' = "failed" /\ code' = why

\* (mutant) A password stays where it was after it was given to the engine.
TakeKeeps(i) == secrets

\* take_pdf_secret
Take(i) == [k \in DOMAIN secrets \ {i} |-> secrets[k]]

Accepts(p) == p.lane \in MediaAdapters => RunnerAccepts(p)

\* The first input must be the one that was planned (the other files of a merge are not compared),
\* the arguments are checked once more, and a password is taken out of memory.
HasPassword == Redacted(plan) => id \in DOMAIN secrets

StartFails ==
    /\ stage = "ready"
    /\ tries' = tries + 1
    /\ \/ input # plan.input /\ Fails("InputChanged")
       \/ input = plan.input /\ ~Accepts(plan) /\ Fails("PolicyBlocked")
       \/ input = plan.input /\ Accepts(plan) /\ ~HasPassword /\ Fails("PasswordGone")
    /\ UNCHANGED <<asked, have, input, more, version, late, shown, plan, id, secrets, given, rung,
                   fits, read, out, verdict>>

Start ==
    /\ stage = "ready"
    /\ tries' = tries + 1
    /\ input = plan.input /\ Accepts(plan) /\ HasPassword
    /\ stage' = "running"
    /\ given' = IF Redacted(plan) THEN secrets[id] ELSE None
    /\ secrets' = IF Redacted(plan) THEN Take(id) ELSE secrets
    /\ rung' = 1
    /\ UNCHANGED <<asked, have, input, more, version, late, code, shown, plan, id, fits, read, out,
                   verdict>>

\* what an engine writes that does as it is told
Obeyed ==
    CASE plan.lane \in PdfAdapters -> PdfEngine(asked.file, plan, given)
      [] plan.lane \in DataAdapters -> DataOutput(asked.file, plan, Request.ext)
      [] plan.lane \in MailAdapters -> MailOutput(asked.file, plan, Request.ext)
      [] plan.lane \in DocumentAdapters -> DocumentOutput(asked.file, plan, Request.ext)
      [] OTHER -> Engine(Probe(plan.lane), plan, Request.ext)

\* what else it may write
Spoilt ==
    CASE plan.lane \in PdfAdapters -> {PdfDamage(asked.file, Obeyed, d, plan) : d \in PdfDamages}
      [] plan.lane \in DataAdapters -> {DataDamage(asked.file, Obeyed, d, plan) : d \in DataDamages}
      [] plan.lane \in MailAdapters -> {MailDamage(Obeyed, d) : d \in MailDamages}
      [] plan.lane \in DocumentAdapters -> {DocumentDamage(Obeyed, d) : d \in DocumentDamages}
      [] OTHER -> {Damage(Obeyed, d, plan) : d \in Damages}

CanOpen ==
    CASE plan.lane \in PdfAdapters -> EngineOpens(asked.file, plan, given)
      [] plan.lane \in DataAdapters -> DataWrites(asked.file, plan)
      [] plan.lane \in DocumentAdapters -> DocumentWrites(asked.file, plan)
      [] OTHER -> TRUE

\* one run of the engine; while the output is too large the next rung is tried
Attempt ==
    /\ stage = "running"
    /\ read' = Stamps
    /\ \/ /\ ~CanOpen
          /\ Fails("EngineFailed")
          /\ UNCHANGED <<rung, fits, out>>
       \/ /\ CanOpen
          /\ fits' \in (IF HasSizeTarget(plan) THEN BOOLEAN ELSE {FALSE})
          /\ IF HasSizeTarget(plan) /\ ~fits' /\ rung < Len(Ladder(plan))
             THEN rung' = rung + 1 /\ UNCHANGED <<stage, out>>
             ELSE stage' = "made" /\ out' \in {Obeyed} \cup Spoilt /\ UNCHANGED rung
          /\ UNCHANGED code
    /\ UNCHANGED <<asked, have, input, more, version, late, shown, plan, id, secrets, given, tries,
                   verdict>>

VerdictOfMedia ==
    LET v == ValidateMedia(Probe(plan.lane), out, plan)
    IN IF v = "pass" /\ HasSizeTarget(plan) /\ ~fits THEN "warning" ELSE v

Verdict ==
    CASE plan.lane \in PdfAdapters -> ValidatePdf(out, plan)
      [] plan.lane \in DataAdapters -> ValidateData(asked.file, out, plan)
      [] plan.lane \in MailAdapters -> ValidateMail(asked.file, out, plan)
      [] plan.lane \in DocumentAdapters -> ValidateDocument(asked.file, out, plan)
      [] OTHER -> VerdictOfMedia

\* the input is compared once more; only a failed check keeps the output back
Validate ==
    /\ stage = "made"
    /\ IF input # plan.input THEN Fails("InputChanged") /\ UNCHANGED verdict
       ELSE /\ verdict' = Verdict
            /\ IF Verdict = "fail" THEN Fails("ValidationFailed")
               ELSE stage' = "committed" /\ UNCHANGED code
    /\ UNCHANGED <<asked, have, input, more, version, late, shown, plan, id, secrets, given, tries,
                   rung, fits, read, out>>

\* a failed job is queued again, with the plan that it had
Retry ==
    /\ stage = "failed" /\ tries < MaxTries
    /\ stage' = "ready" /\ code' = None
    /\ given' = None /\ rung' = 0 /\ fits' = FALSE /\ out' = NoOutput /\ verdict' = None
    /\ UNCHANGED <<asked, have, input, more, version, late, shown, plan, id, secrets, tries, read>>

-----------------------------------------------------------------------------
(* What happens meanwhile (external).                                      *)

Rest == <<asked, stage, code, shown, plan, id, given, tries, rung, fits, read, out, verdict>>

EditInput ==
    /\ stage \in {"previewed", "ready", "running", "made"} /\ input = 0
    /\ input' = 1 /\ late' = late \cup {"input"}
    /\ UNCHANGED <<Rest, have, more, version, secrets>>

EditMore ==
    /\ stage \in {"previewed", "ready", "running", "made"} /\ more = 0 /\ Request.more # <<>>
    /\ more' = 1 /\ late' = late \cup {"more"}
    /\ UNCHANGED <<Rest, have, input, version, secrets>>

ReplaceEngine ==
    /\ stage \in {"previewed", "ready", "running"} /\ version = 0
    /\ version' = 1 /\ late' = late \cup {"version"}
    /\ UNCHANGED <<Rest, have, input, more, secrets>>

LoseEngine ==
    /\ stage = "previewed" /\ have = asked.have
    /\ \E e \in have \cap LaneNow.engines : have' = have \ {e}
    /\ UNCHANGED <<Rest, input, more, version, late, secrets>>

\* the memory of the process is gone, the queued job is not
Restart ==
    /\ stage = "ready" /\ secrets # <<>>
    /\ secrets' = <<>>
    /\ UNCHANGED <<Rest, have, input, more, version, late>>

Next == \/ Preview \/ Convert \/ StartFails \/ Start \/ Attempt \/ Validate \/ Retry
        \/ EditInput \/ EditMore \/ ReplaceEngine \/ LoseEngine \/ Restart

Spec == Init /\ [][Next]_vars

-----------------------------------------------------------------------------
(* Properties.                                                             *)

\* What runs is the plan that was shown: made anew for the run, it has the same fingerprints of all
\* inputs and the same versions of the engines (ensure_plan_approved).  What is published was made
\* of the first input as it was shown, which is compared at the start and before the commit
\* (ensure_input_unchanged).  The further files of a merge and the engines are compared by the
\* preparation only: a change of them after it, and no other, can slip in.
ExecutedAsApproved ==
    /\ stage \in {"running", "made", "committed"} => plan = shown
    /\ stage = "committed" =>
          \A x \in DOMAIN read : read[x] # shown[x] => x \in late /\ x # "input"

\* The offer of the user interface asks for engines that the lane does not need, or for fewer:
\* PDF text is offered without pdfinfo and an image to PDF without ffprobe, and a file whose
\* content is not what its extension says gets the lane of its content.
OfferGaps ==
    \/ Extension = "pdf" /\ Request.target = "md"
    \/ Extension \in RasterInputs /\ Request.target = "pdf"
    \/ Extension # Content

\* A conversion that is offered as available (capabilities.rs) is not refused for a missing
\* engine by prepare_conversion, which chooses the lane again by its own tests.
OfferedIsPlannable ==
    stage = "refused" /\ id = 1 /\ code = "EngineMissing" /\ asked.op = None =>
        \/ EnsureRouteAvailable(Extension, Request.target, have) # "available"
        \/ OfferGaps

\* execute_plan_observed looks at the first step of the plan only: it must come to the adapter
\* that the plan was made for, and that adapter must not need an engine nobody asked for, but for
\* the text check of a watermark and the pages of a mailbox.
DispatchedAsPlanned ==
    plan.ok =>
        /\ AdapterFor(plan.engine, plan.target, IF asked.op \in PdfOperations THEN asked.op ELSE None)
             = plan.lane
        /\ \/ AtExecution(plan.lane, asked.op) \subseteq LaneNow.engines
           \/ asked.op = "pdf-watermark" \/ plan.lane = "MboxPdf"

\* Offer, preparation and dispatch choose the lane three times, by the extension, by the content
\* and by the plan's first step, and agree (capabilities.rs, workflow.rs, runner.rs:143).
LanesAgree == OfferedIsPlannable /\ DispatchedAsPlanned

\* Plans that end in a failure although nothing went wrong: options that only the runner tests,
\* a merge of files with a semicolon in their paths, text of a locked document, metadata of a
\* document without a clear trailer, a password that was trimmed after it was tried, a workbook
\* without sheets, and the data that DataPlanGaps names.
PlanGaps ==
    \/ plan.lane \in DataAdapters /\ DataPlanGaps(asked.file, plan)
    \/ plan.lane = "OfficeCsv" /\ ~DocumentWrites(asked.file, plan)
    \/ plan.target = "mp4"
         /\ (~CrfFits(Request.crf) \/ Request.preset \notin Presets \/ ~BitrateFits(Request.bitrate))
    \/ plan.target \in AudioTargets /\ ~BitrateFits(Request.bitrate)
    \/ plan.operation = "pdf-merge" /\ ~Findable(plan.arguments.inputs)
    \/ plan.operation = "text" /\ asked.file.lock # None
    \/ plan.operation = "pdf-metadata" /\ ~asked.file.trailer
    \/ plan.operation = "pdf-decrypt" /\ Request.password # Trim(Request.password)

\* What the planner accepts the runner accepts too, and the engine can do it: the encoder's
\* quality, the stream, the slice and the rate are translated into the ranges the runner tests.
PlannedRuns == stage = "failed" /\ code \in {"PolicyBlocked", "EngineFailed"} => PlanGaps

\* ffmpeg takes the nearest even height, the validator rounds first and then up, to two at least.
RoundsOtherwise ==
    /\ "width" \in DOMAIN plan.arguments /\ plan.arguments.width # Unset
    /\ LET scaled == ScaledHeight(asked.file, plan.arguments.width)
       IN \/ scaled = 0
          \/ scaled < (asked.file.height * plan.arguments.width + asked.file.width \div 2)
                        \div asked.file.width

\* the extension that the output should have: cleaning keeps the format, whatever was asked for
PlannedExtension == IF plan.operation = "metadata-clean" THEN plan.target ELSE Request.target

\* Outputs that are as planned and are refused: cleaned files with subtitles, pictures beside the
\* sound or another codec than the container's usual one, and pictures of more than one stream;
\* AAC, whose frames are taken for MP3; heights that ffmpeg rounds otherwise than the validator;
\* an extension of another format; metadata outside Latin-1; a document without text; and a merged
\* document of more pages than pdfinfo's bounded output has room for.  The other lanes name theirs
\* themselves.
HonestGaps ==
    \/ plan.lane \in DataAdapters /\ DataHonestGaps(asked.file, plan)
    \/ plan.lane \in MailAdapters /\ MailHonestGaps(asked.file, plan)
    \/ plan.lane \in DocumentAdapters /\ DocumentHonestGaps(asked.file, plan)
    \/ plan.operation = "metadata-clean"
         /\ \/ Indices(asked.file, Subtitle) # {}
            \/ plan.target \in AudioTargets
                 /\ asked.file.streams # <<Stream(Audio, AudioForm[plan.target].codec)>>
            \/ plan.target \in ImageOutputs
                 /\ asked.file.streams # <<Stream(Video, ImageCodec[plan.target])>>
    \/ plan.target = "aac"
    \/ RoundsOtherwise
    \/ Request.ext # PlannedExtension
    \/ plan.operation = "pdf-metadata" /\ plan.arguments.text = "cjk"
    \/ plan.operation \in {"text", "pdf-ocr"} /\ \A i \in DOMAIN asked.file.pages : ~asked.file.pages[i].text
    \/ plan.lane = "PdfOps" /\ ~DetailsFit(out.pages)

\* An output that is exactly what the plan says is not refused (validation.rs against planner.rs
\* and configure_ffmpeg_output: three places that compute the same expectation).
HonestOutputAccepted ==
    stage = "failed" /\ code = "ValidationFailed" /\ out = Obeyed => HonestGaps

\* Differences that no check looks at.
UncheckedMedia ==
    LET same(f) == out[f] = Obeyed[f]
    IN \/ ~same("millis") /\ plan.target \in ImageOutputs
       \/ ~same("streams") /\ plan.target \in {"mp4", "gif"}
            /\ Len(out.streams) = Len(Obeyed.streams)
       \/ ~same("height") /\ (plan.target \in {"tiff", "bmp"} \/ RoundsOtherwise)
       \/ ~same("alpha") /\ (plan.operation = "metadata-clean" \/ plan.lane = "Heif")

\* the pages of an operation are counted and not compared, a watermark is looked for on any of them
UncheckedPdf ==
    \/ plan.operation \in {"pdf-encrypt", "text"}
    \/ out.container = "pages" /\ [i \in DOMAIN out.images |-> out.images[i].size]
                                    = [i \in DOMAIN Obeyed.images |-> Obeyed.images[i].size]
    \/ /\ out.container = "pdf" /\ out.lock = Obeyed.lock
       /\ Len(out.pages) = Len(Obeyed.pages)
       /\ plan.operation = "pdf-watermark" =>
             \E i \in DOMAIN out.pages : out.pages[i].mark = plan.arguments.text
       /\ plan.operation = "pdf-metadata" => out.title = plan.arguments.text

\* Whatever else an engine wrote, a file that is too short, lost a stream or a page, has another
\* codec, size or content or kept what it should lose is not published, but for what is unchecked.
DamageIsCaught ==
    stage = "committed" /\ out # Obeyed =>
        CASE plan.lane \in PdfAdapters -> UncheckedPdf
          [] plan.lane \in DataAdapters -> UncheckedData(asked.file, out, Obeyed, plan)
          [] plan.lane \in MailAdapters -> UncheckedMail(out, Obeyed, plan)
          [] plan.lane \in DocumentAdapters -> UncheckedDocument(out, Obeyed, plan)
          [] OTHER -> UncheckedMedia

\* Subtitles that MP4 cannot hold take the others with them.
MixedSubtitles ==
    plan.target = "mp4" /\ ForeignSubtitles(asked.file) \notin {{}, Indices(asked.file, Subtitle)}

\* Of a file with several pictures one is converted.
OtherPictures == plan.target \in ImageOutputs /\ Len(asked.file.streams) > 1

\* The validator decides rightly in both directions but for the named gaps (validation.rs, pdf.rs).
VerdictsRight == HonestOutputAccepted /\ DamageIsCaught

\* What the output of a media plan lacks the plan has declared as dropped before it was approved;
\* a plan to preserve all drops nothing (plan_mp4, plan_audio, plan_gif, plan_metadata_clean).
MediaLossIsDeclared ==
    stage = "committed" /\ out = Obeyed /\ plan.lane \in MediaAdapters =>
        IF plan.operation = "metadata-clean"
        THEN asked.file.keys \ out.keys = plan.dropped
        ELSE \/ MixedSubtitles \/ OtherPictures
             \/ \A k \in {Video, Audio, Subtitle, Data} :
                   Cardinality(Indices(out, k)) = Cardinality(Indices(asked.file, k) \ plan.dropped)

\* A mail plan says "every mail" and "normalized textual content": the messages of the output are
\* those of the input, each with the text that its reader sees (eml.rs, msg.rs, mbox.rs).
MailsAreKept ==
    stage = "committed" /\ out = Obeyed /\ plan.lane \in MailAdapters =>
        MailsKept(asked.file, out, plan) \/ MailLossGaps(asked.file, plan)

\* Nothing is lost on the way of an obedient engine that the plan did not declare, but for the
\* named gaps of the sanitizer and the splitting of a mailbox.
LossIsDeclared == MediaLossIsDeclared /\ MailsAreKept

\* A size target is left at the first attempt within it, or after the one with the highest
\* factor that the ladder may reach (runner.rs:458: "the ladder already exhausted the maximum").
LadderIsExhausted ==
    stage \in {"made", "committed"} /\ HasSizeTarget(plan) /\ ~fits =>
        LET start == Default(plan.arguments.crf, 20)
        IN Ladder(plan)[rung] = IF start + 18 > 51 THEN 51 ELSE start + 18

\* A password reaches one engine once: the engine of the plan it was given with, which then runs
\* with it or not at all; after a restart or on a retry it is gone (pdf_secret_store).
PasswordsServeOnce ==
    stage \in {"running", "made", "committed"} =>
        IF Redacted(plan) THEN given = Registered(plan, Request) /\ id \notin DOMAIN secrets
        ELSE given = None
=============================================================================
