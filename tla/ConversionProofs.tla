-------------------------- MODULE ConversionProofs --------------------------
(***************************************************************************)
(* What runs is what was approved, a password serves one engine once, the  *)
(* three places that choose a lane agree, what was planned can run and a   *)
(* size target is not given up early: for every set of requests and files  *)
(* and every number of runs.                                               *)
(*                                                                         *)
(* The first two need nothing of what a plan looks like: only that a       *)
(* preparation stamps it with the inputs' revisions, gives it a new id and *)
(* registers its password under that id.  The others are about the plans   *)
(* themselves: each planner is shown to make a plan that is Sound or to    *)
(* decline (PlanNowIsSound), and the invariant carries that to the engine. *)
(***************************************************************************)
EXTENDS Conversion, WellFoundedInduction, FiniteSetTheorems, SequenceTheorems, TLAPS

-----------------------------------------------------------------------------
(* Numbers, and lists of tests.                                            *)

\* a set of numbers has a least one
LEMMA LeastNumber ==
    ASSUME NEW T, T \subseteq Nat, T # {}
    PROVE  \E x \in T : \A y \in T : ~(y < x)
<1> DEFINE Less == OpToRel(<, Nat)
<1>1. \A x, y \in Nat : y < x => <<y, x>> \in Less
  BY DEF OpToRel
<1>2. IsWellFoundedOn(Less, Nat)
  BY NatLessThanWellFounded
<1> HIDE DEF Less
<1>3. \E x \in T : \A y \in T : ~(<<y, x>> \in Less)
  BY <1>2, WFMin
<1> QED BY <1>1, <1>3

LEMMA MinIsLeast ==
    ASSUME NEW T, T \subseteq Nat, T # {}
    PROVE  Min(T) \in T /\ \A y \in T : Min(T) <= y
<1>1. PICK x \in T : \A y \in T : ~(y < x)
  BY LeastNumber
<1>2. \A y \in T : x <= y
  BY <1>1
<1> QED BY <1>2 DEF Min

\* The first test that holds decides.
LEMMA RefusalIsATest ==
    ASSUME NEW tests, DOMAIN tests \subseteq Nat
    PROVE  \/ Refusal(tests) = "accepted" /\ \A i \in DOMAIN tests : ~tests[i][1]
           \/ \E i \in DOMAIN tests : tests[i][1] /\ Refusal(tests) = tests[i][2]
<1> DEFINE failed == {i \in DOMAIN tests : tests[i][1]}
<1>1. CASE failed = {}
  BY <1>1 DEF Refusal
<1>2. CASE failed # {}
  <2>1. Min(failed) \in failed
    BY <1>2, MinIsLeast
  <2>2. Refusal(tests) = tests[Min(failed)][2]
    BY <1>2 DEF Refusal
  <2> QED BY <2>1, <2>2
<1> QED BY <1>1, <1>2

-----------------------------------------------------------------------------
(* The tables of the routes.                                               *)

\* A lane's step comes to the lane's adapter, whatever content chose the lane.
LEMMA LaneIsServed ==
    ASSUME NEW ext, NEW content, NEW t, NEW h, NEW lane, lane = LaneOf(ext, content, t, h)
    PROVE  /\ AdapterFor(lane.step, t, "none") = lane.adapter
           /\ lane.adapter = "Pdftotext" => t = "md"
           /\ lane.adapter = "PdfRender" => lane.step = "pdftoppm"
           /\ lane.adapter = "Heif" => lane.step = "heif-dec"
           /\ lane.adapter = "Magick" => lane.step = "magick"
           /\ lane.adapter = "Ffmpeg" => lane.step = "ffmpeg"
BY DEF LaneOf, AdapterFor, Lane, DocumentToPdf, MediaLane

\* the table of the targets, for the prover that knows strings but not long records
LEMMA TargetsOf ==
    /\ SupportedTargets["flat"] = {"csv", "json", "yaml", "xml"}
    /\ SupportedTargets["pdf"] = {"jpg", "png", "md"}
    /\ SupportedTargets["heic"] = {"jpg", "png"}
    /\ SupportedTargets["docx"] = {"pdf", "txt", "md", "html", "epub", "odt"}
    /\ SupportedTargets["odt"] = {"pdf", "docx"}
    /\ SupportedTargets["xlsx"] = {"pdf", "csv"}
    /\ SupportedTargets["office"] = {"pdf"}
    /\ SupportedTargets["svg"] = {"pdf"}
    /\ SupportedTargets["html"] = {"pdf", "docx", "epub", "md"}
    /\ SupportedTargets["text"] = {"pdf", "docx", "epub"}
    /\ SupportedTargets["zip"] = {"tar.gz", "7z"}
    /\ SupportedTargets["targz"] = {"zip", "7z"}
    /\ SupportedTargets["sevenz"] = {"zip", "tar.gz"}
    /\ SupportedTargets["eml"] = {"txt", "html", "md"}
    /\ SupportedTargets["msg"] = {"txt", "html", "md"}
    /\ SupportedTargets["mbox"] = {"txt", "html", "pdf", "md"}
    /\ SupportedTargets["raster"] = {"webp", "avif", "tiff", "bmp", "pdf", "txt", "md"}
    /\ SupportedTargets["tiff"] = {"webp", "avif", "png", "pdf", "txt", "md"}
    /\ SupportedTargets["raw"] = {"png", "jpg", "tiff"}
    /\ SupportedTargets["video"] = {"mp4", "gif", "mp3"}
    /\ SupportedTargets["audio"] = {"m4a", "mp3", "wav"}
    /\ SupportedTargets["other"] = {}
BY DEF SupportedTargets

LEMMA InputClasses ==
    DOMAIN SupportedTargets = {"flat", "pdf", "heic", "docx", "odt", "xlsx", "office", "svg",
        "html", "text", "zip", "targz", "sevenz", "eml", "msg", "mbox", "raster", "tiff", "raw",
        "video", "audio", "other"}
BY DEF SupportedTargets

\* Of a file that is what its extension says, the lane that preparation chooses needs no engine
\* that the offer did not ask for, but for the two routes of OfferGaps.
LEMMA OfferedLane ==
    ASSUME NEW ext \in DOMAIN SupportedTargets, NEW t, NEW h,
           EnsureRouteAvailable(ext, t, h) = "available",
           ~(ext = "pdf" /\ t = "md"), ~(ext \in RasterInputs /\ t = "pdf")
    PROVE  LaneOf(ext, ext, t, h).engines \subseteq h
<1>1. t \in SupportedTargets[ext] /\ \E l \in RouteEngineLanes(ext, t) : l \subseteq h
  BY DEF EnsureRouteAvailable, AvailableTargets
<1> USE DEF RouteEngineLanes, RequiredEngines, LaneOf, Lane, Archives, MailTargets, OfficeInputs,
            RasterInputs, Markup, BrowserPrintLane, MarkupLane, OfficeLane, DocumentToPdf,
            DocumentFormat, MediaLane
<1>2. CASE ext = "flat"
  <2>1. t \in {"csv", "json", "yaml", "xml"}
    BY <1>1, <1>2, TargetsOf
  <2> QED
    BY <1>1, <1>2, <2>1
<1>3. CASE ext = "pdf"
  <2>1. t \in {"jpg", "png", "md"}
    BY <1>1, <1>3, TargetsOf
  <2> QED
    BY <1>1, <1>3, <2>1
<1>4. CASE ext = "heic"
  <2>1. t \in {"jpg", "png"}
    BY <1>1, <1>4, TargetsOf
  <2> QED
    BY <1>1, <1>4, <2>1
<1>5. CASE ext = "docx"
  <2>1. t \in {"pdf", "txt", "md", "html", "epub", "odt"}
    BY <1>1, <1>5, TargetsOf
  <2> QED
    BY <1>1, <1>5, <2>1
<1>6. CASE ext = "odt"
  <2>1. t \in {"pdf", "docx"}
    BY <1>1, <1>6, TargetsOf
  <2> QED
    BY <1>1, <1>6, <2>1
<1>7. CASE ext = "xlsx"
  <2>1. t \in {"pdf", "csv"}
    BY <1>1, <1>7, TargetsOf
  <2> QED
    BY <1>1, <1>7, <2>1
<1>8. CASE ext = "office"
  <2>1. t \in {"pdf"}
    BY <1>1, <1>8, TargetsOf
  <2> QED
    BY <1>1, <1>8, <2>1
<1>9. CASE ext = "svg"
  <2>1. t \in {"pdf"}
    BY <1>1, <1>9, TargetsOf
  <2> QED
    BY <1>1, <1>9, <2>1
<1>10. CASE ext = "html"
  <2>1. t \in {"pdf", "docx", "epub", "md"}
    BY <1>1, <1>10, TargetsOf
  <2> QED
    BY <1>1, <1>10, <2>1
<1>11. CASE ext = "text"
  <2>1. t \in {"pdf", "docx", "epub"}
    BY <1>1, <1>11, TargetsOf
  <2> QED
    BY <1>1, <1>11, <2>1
<1>12. CASE ext = "zip"
  <2>1. t \in {"tar.gz", "7z"}
    BY <1>1, <1>12, TargetsOf
  <2> QED
    BY <1>1, <1>12, <2>1
<1>13. CASE ext = "targz"
  <2>1. t \in {"zip", "7z"}
    BY <1>1, <1>13, TargetsOf
  <2> QED
    BY <1>1, <1>13, <2>1
<1>14. CASE ext = "sevenz"
  <2>1. t \in {"zip", "tar.gz"}
    BY <1>1, <1>14, TargetsOf
  <2> QED
    BY <1>1, <1>14, <2>1
<1>15. CASE ext = "eml"
  <2>1. t \in {"txt", "html", "md"}
    BY <1>1, <1>15, TargetsOf
  <2> QED
    BY <1>1, <1>15, <2>1
<1>16. CASE ext = "msg"
  <2>1. t \in {"txt", "html", "md"}
    BY <1>1, <1>16, TargetsOf
  <2> QED
    BY <1>1, <1>16, <2>1
<1>17. CASE ext = "mbox"
  <2>1. t \in {"txt", "html", "pdf", "md"}
    BY <1>1, <1>17, TargetsOf
  <2> QED
    BY <1>1, <1>17, <2>1
<1>18. CASE ext = "raster"
  <2>1. t \in {"webp", "avif", "tiff", "bmp", "pdf", "txt", "md"}
    BY <1>1, <1>18, TargetsOf
  <2> QED
    BY <1>1, <1>18, <2>1
<1>19. CASE ext = "tiff"
  <2>1. t \in {"webp", "avif", "png", "pdf", "txt", "md"}
    BY <1>1, <1>19, TargetsOf
  <2> QED
    BY <1>1, <1>19, <2>1
<1>20. CASE ext = "raw"
  <2>1. t \in {"png", "jpg", "tiff"}
    BY <1>1, <1>20, TargetsOf
  <2> QED
    BY <1>1, <1>20, <2>1
<1>21. CASE ext = "video"
  <2>1. t \in {"mp4", "gif", "mp3"}
    BY <1>1, <1>21, TargetsOf
  <2> QED
    BY <1>1, <1>21, <2>1
<1>22. CASE ext = "audio"
  <2>1. t \in {"m4a", "mp3", "wav"}
    BY <1>1, <1>22, TargetsOf
  <2> QED
    BY <1>1, <1>22, <2>1
<1>23. CASE ext = "other"
  <2>1. t \in {}
    BY <1>1, <1>23, TargetsOf
  <2> QED
    BY <1>1, <1>23, <2>1
<1> QED
  BY InputClasses, <1>2, <1>3, <1>4, <1>5, <1>6, <1>7, <1>8, <1>9, <1>10, <1>11, <1>12, <1>13,
     <1>14, <1>15, <1>16, <1>17, <1>18, <1>19, <1>20, <1>21, <1>22, <1>23

-----------------------------------------------------------------------------
(* What the planner of a lane makes: a plan, or a refusal that does not     *)
(* speak of engines.                                                        *)

IsPlan(q) ==
    /\ DOMAIN q = {"ok", "lane", "engine", "target", "operation", "loss", "arguments", "dropped"}
    /\ q.ok = TRUE

Declined(q) == \E c : q = Refused(c) /\ c # "EngineMissing"

\* a plan of the lane, by the engine of its step
Serves(q, lane, engine) == IsPlan(q) /\ q.lane = lane /\ q.engine = engine

\* the fields of a plan for ffmpeg, and of one for a step
LEMMA PlanForm ==
    ASSUME NEW target, NEW operation, NEW loss, NEW arguments, NEW dropped
    PROVE  LET q == Plan(target, operation, loss, arguments, dropped)
           IN /\ Serves(q, "Ffmpeg", "ffmpeg") /\ q.target = target
              /\ q.operation = operation /\ q.arguments = arguments
BY DEF Plan, Serves, IsPlan

LEMMA PlanOfStepForm ==
    ASSUME NEW lane, NEW target, NEW operation, NEW loss, NEW arguments
    PROVE  LET q == PlanOfStep(lane, target, operation, loss, arguments)
           IN /\ Serves(q, lane.adapter, lane.step) /\ q.target = target
              /\ q.operation = operation /\ q.arguments = arguments
BY DEF PlanOfStep, Serves, IsPlan

LEMMA CleanedPlan ==
    ASSUME NEW p, NEW r, NEW q, q = PlanMetadataClean(p, r)
    PROVE  \/ Declined(q)
           \/ Serves(q, "Ffmpeg", "ffmpeg") /\ q.operation = "metadata-clean" /\ RunnerAccepts(q)
<1> DEFINE removed == p.keys \cap PrivateKeys
           a == p.format \notin Cleanable
           b == \E k \in removed : ~ValidMetadataKey(k)
           tests == << <<a, "Unsupported">>, <<r.overInput, "PolicyBlocked">>,
                       <<b, "PolicyBlocked">> >>
           arguments == [removed |-> removed, retained |-> p.keys \ removed]
           plan0 == Plan(p.format, "metadata-clean", "container-only", arguments, removed)
<1>1. q = IF Refusal(tests) # "accepted" THEN Refused(Refusal(tests)) ELSE plan0
  BY DEF PlanMetadataClean
<1>2. /\ DOMAIN tests = 1..3 /\ tests[3][1] = b
      /\ tests[1][2] = "Unsupported" /\ tests[2][2] = "PolicyBlocked"
      /\ tests[3][2] = "PolicyBlocked"
  OBVIOUS
<1>3. Serves(plan0, "Ffmpeg", "ffmpeg") /\ plan0.operation = "metadata-clean"
      /\ plan0.arguments = arguments
  BY PlanForm
<1>4. arguments.removed = removed
  OBVIOUS
<1> HIDE DEF tests, a, b, arguments, plan0, removed
<1>5. CASE Refusal(tests) = "accepted"
  <2>1. ~b
    BY <1>2, <1>5, RefusalIsATest
  <2>2. RunnerAccepts(plan0)
    BY <1>3, <1>4, <2>1 DEF RunnerAccepts, Serves, b
  <2> QED BY <1>1, <1>3, <1>5, <2>2
<1>6. CASE Refusal(tests) # "accepted"
  BY <1>1, <1>2, <1>6, RefusalIsATest DEF Declined
<1> QED BY <1>5, <1>6

\* what the runner refuses of an accepted plan (the media part of PlanGaps)
MediaGaps(q, r) ==
    \/ q.target = "mp4"
         /\ (~CrfFits(r.crf) \/ r.preset \notin Presets \/ ~BitrateFits(r.bitrate))
    \/ q.target \in AudioTargets /\ ~BitrateFits(r.bitrate)

LEMMA Mp4Plan ==
    ASSUME NEW p, NEW r, NEW q, q = PlanMp4(p, r)
    PROVE  \/ Declined(q)
           \/ /\ Serves(q, "Ffmpeg", "ffmpeg") /\ q.arguments.crf = r.crf
              /\ RunnerAccepts(q) \/ MediaGaps(q, r)
<1> DEFINE foreign == ForeignSubtitles(p)
           other == Indices(p, Data)
           videoCopy == /\ \A i \in Indices(p, Video) : p.streams[i].codec \in {"h264", "hevc"}
                        /\ r.size = Unset
           audioCopy == \A i \in Indices(p, Audio) : p.streams[i].codec = "aac"
           remux == videoCopy /\ audioCopy /\ foreign = {} /\ other = {}
           tests == << <<p.kind # "video", "Unsupported">>,
                       <<Indices(p, Video) = {}, "InputInvalid">>,
                       <<r.preserve /\ (foreign # {} \/ other # {}), "PolicyBlocked">> >>
           arguments ==
               [video |-> IF videoCopy THEN "copy" ELSE "libx264",
                audio |-> IF audioCopy THEN "copy" ELSE "aac",
                subtitles |-> IF Indices(p, Subtitle) = {} THEN "none"
                              ELSE IF foreign = {} THEN "copy" ELSE "drop",
                crf |-> r.crf, preset |-> r.preset, bitrate |-> r.bitrate, size |-> r.size]
           operation == IF remux THEN "remux" ELSE "transcode"
           plan0 == Plan("mp4", operation, IF remux THEN "container-only" ELSE "lossy",
                         arguments, IF remux \/ r.preserve THEN {} ELSE foreign \cup other)
<1>1. q = IF Refusal(tests) # "accepted" THEN Refused(Refusal(tests)) ELSE plan0
  BY DEF PlanMp4
<1>2. /\ DOMAIN tests = 1..3
      /\ tests[1][2] = "Unsupported" /\ tests[2][2] = "InputInvalid"
      /\ tests[3][2] = "PolicyBlocked"
  OBVIOUS
<1>3. /\ arguments.crf = r.crf /\ arguments.preset = r.preset /\ arguments.bitrate = r.bitrate
      /\ operation # "metadata-clean"
  OBVIOUS
<1> HIDE DEF tests, arguments, operation, remux, foreign, other
<1>4. /\ Serves(plan0, "Ffmpeg", "ffmpeg") /\ plan0.operation = operation
      /\ plan0.arguments = arguments /\ plan0.target = "mp4"
  BY ONLY PlanForm
<1> HIDE DEF plan0
<1>5. RunnerAccepts(plan0) \/ MediaGaps(plan0, r)
  BY <1>3, <1>4 DEF RunnerAccepts, Serves, MediaGaps
<1>6. Refusal(tests) # "accepted" => Declined(Refused(Refusal(tests)))
  BY <1>2, RefusalIsATest DEF Declined
<1> QED BY <1>1, <1>3, <1>4, <1>5, <1>6

LEMMA AudioPlan ==
    ASSUME NEW p, NEW r, NEW q, q = PlanAudio(p, r), r.target \in AudioTargets
    PROVE  \/ Declined(q)
           \/ /\ Serves(q, "Ffmpeg", "ffmpeg") /\ q.target = r.target
              /\ RunnerAccepts(q) \/ MediaGaps(q, r)
<1> DEFINE audios == Indices(p, Audio)
           tests == << <<p.kind \notin {"video", "audio"}, "Unsupported">>,
                       <<audios = {}, "InputInvalid">>,
                       <<r.preserve /\ Cardinality(audios) > 1, "PolicyBlocked">>,
                       <<r.stream # Unset /\ r.stream \notin audios, "InputInvalid">> >>
           selected == IF r.stream = Unset THEN Min(audios) ELSE r.stream
           form == AudioForm[r.target]
           copy == p.streams[selected].codec = form.codec
           operation == IF copy THEN "remux" ELSE "transcode"
           arguments == [stream |-> selected, audio |-> IF copy THEN "copy" ELSE form.encoder,
                         bitrate |-> r.bitrate]
           plan0 == Plan(r.target, operation,
                         IF copy THEN "container-only"
                         ELSE IF form.lossy THEN "lossy" ELSE "lossless",
                         arguments, DOMAIN p.streams \ {selected})
<1>1. q = IF Refusal(tests) # "accepted" THEN Refused(Refusal(tests)) ELSE plan0
  BY DEF PlanAudio
<1>2. /\ DOMAIN tests = 1..4
      /\ tests[1][2] = "Unsupported" /\ tests[2][2] = "InputInvalid"
      /\ tests[3][2] = "PolicyBlocked" /\ tests[4][2] = "InputInvalid"
  OBVIOUS
<1>3. arguments.bitrate = r.bitrate /\ operation # "metadata-clean"
  OBVIOUS
<1>4. "mp4" \notin AudioTargets
  BY DEF AudioTargets, AudioForm
<1> HIDE DEF tests, arguments, operation, selected, form, copy
<1>5. /\ Serves(plan0, "Ffmpeg", "ffmpeg") /\ plan0.operation = operation
      /\ plan0.arguments = arguments /\ plan0.target = r.target
  BY ONLY PlanForm
<1> HIDE DEF plan0
<1>6. RunnerAccepts(plan0) \/ MediaGaps(plan0, r)
  BY <1>3, <1>4, <1>5 DEF RunnerAccepts, Serves, MediaGaps
<1>7. Refusal(tests) # "accepted" => Declined(Refused(Refusal(tests)))
  BY <1>2, RefusalIsATest DEF Declined
<1> QED BY <1>1, <1>5, <1>6, <1>7

LEMMA GifPlan ==
    ASSUME NEW p, NEW r, NEW q, q = PlanGif(p, r)
    PROVE  \/ Declined(q)
           \/ Serves(q, "Ffmpeg", "ffmpeg") /\ q.target = "gif" /\ RunnerAccepts(q)
<1> DEFINE start == Default(r.start, 0)
           rate == Default(r.rate, 15)
           b == ~InRange(rate, 1, 60)
           tests == << <<Indices(p, Video) = {}, "InputInvalid">>,
                       <<r.length = 0, "InputInvalid">>,
                       <<b, "InputInvalid">>,
                       <<r.width # Unset /\ ~InRange(r.width, 1, 16384), "InputInvalid">>,
                       <<~SliceFits(p, start, r.length), "InputInvalid">> >>
           arguments == [stream |-> Min(Indices(p, Video)), start |-> start, length |-> r.length,
                         rate |-> rate, width |-> r.width]
           plan0 == Plan("gif", "transcode", "lossy", arguments,
                         DOMAIN p.streams \ {Min(Indices(p, Video))})
<1>1. q = IF Refusal(tests) # "accepted" THEN Refused(Refusal(tests)) ELSE plan0
  BY DEF PlanGif
<1>2. /\ DOMAIN tests = 1..5 /\ tests[3][1] = b
      /\ \A i \in 1..5 : tests[i][2] = "InputInvalid"
  OBVIOUS
<1>3. /\ Serves(plan0, "Ffmpeg", "ffmpeg") /\ plan0.operation = "transcode"
      /\ plan0.arguments = arguments /\ plan0.target = "gif"
  BY PlanForm
<1>4. arguments.rate = rate
  OBVIOUS
<1>5. "gif" \notin AudioTargets
  BY DEF AudioTargets, AudioForm
<1> HIDE DEF tests, arguments, plan0, b
<1>6. Refusal(tests) = "accepted" => RunnerAccepts(plan0)
  <2> SUFFICES ASSUME Refusal(tests) = "accepted" PROVE RunnerAccepts(plan0)
    OBVIOUS
  <2>1. ~b
    BY <1>2, RefusalIsATest
  <2>2. InRange(rate, 1, 60)
    BY <2>1 DEF b
  <2> HIDE DEF rate
  <2> QED BY <1>3, <1>4, <1>5, <2>2 DEF RunnerAccepts, Serves
<1>7. Refusal(tests) # "accepted" => Declined(Refused(Refusal(tests)))
  <2>1. Refusal(tests) # "accepted" => Refusal(tests) = "InputInvalid"
    BY <1>2, RefusalIsATest
  <2> QED BY <2>1 DEF Declined
<1> QED BY <1>1, <1>3, <1>6, <1>7

\* EncoderQuality stays in the range of every encoder
LEMMA QualityInRange ==
    ASSUME NEW target, NEW n \in Int, InRange(n, 1, 100)
    PROVE  QualityFits(target, EncoderQuality(target, n))
<1>1. n >= 1 /\ n <= 100
  BY DEF InRange
<1>2. CASE target = "jpeg"
  <2>1. EncoderQuality(target, n) = Clamp(((101 - n) * 29) \div 100 + 2, 2, 31)
    BY ONLY <1>2, Zenon DEF EncoderQuality
  <2>2. PICK m \in Int : m = ((101 - n) * 29) \div 100 + 2
    OBVIOUS
  <2>3. Clamp(m, 2, 31) \in 2..31
    BY DEF Clamp
  <2>4. InRange(EncoderQuality(target, n), 2, 31)
    BY <2>1, <2>2, <2>3 DEF InRange
  <2> QED BY ONLY <1>2, <2>4, Zenon DEF QualityFits
<1>3. CASE target = "avif"
  <2>1. EncoderQuality(target, n) = Clamp(((100 - n) * 63) \div 100, 0, 63)
    BY ONLY <1>3, Zenon DEF EncoderQuality
  <2>2. PICK m \in Int : m = ((100 - n) * 63) \div 100
    OBVIOUS
  <2>3. Clamp(m, 0, 63) \in 0..63
    BY DEF Clamp
  <2>4. InRange(EncoderQuality(target, n), 0, 63)
    BY <2>1, <2>2, <2>3 DEF InRange
  <2> QED BY ONLY <1>3, <2>4, Zenon DEF QualityFits
<1>4. CASE target = "webp"
  <2>1. EncoderQuality(target, n) = n
    BY ONLY <1>4, Zenon DEF EncoderQuality
  <2> QED BY ONLY <1>4, <2>1, InRange(n, 1, 100), Zenon DEF QualityFits
<1>5. CASE target \notin {"jpeg", "avif", "webp"}
  BY ONLY <1>5, Zenon DEF QualityFits
<1> QED BY <1>2, <1>3, <1>4, <1>5

\* no image format is a sound, a movie or a document
LEMMA Canonicals ==
    ASSUME NEW t \in ImageTargets
    PROVE  /\ Canonical(t) \notin AudioTargets /\ Canonical(t) # "mp4" /\ Canonical(t) # "gif"
           /\ Canonical(t) \notin {"pdf", "md"}
BY DEF ImageTargets, Canonical, AudioTargets, AudioForm

LEMMA ImagePlan ==
    ASSUME NEW p, NEW r, NEW q, q = PlanImage(p, r), r.target \in ImageTargets, r.quality \in Int
    PROVE  \/ Declined(q)
           \/ /\ Serves(q, "Ffmpeg", "ffmpeg") /\ q.target = Canonical(r.target)
              /\ RunnerAccepts(q)
<1> DEFINE target == Canonical(r.target)
           lossy == target \in LossyImages
           quality == IF lossy THEN Default(r.quality, 85) ELSE Unset
           b == lossy /\ ~InRange(quality, 1, 100)
           tests == << <<p.kind # "image", "Unsupported">>,
                       <<Indices(p, Video) = {}, "InputInvalid">>,
                       <<r.width # Unset /\ ~InRange(r.width, 1, 16384), "InputInvalid">>,
                       <<b, "InputInvalid">>,
                       <<~lossy /\ r.quality # Unset, "InputInvalid">>,
                       <<p.alpha /\ target \in {"jpeg", "bmp"}, "PolicyBlocked">> >>
           arguments == [stream |-> Min(Indices(p, Video)), width |-> r.width,
                         quality |-> IF lossy THEN EncoderQuality(target, quality) ELSE Unset,
                         alpha |-> p.alpha]
           plan0 == Plan(target, "transcode", IF lossy THEN "lossy" ELSE "lossless", arguments, {})
<1>1. q = IF Refusal(tests) # "accepted" THEN Refused(Refusal(tests)) ELSE plan0
  BY DEF PlanImage
<1>2. /\ DOMAIN tests = 1..6 /\ tests[4][1] = b
      /\ tests[1][2] = "Unsupported" /\ tests[2][2] = "InputInvalid"
      /\ tests[3][2] = "InputInvalid" /\ tests[4][2] = "InputInvalid"
      /\ tests[5][2] = "InputInvalid" /\ tests[6][2] = "PolicyBlocked"
  OBVIOUS
<1>3. /\ Serves(plan0, "Ffmpeg", "ffmpeg") /\ plan0.operation = "transcode"
      /\ plan0.arguments = arguments /\ plan0.target = target
  BY PlanForm
<1>4. arguments.quality = IF lossy THEN EncoderQuality(target, quality) ELSE Unset
  OBVIOUS
<1>5. target \notin AudioTargets /\ target # "mp4" /\ target # "gif"
  BY Canonicals
<1>6. quality \in Int /\ (~lossy => target \notin {"jpeg", "avif", "webp"})
  BY DEF Default, Unset, LossyImages
<1> HIDE DEF tests, arguments, plan0, b, target, quality
<1>7. Refusal(tests) = "accepted" => RunnerAccepts(plan0)
  <2> SUFFICES ASSUME Refusal(tests) = "accepted" PROVE RunnerAccepts(plan0)
    OBVIOUS
  <2>1. ~b
    BY <1>2, RefusalIsATest
  <2>2. CASE lossy
    <3>1. InRange(quality, 1, 100)
      BY <2>1, <2>2 DEF b
    <3> QED BY <1>3, <1>4, <1>5, <1>6, <2>2, <3>1, QualityInRange DEF RunnerAccepts, Serves
  <2>3. CASE ~lossy
    <3>1. target \notin {"jpeg", "avif", "webp"}
      BY <1>6, <2>3
    <3>2. QualityFits(target, Unset)
      BY ONLY <3>1, Zenon DEF QualityFits
    <3> QED BY <1>3, <1>4, <1>5, <2>3, <3>2 DEF RunnerAccepts, Serves
  <2> QED BY <2>2, <2>3
<1>8. Refusal(tests) # "accepted" => Declined(Refused(Refusal(tests)))
  <2>1. Refusal(tests) # "accepted" =>
            Refusal(tests) \in {"Unsupported", "InputInvalid", "PolicyBlocked"}
    BY <1>2, RefusalIsATest
  <2> QED BY <2>1 DEF Declined
<1> QED BY <1>1, <1>3, <1>7, <1>8 DEF target

LEMMA HeicPlan ==
    ASSUME NEW p, NEW r, NEW q, q = PlanHeic(p, r)
    PROVE  Declined(q) \/ (Serves(q, "Heif", "heif-dec") /\ q.target # "mp4" /\ RunnerAccepts(q))
<1> DEFINE target == Canonical(r.target)
           lossy == target = "jpeg"
           quality == IF lossy THEN Default(r.quality, 85) ELSE Unset
           b == lossy /\ ~InRange(quality, 1, 100)
           c == target \notin {"jpeg", "png"}
           tests == << <<p.format # "heic" \/ p.kind # "image", "Unsupported">>,
                       <<r.width # Unset, "Unsupported">>,
                       <<c, "Unsupported">>,
                       <<b, "InputInvalid">>,
                       <<~lossy /\ r.quality # Unset, "InputInvalid">> >>
           arguments == [width |-> Unset, quality |-> quality, alpha |-> FALSE]
           made == Plan(target, "transcode", IF lossy THEN "lossy" ELSE "lossless", arguments, {})
           plan0 == [made EXCEPT !.lane = "Heif", !.engine = "heif-dec"]
<1>1. q = IF Refusal(tests) # "accepted" THEN Refused(Refusal(tests)) ELSE plan0
  BY DEF PlanHeic
<1>2. /\ DOMAIN tests = 1..5 /\ tests[3][1] = c /\ tests[4][1] = b
      /\ tests[1][2] = "Unsupported" /\ tests[2][2] = "Unsupported"
      /\ tests[3][2] = "Unsupported" /\ tests[4][2] = "InputInvalid"
      /\ tests[5][2] = "InputInvalid"
  OBVIOUS
<1>3. /\ Serves(made, "Ffmpeg", "ffmpeg")
      /\ made.arguments = arguments /\ made.target = target
  BY PlanForm
<1>4. /\ Serves(plan0, "Heif", "heif-dec")
      /\ plan0.arguments = arguments /\ plan0.target = target
  <2> HIDE DEF made, arguments, target
  <2> QED BY <1>3 DEF Serves, IsPlan
<1>5. arguments.quality = quality
  OBVIOUS
<1> HIDE DEF tests, arguments, made, plan0, b, c, quality, target
<1>6. Refusal(tests) = "accepted" => RunnerAccepts(plan0) /\ target # "mp4"
  <2> SUFFICES ASSUME Refusal(tests) = "accepted" PROVE RunnerAccepts(plan0) /\ target # "mp4"
    OBVIOUS
  <2>1. ~b /\ ~c
    BY <1>2, RefusalIsATest
  <2>2. RunnerAccepts(plan0)
    BY <1>4, <1>5, <2>1 DEF RunnerAccepts, Serves, b
  <2>3. target # "mp4"
    BY <2>1 DEF c
  <2> QED BY <2>2, <2>3
<1>7. Refusal(tests) # "accepted" => Declined(Refused(Refusal(tests)))
  <2>1. Refusal(tests) # "accepted" => Refusal(tests) \in {"Unsupported", "InputInvalid"}
    BY <1>2, RefusalIsATest
  <2> QED BY <2>1 DEF Declined
<1> QED BY <1>1, <1>4, <1>6, <1>7

LEMMA MagickPlan ==
    ASSUME NEW p, NEW r, NEW q, q = PlanMagick(p, r)
    PROVE  Declined(q) \/ (Serves(q, "Magick", "magick") /\ q.target # "mp4" /\ RunnerAccepts(q))
<1> DEFINE target == Canonical(r.target)
           lossy == target = "jpeg"
           quality == IF lossy THEN Default(r.quality, 92) ELSE Unset
           b == lossy /\ ~InRange(quality, 1, 100)
           c == target \notin {"jpeg", "png", "tiff"}
           tests == << <<p.format \notin {"psd", "dng"}, "Unsupported">>,
                       <<r.width # Unset, "Unsupported">>,
                       <<c, "Unsupported">>,
                       <<b, "InputInvalid">>,
                       <<~lossy /\ r.quality # Unset, "InputInvalid">> >>
           arguments == [width |-> Unset, quality |-> quality, alpha |-> FALSE]
           made == Plan(target, "transcode", IF lossy THEN "lossy" ELSE "lossless", arguments, {})
           plan0 == [made EXCEPT !.lane = "Magick", !.engine = "magick"]
<1>1. q = IF Refusal(tests) # "accepted" THEN Refused(Refusal(tests)) ELSE plan0
  BY DEF PlanMagick
<1>2. /\ DOMAIN tests = 1..5 /\ tests[3][1] = c /\ tests[4][1] = b
      /\ tests[1][2] = "Unsupported" /\ tests[2][2] = "Unsupported"
      /\ tests[3][2] = "Unsupported" /\ tests[4][2] = "InputInvalid"
      /\ tests[5][2] = "InputInvalid"
  OBVIOUS
<1>3. /\ Serves(made, "Ffmpeg", "ffmpeg")
      /\ made.arguments = arguments /\ made.target = target
  BY PlanForm
<1>4. /\ Serves(plan0, "Magick", "magick")
      /\ plan0.arguments = arguments /\ plan0.target = target
  <2> HIDE DEF made, arguments, target
  <2> QED BY <1>3 DEF Serves, IsPlan
<1>5. arguments.quality = quality
  OBVIOUS
<1> HIDE DEF tests, arguments, made, plan0, b, c, quality, target
<1>6. Refusal(tests) = "accepted" => RunnerAccepts(plan0) /\ target # "mp4"
  <2> SUFFICES ASSUME Refusal(tests) = "accepted" PROVE RunnerAccepts(plan0) /\ target # "mp4"
    OBVIOUS
  <2>1. ~b /\ ~c
    BY <1>2, RefusalIsATest
  <2>2. RunnerAccepts(plan0)
    BY <1>4, <1>5, <2>1 DEF RunnerAccepts, Serves, b
  <2>3. target # "mp4"
    BY <2>1 DEF c
  <2> QED BY <2>2, <2>3
<1>7. Refusal(tests) # "accepted" => Declined(Refused(Refusal(tests)))
  <2>1. Refusal(tests) # "accepted" => Refusal(tests) \in {"Unsupported", "InputInvalid"}
    BY <1>2, RefusalIsATest
  <2> QED BY <2>1 DEF Declined
<1> QED BY <1>1, <1>4, <1>6, <1>7

\* the four media planners and their choice by the target
LEMMA MediaPlans ==
    ASSUME NEW p, NEW r, NEW q, q = PlanMedia(p, r), r.quality \in Int
    PROVE  \/ Declined(q)
           \/ /\ Serves(q, "Ffmpeg", "ffmpeg")
              /\ RunnerAccepts(q) \/ MediaGaps(q, r)
              /\ q.target = "mp4" => q.arguments.crf = r.crf
<1> DEFINE t == r.target
<1>1. /\ t = "mp4" => t \notin AudioTargets /\ t # "gif" /\ t \notin ImageTargets
      /\ t \in AudioTargets => t # "mp4" /\ t # "gif" /\ t \notin ImageTargets
      /\ t = "gif" => t # "mp4" /\ t \notin AudioTargets /\ t \notin ImageTargets
      /\ t \in ImageTargets => t # "mp4" /\ t # "gif" /\ t \notin AudioTargets
  BY DEF AudioTargets, AudioForm, ImageTargets
<1>2. CASE t = "mp4"
  <2>1. q = PlanMp4(p, r)
    BY ONLY <1>1, <1>2, q = PlanMedia(p, r), Zenon DEF PlanMedia
  <2> QED BY <2>1, Mp4Plan
<1>3. CASE t \in AudioTargets
  <2>1. q = PlanAudio(p, r)
    BY ONLY <1>1, <1>3, q = PlanMedia(p, r), Zenon DEF PlanMedia
  <2> QED BY <1>1, <1>3, <2>1, AudioPlan
<1>4. CASE t = "gif"
  <2>1. q = PlanGif(p, r)
    BY ONLY <1>1, <1>4, q = PlanMedia(p, r), Zenon DEF PlanMedia
  <2> QED BY <2>1, GifPlan
<1>5. CASE t \in ImageTargets
  <2>1. q = PlanImage(p, r)
    BY ONLY <1>1, <1>5, q = PlanMedia(p, r), Zenon DEF PlanMedia
  <2> QED BY <1>5, <2>1, ImagePlan, Canonicals
<1>6. CASE t # "mp4" /\ t \notin AudioTargets /\ t # "gif" /\ t \notin ImageTargets
  <2>1. q = Refused("Unsupported")
    BY ONLY <1>6, q = PlanMedia(p, r), Zenon DEF PlanMedia
  <2> QED BY <2>1 DEF Declined
<1> QED BY <1>2, <1>3, <1>4, <1>5, <1>6

-----------------------------------------------------------------------------
(* PDF.                                                                    *)

\* what an inspection says, and what it means that it says nothing
LEMMA InspectPdfTells ==
    ASSUME NEW f, NEW password
    PROVE  /\ InspectPdf(f, password) # "EngineMissing"
           /\ InspectPdf(f, password) = "accepted" => Opens(f, password)
<1> DEFINE b == ~Opens(f, password)
           locked == IF password = "none" THEN "PolicyBlocked" ELSE "InputInvalid"
           tests == << <<f.container # "pdf", "InputInvalid">>,
                       <<b, locked>>,
                       <<f.pages = <<>>, "InputInvalid">>,
                       <<Len(f.pages) > MaxPdfPages, "ResourceExhausted">>,
                       <<~DetailsFit(f.pages), "EngineIncompatible">>,
                       <<\E i \in DOMAIN f.pages : f.pages[i].w <= 0 \/ f.pages[i].h <= 0,
                         "InputInvalid">> >>
<1>1. InspectPdf(f, password) = Refusal(tests)
  BY DEF InspectPdf
<1>2. /\ DOMAIN tests = 1..6 /\ tests[2][1] = b
      /\ tests[1][2] = "InputInvalid" /\ tests[2][2] = locked
      /\ tests[3][2] = "InputInvalid" /\ tests[4][2] = "ResourceExhausted"
      /\ tests[5][2] = "EngineIncompatible" /\ tests[6][2] = "InputInvalid"
  OBVIOUS
<1>3. locked # "EngineMissing" /\ locked # "accepted"
  OBVIOUS
<1> HIDE DEF tests, b, locked
<1>4. Refusal(tests) = "accepted" => ~b
  BY <1>2, <1>3, RefusalIsATest
<1>5. Refusal(tests) # "EngineMissing"
  BY <1>2, <1>3, RefusalIsATest
<1> QED BY <1>1, <1>4, <1>5 DEF b

LEMMA OperationRefusalTells ==
    ASSUME NEW f, NEW r, NEW op
    PROVE  OperationRefusal(f, r, op) # "EngineMissing"
<1>1. MergeRefusal(f, r) # "EngineMissing"
  <2> DEFINE tests == << <<r.more = <<>>, "Unsupported">>,
                  <<Len(PagesOf(MergeInputs(f, r))) > MaxPdfPages, "ResourceExhausted">> >>
  <2>1. MergeRefusal(f, r) = Refusal(tests)
    BY DEF MergeRefusal
  <2>2. DOMAIN tests = 1..2 /\ tests[1][2] = "Unsupported" /\ tests[2][2] = "ResourceExhausted"
    OBVIOUS
  <2> HIDE DEF tests
  <2> QED BY <2>1, <2>2, RefusalIsATest
<1>2. WatermarkRefusal(r) # "EngineMissing"
  <2> DEFINE tests == << <<Trim(r.text) \in {"none", ""}, "InputInvalid">>,
                  <<r.text \in {"long", "cjk"}, "InputInvalid">>,
                  <<r.angle # Unset /\ r.angle > 180, "InputInvalid">> >>
  <2>1. WatermarkRefusal(r) = Refusal(tests)
    BY DEF WatermarkRefusal
  <2>2. DOMAIN tests = 1..3 /\ \A i \in 1..3 : tests[i][2] = "InputInvalid"
    OBVIOUS
  <2> HIDE DEF tests
  <2> QED BY <2>1, <2>2, RefusalIsATest
<1>3. /\ ExtractRefusal(f, r) # "EngineMissing" /\ RotateRefusal(f, r) # "EngineMissing"
      /\ SecretRefusal(r) # "EngineMissing" /\ MetadataRefusal(r) # "EngineMissing"
      /\ LanguageRefusal(r) # "EngineMissing"
  BY DEF ExtractRefusal, RotateRefusal, RangeRefusal, SecretRefusal, MetadataRefusal,
         LanguageRefusal
<1> DEFINE v == OperationRefusal(f, r, op)
<1>4. CASE op = "pdf-merge"
  <2>1. v = MergeRefusal(f, r)
    BY ONLY <1>4, Zenon DEF OperationRefusal
  <2> QED BY <1>1, <2>1
<1>5. CASE op = "pdf-watermark"
  <2>1. v = WatermarkRefusal(r)
    BY ONLY <1>5, Zenon DEF OperationRefusal
  <2> QED BY <1>2, <2>1
<1>6. CASE op \in {"pdf-extract", "pdf-rotate"}
  <2>1. v = ExtractRefusal(f, r) \/ v = RotateRefusal(f, r)
    BY ONLY <1>6, Zenon DEF OperationRefusal
  <2> QED BY <1>3, <2>1
<1>7. CASE op \in {"pdf-encrypt", "pdf-decrypt"}
  <2>1. v = SecretRefusal(r)
    BY ONLY <1>7, Zenon DEF OperationRefusal
  <2> QED BY <1>3, <2>1
<1>8. CASE op \in {"pdf-metadata", "pdf-ocr"}
  <2>1. v = MetadataRefusal(r) \/ v = LanguageRefusal(r)
    BY ONLY <1>8, Zenon DEF OperationRefusal
  <2> QED BY <1>3, <2>1
<1>9. CASE op \notin {"pdf-merge", "pdf-watermark", "pdf-extract", "pdf-rotate", "pdf-encrypt",
                      "pdf-decrypt", "pdf-metadata", "pdf-ocr"}
  <2>1. v = "accepted"
    BY ONLY <1>9, Zenon DEF OperationRefusal
  <2> QED BY <2>1
<1> QED BY <1>4, <1>5, <1>6, <1>7, <1>8, <1>9

\* an accepted document can be opened with the password it was inspected with
LEMMA OperationInspectionTells ==
    ASSUME NEW f, NEW r, NEW op
    PROVE  /\ OperationInspection(f, r, op) # "EngineMissing"
           /\ OperationInspection(f, r, op) = "accepted" /\ op # "pdf-merge" =>
                 Opens(f, IF op = "pdf-decrypt" THEN r.password ELSE "none")
<1>1. CASE op = "pdf-merge"
  <2> DEFINE files == MergeInputs(f, r)
             bad == {i \in DOMAIN files : InspectPdf(files[i], "none") # "accepted"}
  <2>1. \/ OperationInspection(f, r, op) = "accepted"
        \/ OperationInspection(f, r, op) = InspectPdf(files[Min(bad)], "none")
    BY <1>1 DEF OperationInspection
  <2> QED BY <1>1, <2>1, InspectPdfTells
<1>2. CASE op # "pdf-merge"
  BY <1>2, InspectPdfTells DEF OperationInspection
<1> QED BY <1>1, <1>2

\* the password that the engine of a plan is given
Given(q, r) == IF Redacted(q) THEN Registered(q, r) ELSE None

\* the PDF part of PlanGaps
PdfGaps(q, f, r) ==
    \/ q.operation = "pdf-merge" /\ ~Findable(q.arguments.inputs)
    \/ q.operation = "text" /\ f.lock # None
    \/ q.operation = "pdf-metadata" /\ ~f.trailer
    \/ q.operation = "pdf-decrypt" /\ r.password # Trim(r.password)

\* a CASE of three branches for Zenon, in the terms that the other prover needs
LEMMA WhoOpens ==
    ASSUME NEW f, NEW q, NEW password
    PROVE  /\ q.operation = "pdf-merge" =>
                 EngineOpens(f, q, password) = Findable(q.arguments.inputs)
           /\ q.operation = "pdf-metadata" => EngineOpens(f, q, password) = f.trailer
           /\ q.operation \notin {"pdf-merge", "pdf-metadata"} =>
                 EngineOpens(f, q, password) = Opens(f, password)
<1>1. ASSUME q.operation = "pdf-merge"
      PROVE  EngineOpens(f, q, password) = Findable(q.arguments.inputs)
  BY ONLY <1>1, Zenon DEF EngineOpens
<1>2. ASSUME q.operation = "pdf-metadata" PROVE EngineOpens(f, q, password) = f.trailer
  BY ONLY <1>2, Zenon DEF EngineOpens
<1>3. ASSUME q.operation \notin {"pdf-merge", "pdf-metadata"}
      PROVE  EngineOpens(f, q, password) = Opens(f, password)
  <2>1. q.operation # "pdf-merge" /\ q.operation # "pdf-metadata"
    BY <1>3
  <2> QED BY ONLY <2>1, Zenon DEF EngineOpens
<1> QED BY <1>1, <1>2, <1>3

\* the plans of the operations, of a rendering, and of all PDF lanes
LEMMA OperationPlan ==
    ASSUME NEW lane, NEW f, NEW r, NEW op \in PdfOperations, NEW q,
           q = PlanPdfOperation(lane, f, r, op)
    PROVE  \/ Declined(q)
           \/ /\ Serves(q, lane.adapter, lane.step) /\ q.target # "mp4"
              /\ EngineOpens(f, q, Given(q, r)) \/ PdfGaps(q, f, r)
<1> DEFINE inspection == OperationInspection(f, r, op)
           refusal == IF inspection # "accepted" THEN inspection ELSE OperationRefusal(f, r, op)
           count == CASE op = "pdf-merge" -> Len(PagesOf(MergeInputs(f, r)))
                      [] op = "pdf-extract" -> Len(PagesOfRange(r.parts))
                      [] OTHER -> Len(f.pages)
           target == IF op = "pdf-ocr" THEN "txt" ELSE "pdf"
           secret == op \in {"pdf-encrypt", "pdf-decrypt"}
           arguments ==
               [expected |-> count,
                parts |-> IF op \in {"pdf-extract", "pdf-rotate"} THEN r.parts ELSE <<>>,
                angle |-> r.angle, text |-> Trim(r.text),
                inputs |-> IF op = "pdf-merge" THEN MergeInputs(f, r) ELSE <<>>,
                password |-> IF secret THEN "[redacted]" ELSE "none"]
           plan0 == PlanOfStep(lane, target, op, IF op = "pdf-ocr" THEN "lossy" ELSE "none",
                               arguments)
<1> HIDE DEF count
<1>1. q = IF refusal # "accepted" THEN Refused(refusal) ELSE plan0
  BY DEF PlanPdfOperation, count
<1>2. /\ Serves(plan0, lane.adapter, lane.step) /\ plan0.target = target
      /\ plan0.operation = op /\ plan0.arguments = arguments
  BY PlanOfStepForm
<1>3. /\ "password" \in DOMAIN arguments
      /\ arguments.password = "[redacted]" <=> secret
  OBVIOUS
<1>4. refusal # "EngineMissing"
  BY OperationInspectionTells, OperationRefusalTells
<1> HIDE DEF arguments, plan0
<1>5. Given(plan0, r) = IF secret THEN Trim(r.password) ELSE "none"
  <2>1. op # "render"
    BY DEF PdfOperations
  <2> QED BY <1>2, <1>3, <2>1 DEF Given, Redacted, Registered, Serves, IsPlan, None
<1>6. inspection = "accepted" => EngineOpens(f, plan0, Given(plan0, r)) \/ PdfGaps(plan0, f, r)
  <2> SUFFICES ASSUME inspection = "accepted"
               PROVE  EngineOpens(f, plan0, Given(plan0, r)) \/ PdfGaps(plan0, f, r)
    OBVIOUS
  <2>1. CASE op \in {"pdf-merge", "pdf-metadata"}
    BY <1>2, <2>1, WhoOpens DEF PdfGaps
  <2>2. CASE op \notin {"pdf-merge", "pdf-metadata"}
    <3>1. f.lock \in {"none", IF op = "pdf-decrypt" THEN r.password ELSE "none"}
      BY <2>2, OperationInspectionTells DEF Opens
    <3>2. Opens(f, Given(plan0, r)) \/ PdfGaps(plan0, f, r)
      BY <1>2, <1>5, <3>1 DEF Opens, PdfGaps
    <3> QED BY <1>2, <2>2, <3>2, WhoOpens
  <2> QED BY <2>1, <2>2
<1>7. target # "mp4"
  OBVIOUS
<1>8. refusal # "accepted" => Declined(Refused(refusal))
  BY <1>4 DEF Declined
<1>9. refusal = "accepted" => inspection = "accepted"
  OBVIOUS
<1> HIDE DEF refusal, target, inspection
<1> QED BY <1>1, <1>2, <1>6, <1>7, <1>8, <1>9

LEMMA RenderPlan ==
    ASSUME NEW lane, NEW f, NEW r, NEW q, q = PlanPdfRender(lane, f, r),
           Opens(f, IF r.password = "" THEN "none" ELSE r.password)
    PROVE  \/ Declined(q)
           \/ /\ Serves(q, lane.adapter, lane.step) /\ q.target # "mp4"
              /\ EngineOpens(f, q, Given(q, r))
<1> DEFINE target == IF r.target = "jpg" THEN "jpeg" ELSE r.target
           dpi == IF r.dpi = Unset THEN 144 ELSE r.dpi
           quality == IF r.quality = Unset THEN 85 ELSE r.quality
           sizes == [i \in DOMAIN f.pages |-> ExpectedPage(f.pages[i], dpi)]
           b1 == target \notin {"jpeg", "png"}
           b2 == dpi \notin 36..600
           b3 == r.color \notin {"rgb", "gray"}
           b4 == target = "jpeg" /\ quality \notin 1..100
           b5 == target = "png" /\ r.quality # Unset
           b6 == \E i \in DOMAIN f.pages :
                    ~SideFits(f.pages[i].w, dpi) \/ ~SideFits(f.pages[i].h, dpi)
           b7 == \E i \in DOMAIN sizes : sizes[i][1] * sizes[i][2] > MaxPixels
           tests == <<
               <<b1, "Unsupported">>, <<b2, "InputInvalid">>, <<b3, "InputInvalid">>,
               <<b4, "InputInvalid">>, <<b5, "InputInvalid">>, <<b6, "ResourceExhausted">>,
               <<b7, "ResourceExhausted">> >>
           arguments ==
               [pages |-> Len(f.pages), dpi |-> dpi, color |-> r.color, sizes |-> sizes,
                password |-> IF r.password \in {"none", ""} THEN "none" ELSE "[redacted]"]
           plan0 == PlanOfStep(lane, target, "render",
                               IF target = "png" THEN "lossless" ELSE "lossy", arguments)
<1>1. q = IF Refusal(tests) # "accepted" THEN Refused(Refusal(tests)) ELSE plan0
  BY DEF PlanPdfRender
<1> HIDE DEF b1, b2, b3, b4, b5, b6, b7, sizes, dpi, quality, target
<1>2. /\ DOMAIN tests = 1..7 /\ tests[1][1] = b1
      /\ tests[1][2] = "Unsupported" /\ tests[2][2] = "InputInvalid"
      /\ tests[3][2] = "InputInvalid" /\ tests[4][2] = "InputInvalid"
      /\ tests[5][2] = "InputInvalid" /\ tests[6][2] = "ResourceExhausted"
      /\ tests[7][2] = "ResourceExhausted"
  <2>1. DOMAIN tests = 1..7
    BY ONLY TRUE
  <2>2. tests[1][1] = b1
    BY ONLY TRUE
  <2> QED BY ONLY TRUE
<1>3. /\ "password" \in DOMAIN arguments
      /\ arguments.password = "[redacted]" <=> r.password \notin {"none", ""}
  OBVIOUS
<1> HIDE DEF tests, arguments
<1>4. /\ Serves(plan0, lane.adapter, lane.step) /\ plan0.target = target
      /\ plan0.operation = "render" /\ plan0.arguments = arguments
  BY ONLY PlanOfStepForm
<1> HIDE DEF plan0
<1>5. EngineOpens(f, plan0, Given(plan0, r))
  <2>1. Given(plan0, r) = IF r.password \notin {"none", ""} THEN r.password ELSE "none"
    BY <1>3, <1>4 DEF Given, Redacted, Registered, Serves, IsPlan, None
  <2>2. Opens(f, Given(plan0, r))
    BY <2>1 DEF Opens
  <2> QED BY <1>4, <2>2, WhoOpens
<1>6. Refusal(tests) = "accepted" => target # "mp4"
  <2>1. Refusal(tests) = "accepted" => ~b1
    BY ONLY <1>2, RefusalIsATest
  <2> QED BY <2>1 DEF b1
<1>7. Refusal(tests) # "accepted" => Declined(Refused(Refusal(tests)))
  <2>1. Refusal(tests) # "accepted" =>
            Refusal(tests) \in {"Unsupported", "InputInvalid", "ResourceExhausted"}
    BY ONLY <1>2, RefusalIsATest
  <2> QED BY <2>1 DEF Declined
<1> QED BY <1>1, <1>4, <1>5, <1>6, <1>7

LEMMA PdfPlans ==
    ASSUME NEW lane, NEW f, NEW r, NEW op \in PdfOperations \cup {"none"}, NEW q,
           q = PlanPdf(lane, f, r, op)
    PROVE  \/ Declined(q)
           \/ /\ Serves(q, lane.adapter, lane.step) /\ q.target # "mp4"
              /\ EngineOpens(f, q, Given(q, r)) \/ PdfGaps(q, f, r)
              /\ op = "none" /\ lane.adapter = "Pdftotext" => q.target = "md"
<1> DEFINE pw == IF r.password = "" THEN "none" ELSE r.password
           refusal == InspectPdf(f, pw)
<1>1. CASE op # "none"
  <2>1. q = PlanPdfOperation(lane, f, r, op) /\ op \in PdfOperations
    BY <1>1 DEF PlanPdf
  <2> QED BY <1>1, <2>1, OperationPlan
<1>2. CASE op = "none" /\ refusal # "accepted"
  <2>1. q = Refused(refusal)
    BY <1>2 DEF PlanPdf
  <2> QED BY <2>1, InspectPdfTells DEF Declined
<1>3. CASE op = "none" /\ refusal = "accepted" /\ lane.adapter = "Pdftotext"
  <2>1. q = PlanPdfText(lane, f)
    BY <1>3 DEF PlanPdf
  <2>2. /\ Serves(q, lane.adapter, lane.step) /\ q.target = "md" /\ q.operation = "text"
        /\ q.arguments = [pages |-> Len(f.pages), password |-> "none"]
    BY <2>1, PlanOfStepForm DEF PlanPdfText
  <2>3. Given(q, r) = "none"
    BY <2>2 DEF Given, Redacted, None
  <2>4. EngineOpens(f, q, "none") \/ PdfGaps(q, f, r)
    BY <2>2, WhoOpens DEF Opens, PdfGaps, None
  <2> QED BY <2>2, <2>3, <2>4
<1>4. CASE op = "none" /\ refusal = "accepted" /\ lane.adapter # "Pdftotext"
  <2>1. q = PlanPdfRender(lane, f, r)
    BY <1>4 DEF PlanPdf
  <2>2. Opens(f, pw)
    BY <1>4, InspectPdfTells
  <2> QED BY <1>4, <2>1, <2>2, RenderPlan
<1> QED BY <1>1, <1>2, <1>3, <1>4

-----------------------------------------------------------------------------
(* Data.                                                                   *)

LEMMA InspectStructuredTells ==
    ASSUME NEW f
    PROVE  InspectStructured(f) # "EngineMissing"
<1> DEFINE flaw == Body(f).flaw
           a == flaw = "none" \/ (flaw = "duplicate" /\ f.container = "yaml")
           b == flaw \in {"attribute", "dtd"}
<1>1. ASSUME a PROVE FlawRefusal(f) = "accepted"
  <2>1. ~b
    BY <1>1
  <2> QED BY ONLY <1>1, <2>1, Zenon DEF FlawRefusal
<1>2. ASSUME ~a, b PROVE FlawRefusal(f) = "PolicyBlocked"
  BY ONLY <1>2, Zenon DEF FlawRefusal
<1>3. ASSUME ~a, ~b PROVE FlawRefusal(f) = "InputInvalid"
  BY ONLY <1>3, Zenon DEF FlawRefusal
<1>4. FlawRefusal(f) # "EngineMissing"
  BY <1>1, <1>2, <1>3
<1> QED BY <1>4 DEF InspectStructured

LEMMA StructuredPlan ==
    ASSUME NEW lane, NEW f, NEW r, NEW q, q = PlanStructured(lane, f, r)
    PROVE  \/ Declined(q)
           \/ Serves(q, lane.adapter, lane.step) /\ q.target = r.target
<1>1. PICK loss, arguments :
          \/ q = Refused(InspectStructured(f))
          \/ q = Refused("PolicyBlocked")
          \/ q = PlanOfStep(lane, r.target, "serialize", loss, arguments)
  BY DEF PlanStructured
<1> QED BY <1>1, InspectStructuredTells, PlanOfStepForm DEF Declined

LEMMA ArchivePlan ==
    ASSUME NEW lane, NEW f, NEW r, NEW q, q = PlanArchive(lane, f, r)
    PROVE  \/ Declined(q)
           \/ /\ Serves(q, lane.adapter, lane.step) /\ q.target = r.target
              /\ f.container \in ArchiveFormats /\ f.container = f.ext
<1>1. InspectArchive(f) # "EngineMissing"
  BY DEF InspectArchive, ArchiveHint, ArchiveFormats
<1>2. InspectArchive(f) = "accepted" => f.container \in ArchiveFormats /\ f.container = f.ext
  BY DEF InspectArchive, ArchiveHint, ArchiveFormats
<1>3. PICK arguments :
          \/ q = Refused(InspectArchive(f))
          \/ q = Refused("Unsupported")
          \/ /\ q = PlanOfStep(lane, r.target, "repack", "container-only", arguments)
             /\ InspectArchive(f) = "accepted"
  BY DEF PlanArchive
<1> QED BY <1>1, <1>2, <1>3, PlanOfStepForm DEF Declined

\* what a data lane planned its own writer can write, but for the gaps
LEMMA DataPlans ==
    ASSUME NEW lane, lane.adapter \in DataAdapters, NEW f, ArchiveFile(f), NEW r,
           NEW q, q = PlanData(lane, f, r)
    PROVE  \/ Declined(q)
           \/ /\ Serves(q, lane.adapter, lane.step) /\ q.target = r.target
              /\ DataWrites(f, q) \/ DataPlanGaps(f, q)
<1>1. CASE lane.adapter = "Archive"
  <2>1. q = PlanArchive(lane, f, r)
    BY <1>1 DEF PlanData
  <2>2. CASE Declined(q)
    BY <2>2
  <2>3. CASE ~Declined(q)
    <3>1. /\ Serves(q, lane.adapter, lane.step) /\ q.target = r.target
          /\ f.container \in ArchiveFormats /\ f.container = f.ext
      BY <2>1, <2>3, ArchivePlan
    <3>2. q.lane = "Archive"
      BY <1>1, <3>1 DEF Serves
    <3>3. ASSUME NEW i \in DOMAIN Body(f).entries, Body(f).entries[i].kind \notin {"file", "dir"}
          PROVE  DataPlanGaps(f, q)
      <4>1. Body(f).entries[i].kind \in {"link", "locked"}
        <5>1. Body(f).entries \in Seq([name : STRING, kind : EntryKinds, size : Nat, data : STRING])
          BY <3>1 DEF ArchiveFile
        <5> DEFINE es == Body(f).entries
        <5>2. es[i] \in [name : STRING, kind : EntryKinds, size : Nat, data : STRING]
          <6> HIDE DEF es
          <6>1. i \in DOMAIN es
            BY <3>3 DEF es
          <6>2. es \in Seq([name : STRING, kind : EntryKinds, size : Nat, data : STRING])
            BY <5>1 DEF es
          <6> DEFINE E == [name : STRING, kind : EntryKinds, size : Nat, data : STRING]
          <6> HIDE DEF E
          <6>3. es \in Seq(E)
            BY <6>2 DEF E
          <6>4. es[i] \in E
            BY <6>1, <6>3
          <6> QED BY <6>4 DEF E
        <5>3. Body(f).entries[i].kind \in EntryKinds
          BY <5>2
        <5> QED BY <3>3, <5>3 DEF EntryKinds
      <4>2. Body(f).entries[i] \in ToSet(Body(f).entries)
        BY DEF ToSet
      <4> QED BY <3>2, <4>1, <4>2 DEF DataPlanGaps
    <3>4. ASSUME q.target = "zip", NEW i \in DOMAIN Body(f).entries,
                 NEW j \in DOMAIN Body(f).entries, i # j,
                 ListedName("7z", Body(f).entries[i]) = ListedName("7z", Body(f).entries[j])
          PROVE  DataPlanGaps(f, q)
      BY <3>2, <3>4 DEF DataPlanGaps
    <3>5. ~DataPlanGaps(f, q) => ArchiveWrites(f, q)
      BY <3>3, <3>4 DEF ArchiveWrites
    <3> QED BY <3>1, <3>2, <3>5 DEF DataWrites
  <2> QED BY <2>2, <2>3
<1>2. CASE lane.adapter = "Structured"
  <2>1. q = PlanStructured(lane, f, r)
    BY <1>2 DEF PlanData
  <2>2. CASE Declined(q)
    BY <2>2
  <2>3. CASE ~Declined(q)
    <3>1. Serves(q, lane.adapter, lane.step) /\ q.target = r.target
      BY <2>1, <2>3, StructuredPlan
    <3>2. q.lane = "Structured"
      BY <1>2, <3>1 DEF Serves
    <3>3. StructuredWrites(f, q) \/ DataPlanGaps(f, q)
      BY <3>2 DEF StructuredWrites, DataPlanGaps, ValidXmlName
    <3> QED BY <3>1, <3>2, <3>3 DEF DataWrites
  <2> QED BY <2>2, <2>3
<1> QED BY <1>1, <1>2 DEF DataAdapters

-----------------------------------------------------------------------------
(* Mail.                                                                   *)

LEMMA MailPlans ==
    ASSUME NEW lane, NEW f, NEW r, NEW q, q = PlanMail(lane, f, r)
    PROVE  \/ Declined(q)
           \/ Serves(q, lane.adapter, lane.step) /\ q.target = r.target
<1>1. PICK format : q = PlanMails(lane, f, r, format)
  <2>1. CASE lane.adapter = "Eml"
    <3>1. PlanMail(lane, f, r) = PlanEml(lane, f, r)
      BY ONLY <2>1, Zenon DEF PlanMail
    <3> QED BY <3>1 DEF PlanEml
  <2>2. CASE lane.adapter = "Msg"
    <3>1. PlanMail(lane, f, r) = PlanMsg(lane, f, r)
      BY ONLY <2>2, Zenon DEF PlanMail
    <3> QED BY <3>1 DEF PlanMsg
  <2>3. CASE lane.adapter # "Eml" /\ lane.adapter # "Msg"
    <3>1. PlanMail(lane, f, r) = PlanMbox(lane, f, r)
      BY ONLY <2>3, Zenon DEF PlanMail
    <3> QED BY <3>1 DEF PlanMbox
  <2> QED BY <2>1, <2>2, <2>3
<1>2. PICK arguments :
          \/ q = Refused(InspectMail(f, format)) /\ InspectMail(f, format) # "EngineMissing"
          \/ q = Refused("PolicyBlocked")
          \/ q = PlanOfStep(lane, r.target, "mail", "unknown", arguments)
  BY <1>1 DEF PlanMails, InspectMail
<1> QED BY <1>2, PlanOfStepForm DEF Declined

-----------------------------------------------------------------------------
(* Documents.                                                              *)

LEMMA DocumentPlanForm ==
    ASSUME NEW lane, NEW f, NEW r, NEW loss, NEW source
    PROVE  LET q == DocumentPlanOf(lane, f, r, loss, source)
           IN Serves(q, lane.adapter, lane.step) /\ q.target = r.target
BY PlanOfStepForm DEF DocumentPlanOf

LEMMA PandocPlan ==
    ASSUME NEW lane, NEW f, NEW r, NEW q, q = PlanPandoc(lane, f, r)
    PROVE  \/ Declined(q)
           \/ Serves(q, lane.adapter, lane.step) /\ q.target = r.target
<1> DEFINE hint == DocumentHint(f)
           a == InspectDocument(f) # "accepted"
           b == ~ExportsFrom(f, hint, r.target) /\ hint \notin MarkupFormats
           c == hint # "docx" /\ Text(f).external
           tests == << <<a, InspectDocument(f)>>, <<b, "Unsupported">>, <<c, "PolicyBlocked">> >>
<1>1. q = IF Refusal(tests) # "accepted" THEN Refused(Refusal(tests))
          ELSE DocumentPlanOf(lane, f, r, "unknown", hint)
  BY DEF PlanPandoc
<1>2. InspectDocument(f) # "EngineMissing"
  BY DEF InspectDocument
<1> HIDE DEF a, b, c, hint
<1>3. /\ DOMAIN tests = 1..3 /\ tests[1][2] = InspectDocument(f)
      /\ tests[2][2] = "Unsupported" /\ tests[3][2] = "PolicyBlocked"
  OBVIOUS
<1> HIDE DEF tests
<1>4. Refusal(tests) \in {"accepted", "Unsupported", "PolicyBlocked", InspectDocument(f)}
  BY ONLY <1>3, RefusalIsATest
<1> QED BY <1>1, <1>2, <1>4, DocumentPlanForm DEF Declined

LEMMA PrintPlan ==
    ASSUME NEW lane, NEW f, NEW r, NEW sources, NEW loss, NEW q,
           q = PlanPrintOf(lane, f, r, sources, loss)
    PROVE  \/ Declined(q)
           \/ Serves(q, lane.adapter, lane.step) /\ q.target = r.target
<1> DEFINE a == InspectDocument(f) # "accepted"
           b == DocumentHint(f) \notin sources
           c == Text(f).external
           tests == << <<a, InspectDocument(f)>>, <<b, "Unsupported">>, <<c, "PolicyBlocked">> >>
<1>1. q = IF Refusal(tests) # "accepted" THEN Refused(Refusal(tests))
          ELSE DocumentPlanOf(lane, f, r, loss, DocumentHint(f))
  BY DEF PlanPrintOf
<1>2. InspectDocument(f) # "EngineMissing"
  BY DEF InspectDocument
<1> HIDE DEF a, b, c
<1>3. /\ DOMAIN tests = 1..3 /\ tests[1][2] = InspectDocument(f)
      /\ tests[2][2] = "Unsupported" /\ tests[3][2] = "PolicyBlocked"
  OBVIOUS
<1> HIDE DEF tests
<1>4. Refusal(tests) \in {"accepted", "Unsupported", "PolicyBlocked", InspectDocument(f)}
  BY ONLY <1>3, RefusalIsATest
<1> QED BY <1>1, <1>2, <1>4, DocumentPlanForm DEF Declined

LEMMA OfficePlan ==
    ASSUME NEW lane, NEW f, NEW r, NEW loss, NEW q, q = PlanOfficeOf(lane, f, r, loss)
    PROVE  \/ Declined(q)
           \/ Serves(q, lane.adapter, lane.step) /\ q.target = r.target
<1>1. InspectOffice(f) # "EngineMissing"
  BY DEF InspectOffice, PackageRefusal
<1> QED BY <1>1, DocumentPlanForm DEF PlanOfficeOf, Declined

LEMMA PicturePlan ==
    ASSUME NEW lane, NEW f, NEW r, NEW q,
           q = PlanImagePdf(lane, f, r) \/ q = PlanImageOcr(lane, f, r)
    PROVE  \/ Declined(q)
           \/ Serves(q, lane.adapter, lane.step) /\ q.target = r.target
<1>1. CASE q = PlanImagePdf(lane, f, r)
  BY <1>1, DocumentPlanForm DEF PlanImagePdf, Declined
<1>2. CASE q = PlanImageOcr(lane, f, r)
  <2> DEFINE p == InspectMedia(f)
             a == p.format \notin Pictures
             b == r.language = "e-n"
             tests == << <<a, "Unsupported">>, <<b, "InputInvalid">> >>
  <2>1. q = IF Refusal(tests) # "accepted" THEN Refused(Refusal(tests))
            ELSE DocumentPlanOf(lane, f, r, "lossy", p.format)
    BY <1>2 DEF PlanImageOcr
  <2> HIDE DEF a, b, p
  <2>2. DOMAIN tests = 1..2 /\ tests[1][2] = "Unsupported" /\ tests[2][2] = "InputInvalid"
    OBVIOUS
  <2> HIDE DEF tests
  <2>3. Refusal(tests) \in {"accepted", "Unsupported", "InputInvalid"}
    BY ONLY <2>2, RefusalIsATest
  <2> QED BY <2>1, <2>3, DocumentPlanForm DEF Declined
<1> QED BY <1>1, <1>2

LEMMA DocumentPlans ==
    ASSUME NEW lane, NEW f, NEW r, NEW q, q = PlanDocument(lane, f, r)
    PROVE  \/ Declined(q)
           \/ Serves(q, lane.adapter, lane.step) /\ q.target = r.target
<1> DEFINE a == lane.adapter
<1>1. CASE a = "Pandoc"
  <2>1. q = PlanPandoc(lane, f, r)
    BY ONLY q = PlanDocument(lane, f, r), <1>1, Zenon DEF PlanDocument
  <2> QED BY <2>1, PandocPlan
<1>2. CASE a = "MarkupPdf"
  <2>1. q = PlanMarkupPdf(lane, f, r)
    BY ONLY q = PlanDocument(lane, f, r), <1>2, Zenon DEF PlanDocument
  <2> QED BY <2>1, PrintPlan DEF PlanMarkupPdf
<1>3. CASE a = "EdgePrint"
  <2>1. q = PlanEdgePrint(lane, f, r)
    BY ONLY q = PlanDocument(lane, f, r), <1>3, Zenon DEF PlanDocument
  <2> QED BY <2>1, PrintPlan DEF PlanEdgePrint
<1>4. CASE a = "OfficeCsv"
  <2>1. q = PlanOfficeCsv(lane, f, r)
    BY ONLY q = PlanDocument(lane, f, r), <1>4, Zenon DEF PlanDocument
  <2> QED BY <2>1, OfficePlan DEF PlanOfficeCsv
<1>5. CASE a = "OfficeExchange"
  <2>1. q = PlanOfficeExchange(lane, f, r)
    BY ONLY q = PlanDocument(lane, f, r), <1>5, Zenon DEF PlanDocument
  <2> QED BY <2>1, OfficePlan DEF PlanOfficeExchange
<1>6. CASE a = "OfficePdf"
  <2>1. q = IF f.container \in OfficeFiles THEN PlanOfficePdf(lane, f, r)
            ELSE PlanImagePdf(lane, f, r)
    BY ONLY q = PlanDocument(lane, f, r), <1>6, Zenon DEF PlanDocument
  <2>2. CASE q = PlanOfficePdf(lane, f, r)
    BY <2>2, OfficePlan DEF PlanOfficePdf
  <2> QED BY <2>1, <2>2, PicturePlan
<1>7. CASE a \notin {"Pandoc", "MarkupPdf", "EdgePrint", "OfficeCsv", "OfficeExchange", "OfficePdf"}
  <2>1. q = PlanImageOcr(lane, f, r)
    <3>1. /\ lane.adapter # "Pandoc" /\ lane.adapter # "MarkupPdf" /\ lane.adapter # "EdgePrint"
          /\ lane.adapter # "OfficeCsv" /\ lane.adapter # "OfficeExchange"
          /\ lane.adapter # "OfficePdf"
      BY <1>7
    <3> QED BY ONLY q = PlanDocument(lane, f, r), <3>1, Zenon DEF PlanDocument
  <2> QED BY <2>1, PicturePlan
<1> QED BY <1>1, <1>2, <1>3, <1>4, <1>5, <1>6, <1>7

-----------------------------------------------------------------------------
(* Every plan of a request.                                                 *)

Op == IF asked.op \in PdfOperations THEN asked.op ELSE None

\* the engine of a plan comes to the adapter that the plan was made for
Dispatched(q) == AdapterFor(q.engine, q.target, Op) = q.lane

\* What the runner tests of a plan and the engine needs, it has, or it is one of the gaps.
Runnable(q) ==
    /\ q.lane \in MediaAdapters => RunnerAccepts(q) \/ MediaGaps(q, Request)
    /\ q.lane \in PdfAdapters =>
          EngineOpens(asked.file, q, Given(q, Request)) \/ PdfGaps(q, asked.file, Request)
    /\ q.lane \in DataAdapters => DataWrites(asked.file, q) \/ DataPlanGaps(asked.file, q)

Sound(q) ==
    /\ Dispatched(q) /\ Runnable(q)
    /\ HasSizeTarget(q) => q.arguments.crf = Request.crf

\* only these steps come to one adapter or another with the target
LEMMA StepsOfOneAdapter ==
    ASSUME NEW step \in {"ffmpeg", "heif-dec", "magick", "pdftoppm"}, NEW s, NEW t
    PROVE  AdapterFor(step, s, "none") = AdapterFor(step, t, "none")
BY DEF AdapterFor

LEMMA LaneOfMovie ==
    ASSUME NEW ext, NEW content, NEW h, ext \notin {"mbox", "msg", "eml"}
    PROVE  LaneOf(ext, content, "mp4", h).adapter \in MediaAdapters \cup PdfAdapters
BY DEF LaneOf, Lane, MediaLane, MediaAdapters, PdfAdapters, RasterInputs

LEMMA MovieIsOffered ==
    ASSUME NEW ext \in DOMAIN SupportedTargets, "mp4" \in SupportedTargets[ext]
    PROVE  ext = "video"
BY InputClasses, TargetsOf

LEMMA AdaptersApart ==
    /\ \A a \in MediaAdapters : a \notin PdfAdapters \cup DataAdapters \cup MailAdapters
    /\ \A a \in PdfAdapters : a \notin DataAdapters \cup MailAdapters
    /\ \A a \in DataAdapters : a \notin MailAdapters
    /\ \A a \in DocumentAdapters :
          a \notin MediaAdapters \cup PdfAdapters \cup DataAdapters \cup MailAdapters
BY DEF MediaAdapters, PdfAdapters, DataAdapters, MailAdapters, DocumentAdapters, OfficeAdapters

\* The choice of the planner, for the prover that knows CASE.
LEMMA PlannerOf ==
    ASSUME NEW lane
    PROVE  LET p == Probe(lane.adapter)
               a == lane.adapter
               q == PlanOfLane(lane)
           IN /\ a = "Magick" => q = PlanMagick(p, Request)
              /\ a = "Heif" => q = IF Readable(asked.file) THEN PlanHeic(p, Request)
                                   ELSE Refused("InputInvalid")
              /\ a = "Ffmpeg" => q = IF Readable(asked.file) THEN PlanMedia(p, Request)
                                     ELSE Refused("InputInvalid")
              /\ a \in PdfAdapters => q = PlanPdf(lane, asked.file, Request, asked.op)
              /\ a \in DataAdapters => q = PlanData(lane, asked.file, Request)
              /\ a \in MailAdapters => q = PlanMail(lane, asked.file, Request)
              /\ a \notin MediaAdapters \cup PdfAdapters \cup DataAdapters \cup MailAdapters =>
                    q = PlanDocument(lane, asked.file, Request)
<1> DEFINE a == lane.adapter
           p == Probe(a)
           q == PlanOfLane(lane)
<1>1. ASSUME a = "Magick" PROVE q = PlanMagick(p, Request)
  <2>1. a # "Heif" /\ a # "Ffmpeg" /\ a \notin {"Ffmpeg", "Heif"} /\ a \notin PdfAdapters
        /\ a \notin DataAdapters /\ a \notin MailAdapters
    BY <1>1, AdaptersApart DEF MediaAdapters
  <2> QED BY ONLY <1>1, <2>1, Zenon DEF PlanOfLane
<1>2. ASSUME a = "Heif", Readable(asked.file) PROVE q = PlanHeic(p, Request)
  <2>1. a # "Magick" /\ a # "Ffmpeg" /\ a \notin PdfAdapters
        /\ a \notin DataAdapters /\ a \notin MailAdapters
    BY <1>2, AdaptersApart DEF MediaAdapters
  <2> QED BY ONLY <1>2, <2>1, Zenon DEF PlanOfLane
<1>3. ASSUME a = "Ffmpeg", Readable(asked.file) PROVE q = PlanMedia(p, Request)
  <2>1. a # "Magick" /\ a # "Heif" /\ a \notin PdfAdapters
        /\ a \notin DataAdapters /\ a \notin MailAdapters
    BY <1>3, AdaptersApart DEF MediaAdapters
  <2> QED BY ONLY <1>3, <2>1, Zenon DEF PlanOfLane
<1>4. ASSUME a \in {"Ffmpeg", "Heif"}, ~Readable(asked.file) PROVE q = Refused("InputInvalid")
  <2>1. a # "Magick" /\ a \notin PdfAdapters /\ a \notin DataAdapters /\ a \notin MailAdapters
    BY <1>4, AdaptersApart DEF MediaAdapters
  <2> QED BY ONLY <1>4, <2>1, Zenon DEF PlanOfLane
<1>5. ASSUME a \in PdfAdapters PROVE q = PlanPdf(lane, asked.file, Request, asked.op)
  <2>1. a # "Magick" /\ a # "Heif" /\ a # "Ffmpeg" /\ a \notin {"Ffmpeg", "Heif"}
        /\ a \notin DataAdapters /\ a \notin MailAdapters
    BY <1>5, AdaptersApart DEF MediaAdapters
  <2> QED BY ONLY <1>5, <2>1, Zenon DEF PlanOfLane
<1>6. ASSUME a \in DataAdapters PROVE q = PlanData(lane, asked.file, Request)
  <2>1. a # "Magick" /\ a # "Heif" /\ a # "Ffmpeg" /\ a \notin {"Ffmpeg", "Heif"}
        /\ a \notin PdfAdapters /\ a \notin MailAdapters
    BY <1>6, AdaptersApart DEF MediaAdapters
  <2> QED BY ONLY <1>6, <2>1, Zenon DEF PlanOfLane
<1>7. ASSUME a \in MailAdapters PROVE q = PlanMail(lane, asked.file, Request)
  <2>1. a # "Magick" /\ a # "Heif" /\ a # "Ffmpeg" /\ a \notin {"Ffmpeg", "Heif"}
        /\ a \notin PdfAdapters /\ a \notin DataAdapters
    BY <1>7, AdaptersApart DEF MediaAdapters
  <2> QED BY ONLY <1>7, <2>1, Zenon DEF PlanOfLane
<1>8. ASSUME a \notin MediaAdapters \cup PdfAdapters \cup DataAdapters \cup MailAdapters
      PROVE  q = PlanDocument(lane, asked.file, Request)
  <2>1. a # "Magick" /\ a # "Heif" /\ a # "Ffmpeg" /\ a \notin {"Ffmpeg", "Heif"}
        /\ a \notin PdfAdapters /\ a \notin DataAdapters /\ a \notin MailAdapters
    BY <1>8 DEF MediaAdapters
  <2> QED BY ONLY <2>1, Zenon DEF PlanOfLane
<1> QED BY <1>1, <1>2, <1>3, <1>4, <1>5, <1>6, <1>7, <1>8

\* a plan that was made of a lane for one of the operations
LEMMA OperationIsSound ==
    ASSUME CaseAssumption(asked), asked.op \in PdfOperations, NEW q,
           q = PlanOfLane(OperationLane(asked.op))
    PROVE  Declined(q) \/ (IsPlan(q) /\ Sound(q))
<1> DEFINE lane == OperationLane(asked.op)
<1>1. /\ lane.adapter \in PdfAdapters
      /\ AdapterFor(lane.step, q.target, asked.op) = lane.adapter
  BY DEF OperationLane, Lane, AdapterFor, PdfAdapters, PdfOperations
<1>2. q = PlanPdf(lane, asked.file, Request, asked.op)
  BY <1>1, PlannerOf
<1>3. ASSUME ~Declined(q) PROVE IsPlan(q) /\ Sound(q)
  <2>1. /\ Serves(q, lane.adapter, lane.step) /\ q.target # "mp4"
        /\ EngineOpens(asked.file, q, Given(q, Request)) \/ PdfGaps(q, asked.file, Request)
    BY <1>2, <1>3, PdfPlans
  <2>2. IsPlan(q) /\ q.lane = lane.adapter /\ q.engine = lane.step
    BY <2>1 DEF Serves
  <2>3. Dispatched(q)
    <3>1. AdapterFor(q.engine, q.target, asked.op) = q.lane
      BY <1>1, <2>2
    <3> QED BY <3>1 DEF Dispatched, Op
  <2>4. Runnable(q)
    BY <1>1, <2>1, <2>2, AdaptersApart DEF Runnable
  <2>5. ~HasSizeTarget(q)
    BY <2>1 DEF HasSizeTarget
  <2> QED BY <2>2, <2>3, <2>4, <2>5 DEF Sound
<1> QED BY <1>3

\* a plan that was made of a lane for a target that is offered
LEMMA RouteIsSound ==
    ASSUME CaseAssumption(asked), asked.op = "none", NEW h,
           EnsureRouteAvailable(Extension, Request.target, h) = "available",
           NEW lane, lane = LaneOf(Extension, Content, Request.target, h),
           NEW q, q = PlanOfLane(lane)
    PROVE  Declined(q) \/ (IsPlan(q) /\ Sound(q))
<1> DEFINE t == Request.target
           p == Probe(lane.adapter)
<1>1. /\ AdapterFor(lane.step, t, "none") = lane.adapter
      /\ lane.adapter = "Pdftotext" => t = "md"
      /\ lane.adapter = "PdfRender" => lane.step = "pdftoppm"
      /\ lane.adapter = "Heif" => lane.step = "heif-dec"
      /\ lane.adapter = "Magick" => lane.step = "magick"
      /\ lane.adapter = "Ffmpeg" => lane.step = "ffmpeg"
  BY LaneIsServed
<1>2. Op = "none"
  BY DEF Op, PdfOperations, None
<1>3. t = "mp4" => lane.adapter \in MediaAdapters \cup PdfAdapters
  <2>1. ASSUME t = "mp4" PROVE Extension = "video"
    <3>1. "mp4" \in SupportedTargets[Extension]
      BY <2>1 DEF EnsureRouteAvailable
    <3>2. Extension \in DOMAIN SupportedTargets
      BY DEF CaseAssumption, Extension
    <3> QED BY <3>1, <3>2, MovieIsOffered
  <2> QED BY <2>1, LaneOfMovie
<1>4. ASSUME Serves(q, lane.adapter, lane.step),
             q.target = t \/ lane.step \in {"ffmpeg", "heif-dec", "magick", "pdftoppm"}
      PROVE  IsPlan(q) /\ Dispatched(q) /\ q.lane = lane.adapter
  <2>1. IsPlan(q) /\ q.lane = lane.adapter /\ q.engine = lane.step
    BY <1>4 DEF Serves
  <2>2. AdapterFor(q.engine, q.target, "none") = AdapterFor(lane.step, t, "none")
    BY <1>4, <2>1, StepsOfOneAdapter
  <2> QED BY <1>1, <1>2, <2>1, <2>2 DEF Dispatched
<1>5. Request.quality \in Int /\ ArchiveFile(asked.file)
  BY DEF CaseAssumption, KnownFile, Request
<1>6. CASE lane.adapter = "Magick"
  <2>1. q = PlanMagick(p, Request)
    BY <1>6, PlannerOf
  <2>2. CASE Serves(q, "Magick", "magick") /\ q.target # "mp4" /\ RunnerAccepts(q)
    <3>1. IsPlan(q) /\ Dispatched(q) /\ q.lane = "Magick"
      BY <1>1, <1>4, <1>6, <2>2
    <3> QED BY <2>2, <3>1, AdaptersApart DEF Sound, Runnable, HasSizeTarget, MediaAdapters
  <2> QED BY <2>1, <2>2, MagickPlan
<1>7. CASE lane.adapter = "Heif"
  <2>1. q = IF Readable(asked.file) THEN PlanHeic(p, Request) ELSE Refused("InputInvalid")
    BY <1>7, PlannerOf
  <2>2. CASE Serves(q, "Heif", "heif-dec") /\ q.target # "mp4" /\ RunnerAccepts(q)
    <3>1. IsPlan(q) /\ Dispatched(q) /\ q.lane = "Heif"
      BY <1>1, <1>4, <1>7, <2>2
    <3> QED BY <2>2, <3>1, AdaptersApart DEF Sound, Runnable, HasSizeTarget, MediaAdapters
  <2>3. CASE Readable(asked.file)
    BY <2>1, <2>2, <2>3, HeicPlan
  <2>4. CASE ~Readable(asked.file)
    BY <2>1, <2>4 DEF Declined
  <2> QED BY <2>3, <2>4
<1>8. CASE lane.adapter = "Ffmpeg"
  <2>1. q = IF Readable(asked.file) THEN PlanMedia(p, Request) ELSE Refused("InputInvalid")
    BY <1>8, PlannerOf
  <2>2. CASE /\ Serves(q, "Ffmpeg", "ffmpeg")
             /\ RunnerAccepts(q) \/ MediaGaps(q, Request)
             /\ q.target = "mp4" => q.arguments.crf = Request.crf
    <3>1. IsPlan(q) /\ Dispatched(q) /\ q.lane = "Ffmpeg"
      BY <1>1, <1>4, <1>8, <2>2
    <3> QED BY <2>2, <3>1, AdaptersApart DEF Sound, Runnable, HasSizeTarget, MediaAdapters
  <2>3. CASE Readable(asked.file)
    BY <1>5, <2>1, <2>2, <2>3, MediaPlans
  <2>4. CASE ~Readable(asked.file)
    BY <2>1, <2>4 DEF Declined
  <2> QED BY <2>3, <2>4
<1>9. CASE lane.adapter \in PdfAdapters
  <2>1. q = PlanPdf(lane, asked.file, Request, "none")
    BY <1>9, PlannerOf
  <2>2. lane.adapter \in {"Pdftotext", "PdfRender"}
    BY <1>1, <1>9 DEF PdfAdapters, AdapterFor
  <2>3. ASSUME ~Declined(q) PROVE IsPlan(q) /\ Sound(q)
    <3>1. /\ Serves(q, lane.adapter, lane.step) /\ q.target # "mp4"
          /\ EngineOpens(asked.file, q, Given(q, Request)) \/ PdfGaps(q, asked.file, Request)
          /\ lane.adapter = "Pdftotext" => q.target = "md"
      BY <2>1, <2>3, PdfPlans
    <3>2. IsPlan(q) /\ Dispatched(q) /\ q.lane = lane.adapter
      BY <1>1, <1>4, <2>2, <3>1
    <3>3. Runnable(q)
      BY <1>9, <3>1, <3>2, AdaptersApart DEF Runnable
    <3> QED BY <3>1, <3>2, <3>3 DEF Sound, HasSizeTarget
  <2> QED BY <2>3
<1>10. CASE lane.adapter \in DataAdapters
  <2>1. q = PlanData(lane, asked.file, Request)
    BY <1>10, PlannerOf
  <2>2. ASSUME ~Declined(q) PROVE IsPlan(q) /\ Sound(q)
    <3>1. /\ Serves(q, lane.adapter, lane.step) /\ q.target = t
          /\ DataWrites(asked.file, q) \/ DataPlanGaps(asked.file, q)
      BY <1>5, <1>10, <2>1, <2>2, DataPlans
    <3>2. IsPlan(q) /\ Dispatched(q) /\ q.lane = lane.adapter
      BY <1>4, <3>1
    <3>3. Runnable(q)
      BY <1>10, <3>1, <3>2, AdaptersApart DEF Runnable
    <3>4. q.target # "mp4"
      BY <1>3, <1>10, <3>1, AdaptersApart
    <3> QED BY <3>2, <3>3, <3>4 DEF Sound, HasSizeTarget
  <2> QED BY <2>2
<1>11. CASE lane.adapter \notin MediaAdapters \cup PdfAdapters \cup DataAdapters
  <2>1. \/ q = PlanMail(lane, asked.file, Request)
        \/ q = PlanDocument(lane, asked.file, Request)
    BY <1>11, PlannerOf
  <2>2. ASSUME ~Declined(q) PROVE IsPlan(q) /\ Sound(q)
    <3>1. Serves(q, lane.adapter, lane.step) /\ q.target = t
      BY <2>1, <2>2, MailPlans, DocumentPlans
    <3>2. IsPlan(q) /\ Dispatched(q) /\ q.lane = lane.adapter
      BY <1>4, <3>1
    <3>3. Runnable(q)
      BY <1>11, <3>2 DEF Runnable
    <3>4. q.target # "mp4"
      BY <1>3, <1>11, <3>1
    <3> QED BY <3>2, <3>3, <3>4 DEF Sound, HasSizeTarget
  <2> QED BY <2>2
<1> QED BY <1>6, <1>7, <1>8, <1>9, <1>10, <1>11 DEF MediaAdapters

\* a plan to clean the metadata of a file
LEMMA CleaningIsSound ==
    ASSUME asked.op = "metadata-clean", NEW p, NEW q, q = PlanMetadataClean(p, Request)
    PROVE  Declined(q) \/ (IsPlan(q) /\ Sound(q))
<1>1. ASSUME Serves(q, "Ffmpeg", "ffmpeg"), q.operation = "metadata-clean", RunnerAccepts(q)
      PROVE  IsPlan(q) /\ Sound(q)
  <2>1. IsPlan(q) /\ q.lane = "Ffmpeg" /\ q.engine = "ffmpeg"
    BY <1>1 DEF Serves
  <2>2. Dispatched(q)
    BY <2>1 DEF Dispatched, Op, PdfOperations, None, AdapterFor
  <2> QED BY <1>1, <2>1, <2>2, AdaptersApart DEF Sound, Runnable, HasSizeTarget, MediaAdapters
<1> QED BY <1>1, CleanedPlan

\* What is planned is sound, and what is refused for an engine was not offered.
LEMMA PlanNowIsSound ==
    ASSUME CaseAssumption(asked)
    PROVE  /\ \/ PlanNow.ok = FALSE /\ {"ok", "code"} \subseteq DOMAIN PlanNow
              \/ IsPlan(PlanNow) /\ Sound(PlanNow)
           /\ ~PlanNow.ok /\ PlanNow.code = "EngineMissing" /\ asked.op = None =>
                 \/ EnsureRouteAvailable(Extension, Request.target, have) # "available"
                 \/ OfferGaps
<1> DEFINE refusal == RouteRefusal(Extension, Content, Request.target, asked.op, have)
           engines == IF {"ffprobe", "ffmpeg"} \subseteq have THEN "accepted" ELSE "EngineMissing"
<1>1. ASSUME NEW c
      PROVE  Refused(c).ok = FALSE /\ Refused(c).code = c /\ DOMAIN Refused(c) = {"ok", "code"}
  BY DEF Refused
<1>2. ASSUME Declined(PlanNow)
      PROVE  /\ PlanNow.ok = FALSE /\ {"ok", "code"} \subseteq DOMAIN PlanNow
             /\ PlanNow.code # "EngineMissing"
  BY <1>1, <1>2 DEF Declined
<1>3. ASSUME IsPlan(PlanNow) PROVE PlanNow.ok = TRUE
  BY <1>3 DEF IsPlan
<1>4. CASE asked.op = "metadata-clean"
  <2>1. asked.op # None
    BY <1>4 DEF None
  <2>2. CASE engines # "accepted"
    <3>1. PlanNow = Refused(engines)
      BY <1>4, <2>2 DEF PlanNow
    <3> QED BY <1>1, <2>1, <3>1
  <2>3. CASE engines = "accepted"
    <3>1. PlanNow = IF ~Readable(asked.file) THEN Refused("InputInvalid")
                    ELSE PlanMetadataClean(Probe("Ffmpeg"), Request)
      BY <1>4, <2>3 DEF PlanNow
    <3>2. CASE ~Readable(asked.file)
      BY <1>1, <2>1, <3>1, <3>2
    <3>3. CASE Readable(asked.file)
      <4>1. Declined(PlanNow) \/ (IsPlan(PlanNow) /\ Sound(PlanNow))
        BY <1>4, <3>1, <3>3, CleaningIsSound
      <4> QED BY <1>2, <2>1, <4>1
    <3> QED BY <3>2, <3>3
  <2> QED BY <2>2, <2>3
<1>5. CASE asked.op # "metadata-clean" /\ refusal # "accepted"
  <2>1. PlanNow = Refused(refusal)
    BY <1>5 DEF PlanNow
  <2>2. ASSUME refusal = "EngineMissing", asked.op = None,
               EnsureRouteAvailable(Extension, Request.target, have) = "available", ~OfferGaps
        PROVE  FALSE
    <3>1. Extension = Content /\ Extension \in DOMAIN SupportedTargets
      BY <2>2 DEF OfferGaps, CaseAssumption, Extension
    <3>2. LaneOf(Extension, Extension, Request.target, have).engines \subseteq have
      BY <2>2, <3>1, OfferedLane DEF OfferGaps
    <3> QED BY <2>2, <3>1, <3>2 DEF RouteRefusal, None
  <2> QED BY <1>1, <2>1, <2>2
<1>6. CASE asked.op # "metadata-clean" /\ refusal = "accepted"
  <2>1. PlanNow = PlanOfLane(LaneNow)
    BY <1>6 DEF PlanNow
  <2>2. Declined(PlanNow) \/ (IsPlan(PlanNow) /\ Sound(PlanNow))
    <3>1. CASE asked.op = "none"
      <4>1. EnsureRouteAvailable(Extension, Request.target, have) = "available"
        <5>1. EnsureRouteAvailable(Extension, Request.target, have) # "accepted"
          BY DEF EnsureRouteAvailable
        <5> QED BY <1>6, <3>1, <5>1 DEF RouteRefusal
      <4>2. LaneNow = LaneOf(Extension, Content, Request.target, have)
        BY <3>1 DEF LaneNow, Prepare
      <4> QED BY <2>1, <3>1, <4>1, <4>2, RouteIsSound
    <3>2. CASE asked.op \in PdfOperations
      <4>1. asked.op # "none"
        BY <3>2 DEF PdfOperations
      <4>2. LaneNow = OperationLane(asked.op)
        BY <4>1 DEF LaneNow, Prepare
      <4> QED BY <2>1, <3>2, <4>2, OperationIsSound
    <3> QED BY <1>6, <3>1, <3>2 DEF CaseAssumption
  <2> QED BY <1>2, <1>3, <2>2
<1> QED BY <1>4, <1>5, <1>6

-----------------------------------------------------------------------------
(* The ladder of a size target.                                             *)

\* the highest factor that a ladder may reach
Highest(start) == IF start + 18 > 51 THEN 51 ELSE start + 18

LEMMA LadderEnds ==
    ASSUME NEW start \in Int
    PROVE  /\ Len(CrfLadder(start)) \in 1..4
           /\ CrfLadder(start)[Len(CrfLadder(start))] = Highest(start)
<1> DEFINE factor(i) == IF start + 6 * (i - 1) > 51 THEN 51 ELSE start + 6 * (i - 1)
           stops == {i \in 1..4 : i = 4 \/ factor(i) = 51}
           last == Min(stops)
<1>1. CrfLadder(start) = [i \in 1..last |-> factor(i)]
  BY DEF CrfLadder
<1>2. 4 \in stops /\ stops \subseteq Nat
  OBVIOUS
<1>3. last \in stops
  BY <1>2, MinIsLeast
<1>4. last \in 1..4 /\ (last = 4 \/ factor(last) = 51)
  BY <1>3
<1> HIDE DEF last, stops
<1>5. Len(CrfLadder(start)) = last
  BY <1>1, <1>4
<1>6. CrfLadder(start)[last] = factor(last)
  BY <1>1, <1>4
<1>7. factor(last) = Highest(start)
  BY <1>4 DEF Highest
<1> QED BY <1>4, <1>5, <1>6, <1>7

\* the ladder of a plan, and its last rung
LEMMA LadderOfPlan ==
    ASSUME CaseAssumption(asked), plan.ok => Sound(plan), plan.ok
    PROVE  /\ Len(Ladder(plan)) \in Nat /\ Len(Ladder(plan)) >= 1
           /\ HasSizeTarget(plan) =>
                 Ladder(plan)[Len(Ladder(plan))] = Highest(Default(plan.arguments.crf, 20))
<1>1. CASE HasSizeTarget(plan)
  <2>0. PICK start : start = Default(plan.arguments.crf, 20)
    OBVIOUS
  <2>1. plan.arguments.crf \in Int
    BY <1>1 DEF Sound, CaseAssumption, Request
  <2>2. start \in Int
    BY <2>0, <2>1 DEF Default
  <2>3. Ladder(plan) = CrfLadder(start)
    BY <1>1, <2>0 DEF Ladder
  <2>4. /\ Len(CrfLadder(start)) \in 1..4
        /\ CrfLadder(start)[Len(CrfLadder(start))] = Highest(start)
    BY ONLY <2>2, LadderEnds
  <2>5. Len(Ladder(plan)) \in 1..4
    BY ONLY <2>3, <2>4
  <2>6. Ladder(plan)[Len(Ladder(plan))] = Highest(start)
    BY ONLY <2>3, <2>4
  <2>7. Ladder(plan)[Len(Ladder(plan))] = Highest(Default(plan.arguments.crf, 20))
    BY ONLY <2>0, <2>6
  <2>8. Len(Ladder(plan)) \in Nat /\ Len(Ladder(plan)) >= 1
    BY ONLY <2>5
  <2> QED BY ONLY <2>7, <2>8
<1>2. CASE ~HasSizeTarget(plan)
  <2>1. Ladder(plan) = <<Unset>>
    BY <1>2 DEF Ladder
  <2> QED BY <1>2, <2>1
<1> QED BY <1>1, <1>2

-----------------------------------------------------------------------------
(* A preparation's plan has the fields of the planner's.                    *)

LEMMA PreparedFields ==
    \A x \in DOMAIN PlanNow \ {"input", "more", "version"} : Prepared[x] = PlanNow[x]
BY DEF Prepared, Stamps

LEMMA SoundByFields ==
    ASSUME NEW p, NEW q, p.ok = q.ok, p.lane = q.lane, p.engine = q.engine, p.target = q.target,
           p.operation = q.operation, p.arguments = q.arguments, Sound(q)
    PROVE  Sound(p)
<1>1. Dispatched(p)
  BY DEF Sound, Dispatched
<1>2. HasSizeTarget(p) <=> HasSizeTarget(q)
  BY DEF HasSizeTarget
<1>3. RunnerAccepts(p) = RunnerAccepts(q) /\ MediaGaps(p, Request) = MediaGaps(q, Request)
  BY DEF RunnerAccepts, MediaGaps
<1>4. Given(p, Request) = Given(q, Request)
  BY DEF Given, Redacted, Registered
<1>5. EngineOpens(asked.file, p, Given(p, Request)) = EngineOpens(asked.file, q, Given(q, Request))
  BY <1>4, WhoOpens
<1>6. PdfGaps(p, asked.file, Request) = PdfGaps(q, asked.file, Request)
  BY DEF PdfGaps
<1>7. /\ DataWrites(asked.file, p) = DataWrites(asked.file, q)
      /\ DataPlanGaps(asked.file, p) = DataPlanGaps(asked.file, q)
  BY DEF DataWrites, ArchiveWrites, StructuredWrites, DataPlanGaps
<1>8. Runnable(p)
  BY <1>3, <1>5, <1>6, <1>7 DEF Sound, Runnable
<1> QED BY <1>1, <1>2, <1>8 DEF Sound

LEMMA PreparedIsSound ==
    ASSUME CaseAssumption(asked)
    PROVE  /\ Prepared.ok => Sound(Prepared)
           /\ ~Prepared.ok /\ Prepared.code = "EngineMissing" /\ asked.op = None =>
                 \/ EnsureRouteAvailable(Extension, Request.target, have) # "available"
                 \/ OfferGaps
           /\ Prepared.ok \in BOOLEAN
<1>1. CASE IsPlan(PlanNow) /\ Sound(PlanNow)
  <2>1. PlanNow.ok = TRUE /\ {"ok", "lane", "engine", "target", "operation", "arguments"}
                                \subseteq DOMAIN PlanNow \ {"input", "more", "version"}
    BY <1>1 DEF IsPlan
  <2>2. /\ Prepared.ok = PlanNow.ok /\ Prepared.lane = PlanNow.lane
        /\ Prepared.engine = PlanNow.engine /\ Prepared.target = PlanNow.target
        /\ Prepared.operation = PlanNow.operation /\ Prepared.arguments = PlanNow.arguments
    BY <2>1, PreparedFields
  <2> QED BY <1>1, <2>1, <2>2, SoundByFields
<1>2. CASE PlanNow.ok = FALSE /\ {"ok", "code"} \subseteq DOMAIN PlanNow
  <2>1. Prepared.code = PlanNow.code /\ Prepared.ok = FALSE
    BY <1>2, PreparedFields
  <2> QED BY <1>2, <2>1, PlanNowIsSound
<1> QED BY <1>1, <1>2, PlanNowIsSound

-----------------------------------------------------------------------------
(* The invariant of approval.                                              *)

\* the stages behind the approval of a plan
Approved == {"ready", "running", "made", "committed", "failed"}

\* Revisions only grow, and a plan was made of the input of its time; of what else it was made is
\* still there unless it was changed later.
StampsOrdered ==
    /\ input \in Nat /\ id \in Nat
    /\ DOMAIN read = {"input", "more", "version"} /\ read.input \in Nat /\ read.input <= input
    /\ stage # "asked" =>
          /\ plan.input \in Nat /\ plan.input <= input
          /\ plan.more = more \/ "more" \in late
          /\ plan.version = version \/ "version" \in late
    /\ stage = "made" => plan.input <= read.input
    /\ stage = "committed" => read.input = plan.input
    /\ stage \in {"made", "committed"} =>
          /\ read.more = plan.more \/ "more" \in late
          /\ read.version = plan.version \/ "version" \in late

PlanIsShown == stage \in Approved => plan = shown

\* ids are given out in order, so that a new plan's password replaces none
SecretsByPlan ==
    /\ \A i \in DOMAIN secrets : i \in Nat /\ i <= id
    /\ id \in DOMAIN secrets => secrets[id] = Registered(plan, Request)

IInv == StampsOrdered /\ PlanIsShown /\ SecretsByPlan /\ PasswordsServeOnce

-----------------------------------------------------------------------------
(* A preparation.                                                          *)

LEMMA PreparedStamps ==
    Prepared.input = input /\ Prepared.more = more /\ Prepared.version = version
BY DEF Prepared, Stamps

LEMMA PreparesSecrets ==
    ASSUME Prepares, SecretsByPlan, StampsOrdered, UNCHANGED asked
    PROVE  SecretsByPlan' /\ id' \in Nat
<1>1. id' = id + 1 /\ id \in Nat /\ id' \in Nat BY DEF Prepares, StampsOrdered
<1>2. plan' = Prepared BY DEF Prepares
<1>3. Registered(plan, Request)' = Registered(Prepared, Request)
  BY <1>2 DEF Registered, Request
<1>4. CASE Redacted(Prepared)
  <2>1. secrets' = [i \in DOMAIN secrets \cup {id + 1} |->
                       IF i = id + 1 THEN Registered(Prepared, Request) ELSE secrets[i]]
    BY <1>4 DEF Prepares
  <2>2. DOMAIN secrets' = DOMAIN secrets \cup {id + 1} BY <2>1
  <2>3. \A i \in DOMAIN secrets' : i \in Nat /\ i <= id' BY <2>2, <1>1 DEF SecretsByPlan
  <2>4. secrets'[id + 1] = Registered(Prepared, Request) BY <2>1
  <2> QED BY <2>3, <2>4, <1>1, <1>3 DEF SecretsByPlan
<1>5. CASE ~Redacted(Prepared)
  <2>1. secrets' = secrets BY <1>5 DEF Prepares
  <2>2. \A i \in DOMAIN secrets' : i \in Nat /\ i <= id' BY <2>1, <1>1 DEF SecretsByPlan
  <2>3. id' \notin DOMAIN secrets' BY <2>1, <1>1 DEF SecretsByPlan
  <2> QED BY <2>2, <2>3, <1>1 DEF SecretsByPlan
<1> QED BY <1>4, <1>5

-----------------------------------------------------------------------------
(* The invariant is inductive.                                             *)

LEMMA InitInvariant == Init => IInv
<1> SUFFICES ASSUME Init PROVE IInv OBVIOUS
<1>1. stage = "asked" /\ input = 0 /\ read = Stamps /\ id = 0 /\ DOMAIN secrets = {}
  BY DEF Init
<1>2. StampsOrdered BY <1>1 DEF StampsOrdered, Stamps
<1>3. PlanIsShown BY <1>1 DEF PlanIsShown, Approved
<1>4. SecretsByPlan BY <1>1 DEF SecretsByPlan
<1>5. PasswordsServeOnce BY <1>1 DEF PasswordsServeOnce
<1> QED BY <1>2, <1>3, <1>4, <1>5 DEF IInv

\* a step that touches neither the plan nor a password
LEMMA SecretsUntouched ==
    ASSUME SecretsByPlan, UNCHANGED <<asked, plan, id, secrets>>
    PROVE  SecretsByPlan'
BY DEF SecretsByPlan, Registered, Request

\* a step that keeps the engine's password, too, and brings no job into an engine
LEMMA PasswordUntouched ==
    ASSUME PasswordsServeOnce, UNCHANGED <<asked, plan, id, secrets, given>>,
           stage' \in {"running", "made", "committed"} => stage \in {"running", "made", "committed"}
    PROVE  PasswordsServeOnce'
<1>1. Registered(plan, Request)' = Registered(plan, Request) BY DEF Registered, Request
<1>2. Redacted(plan)' = Redacted(plan) BY DEF Redacted
<1> QED BY <1>1, <1>2 DEF PasswordsServeOnce

LEMMA NextInvariant == IInv /\ [Next]_vars => IInv'
<1> SUFFICES ASSUME IInv, [Next]_vars PROVE IInv' OBVIOUS
<1> USE DEF IInv
<1>1. CASE Preview
  <2>1. stage = "asked" /\ stage' \in {"previewed", "refused"} /\ plan' = Prepared
    BY <1>1 DEF Preview, Prepares
  <2>2. SecretsByPlan' /\ id' \in Nat BY <1>1, PreparesSecrets DEF Preview
  <2>3. StampsOrdered' BY <1>1, <2>1, <2>2, PreparedStamps DEF Preview, Run, StampsOrdered
  <2>4. PlanIsShown' BY <2>1 DEF PlanIsShown, Approved
  <2>5. PasswordsServeOnce' BY <2>1 DEF PasswordsServeOnce
  <2> QED BY <2>2, <2>3, <2>4, <2>5
<1>2. CASE Convert
  <2>1. stage = "previewed" /\ stage' \in {"ready", "refused"} /\ plan' = Prepared
    BY <1>2 DEF Convert, Prepares
  <2>2. SecretsByPlan' /\ id' \in Nat BY <1>2, PreparesSecrets DEF Convert
  <2>3. StampsOrdered' BY <1>2, <2>1, <2>2, PreparedStamps DEF Convert, Run, StampsOrdered
  <2>4. PlanIsShown' BY <1>2, <2>1 DEF Convert, Hash, PlanIsShown, Approved
  <2>5. PasswordsServeOnce' BY <2>1 DEF PasswordsServeOnce
  <2> QED BY <2>2, <2>3, <2>4, <2>5
<1>3. CASE StartFails
  <2>1. stage = "ready" /\ stage' = "failed" BY <1>3 DEF StartFails, Fails
  <2>2. UNCHANGED <<asked, input, more, version, late, shown, plan, id, secrets, given, read>>
    BY <1>3 DEF StartFails
  <2>3. StampsOrdered' BY <2>1, <2>2 DEF StampsOrdered
  <2>4. PlanIsShown' BY <2>1, <2>2 DEF PlanIsShown, Approved
  <2> QED BY <2>1, <2>2, <2>3, <2>4, SecretsUntouched, PasswordUntouched
<1>4. CASE Start
  <2>1. stage = "ready" /\ stage' = "running" BY <1>4 DEF Start
  <2>2. UNCHANGED <<asked, input, more, version, late, shown, plan, id, read>> BY <1>4 DEF Start
  <2>3. StampsOrdered' BY <2>1, <2>2 DEF StampsOrdered
  <2>4. PlanIsShown' BY <2>1, <2>2 DEF PlanIsShown, Approved
  <2>5. Registered(plan, Request)' = Registered(plan, Request) BY <2>2 DEF Registered, Request
  <2>6. Redacted(plan)' = Redacted(plan) BY <2>2 DEF Redacted
  <2>7. CASE Redacted(plan)
    <3>1. id \in DOMAIN secrets BY <1>4, <2>7 DEF Start, HasPassword
    <3>2. given' = Registered(plan, Request) BY <1>4, <2>7, <3>1 DEF Start, SecretsByPlan
    <3>3. secrets' = [i \in DOMAIN secrets \ {id} |-> secrets[i]] BY <1>4, <2>7 DEF Start, Take
    <3>4. SecretsByPlan' BY <3>3, <2>2 DEF SecretsByPlan
    <3>5. PasswordsServeOnce' BY <3>2, <3>3, <2>2, <2>5, <2>6, <2>7 DEF PasswordsServeOnce
    <3> QED BY <2>3, <2>4, <3>4, <3>5
  <2>8. CASE ~Redacted(plan)
    <3>1. given' = None /\ secrets' = secrets BY <1>4, <2>8 DEF Start
    <3>2. PasswordsServeOnce' BY <3>1, <2>6, <2>8 DEF PasswordsServeOnce
    <3> QED BY <2>2, <2>3, <2>4, <3>1, <3>2, SecretsUntouched
  <2> QED BY <2>7, <2>8
<1>5. CASE Attempt
  <2>1. stage = "running" /\ stage' \in {"running", "made", "failed"} BY <1>5 DEF Attempt, Fails
  <2>2. UNCHANGED <<asked, input, more, version, late, shown, plan, id, secrets, given>>
        /\ read' = Stamps
    BY <1>5 DEF Attempt
  <2>3. StampsOrdered' BY <2>1, <2>2 DEF StampsOrdered, Stamps
  <2>4. PlanIsShown' BY <2>1, <2>2 DEF PlanIsShown, Approved
  <2> QED BY <2>1, <2>2, <2>3, <2>4, SecretsUntouched, PasswordUntouched
<1>6. CASE Validate
  <2>1. stage = "made" /\ stage' \in {"committed", "failed"}
    BY <1>6 DEF Validate, Fails
  <2>2. stage' = "committed" => input = plan.input BY <1>6 DEF Validate, Fails
  <2>3. UNCHANGED <<asked, input, more, version, late, shown, plan, id, secrets, given, read>>
    BY <1>6 DEF Validate
  <2>4. StampsOrdered' BY <2>1, <2>2, <2>3 DEF StampsOrdered
  <2>5. PlanIsShown' BY <2>1, <2>3 DEF PlanIsShown, Approved
  <2> QED BY <2>1, <2>3, <2>4, <2>5, SecretsUntouched, PasswordUntouched
<1>7. CASE Retry
  <2>1. stage = "failed" /\ stage' = "ready" BY <1>7 DEF Retry
  <2>2. UNCHANGED <<asked, input, more, version, late, shown, plan, id, secrets, read>>
    BY <1>7 DEF Retry
  <2>3. StampsOrdered' BY <2>1, <2>2 DEF StampsOrdered
  <2>4. PlanIsShown' BY <2>1, <2>2 DEF PlanIsShown, Approved
  <2>5. PasswordsServeOnce' BY <2>1 DEF PasswordsServeOnce
  <2> QED BY <2>2, <2>3, <2>4, <2>5, SecretsUntouched
<1>8. CASE EditInput \/ EditMore \/ ReplaceEngine
  <2>1. UNCHANGED <<asked, stage, shown, plan, id, secrets, given, read>> /\ late \subseteq late'
    BY <1>8 DEF EditInput, EditMore, ReplaceEngine, Rest
  <2>2. /\ input' = input \/ (input = 0 /\ input' = 1)
        /\ more' = more \/ "more" \in late'
        /\ version' = version \/ "version" \in late'
    BY <1>8 DEF EditInput, EditMore, ReplaceEngine
  <2>3. StampsOrdered' BY <2>1, <2>2 DEF StampsOrdered
  <2>4. PlanIsShown' BY <2>1 DEF PlanIsShown
  <2> QED BY <2>1, <2>3, <2>4, SecretsUntouched, PasswordUntouched
<1>9. CASE LoseEngine \/ UNCHANGED vars
  <2>1. UNCHANGED <<asked, input, more, version, late, stage, shown, plan, id, secrets, given,
                  read>>
    BY <1>9 DEF LoseEngine, Rest, vars
  <2>2. StampsOrdered' BY <2>1 DEF StampsOrdered
  <2>3. PlanIsShown' BY <2>1 DEF PlanIsShown
  <2> QED BY <2>1, <2>2, <2>3, SecretsUntouched, PasswordUntouched
<1>10. CASE Restart
  <2>1. stage = "ready" /\ UNCHANGED <<asked, input, more, version, late, stage, shown, plan, id,
                                        given, read>>
    BY <1>10 DEF Restart, Rest
  <2>2. DOMAIN secrets' = {} BY <1>10 DEF Restart
  <2>3. StampsOrdered' BY <2>1 DEF StampsOrdered
  <2>4. PlanIsShown' BY <2>1 DEF PlanIsShown
  <2>5. SecretsByPlan' BY <2>2 DEF SecretsByPlan
  <2>6. PasswordsServeOnce' BY <2>1 DEF PasswordsServeOnce
  <2> QED BY <2>3, <2>4, <2>5, <2>6
<1> QED BY <1>1, <1>2, <1>3, <1>4, <1>5, <1>6, <1>7, <1>8, <1>9, <1>10 DEF Next

LEMMA SpecInvariant == Spec => []IInv
<1>1. Init => IInv BY InitInvariant
<1>2. IInv /\ [Next]_vars => IInv' BY NextInvariant
<1> QED BY <1>1, <1>2, PTL DEF Spec

-----------------------------------------------------------------------------
(* The plan's invariant.                                                    *)

\* what was planned is what the request's plans are, and a plan stands until the job ends
PlanIsSound == plan.ok => Sound(plan)
PlanStands == stage \in Approved \cup {"previewed"} => plan.ok

\* the first attempt is on the first rung, and a size target is given up on the last one only
OnTheLadder ==
    /\ stage = "running" => rung \in Nat /\ 1 <= rung /\ rung <= Len(Ladder(plan))
    /\ stage \in {"made", "committed"} /\ HasSizeTarget(plan) /\ ~fits => rung = Len(Ladder(plan))

PlanInv ==
    /\ CaseAssumption(asked) /\ PlanIsSound /\ PlanStands /\ OnTheLadder
    /\ stage # "asked" => id >= 1
    /\ OfferedIsPlannable /\ PlannedRuns

LEMMA PlanInitially == Init => PlanInv
<1> SUFFICES ASSUME Init PROVE PlanInv
  OBVIOUS
<1>1. CaseAssumption(asked)
  BY CasesAssumption DEF Init
<1>2. /\ stage = "asked" /\ plan = Refused(None)
  BY DEF Init
<1>3. plan.ok = FALSE
  BY <1>2 DEF Refused
<1>4. PlanIsSound /\ PlanStands
  BY <1>2, <1>3 DEF PlanIsSound, PlanStands, Approved
<1>5. OnTheLadder /\ OfferedIsPlannable /\ PlannedRuns
  BY <1>2 DEF OnTheLadder, OfferedIsPlannable, PlannedRuns
<1> QED BY <1>1, <1>2, <1>4, <1>5 DEF PlanInv

\* soundness is of a plan and a request
LEMMA SoundOfPlan ==
    ASSUME NEW p, Sound(p), plan' = p, asked' = asked
    PROVE  Sound(plan)'
BY DEF Sound, Dispatched, Runnable, Op, Request, None

LEMMA CaseUntouched ==
    ASSUME CaseAssumption(asked), asked' = asked
    PROVE  CaseAssumption(asked)'
BY DEF CaseAssumption

LEMMA PlanUntouched ==
    ASSUME PlanIsSound, UNCHANGED <<asked, plan>>
    PROVE  PlanIsSound'
<1>1. CASE plan.ok
  BY <1>1, SoundOfPlan DEF PlanIsSound
<1>2. CASE ~plan.ok
  BY <1>2 DEF PlanIsSound
<1> QED BY <1>1, <1>2

\* why a job failed was not written anew
LEMMA FailureUntouched ==
    ASSUME PlannedRuns, UNCHANGED <<asked, plan>>,
           stage' = "failed" => stage = "failed" /\ code' = code
    PROVE  PlannedRuns'
<1>1. PlanGaps' = PlanGaps
  BY DEF PlanGaps, Request
<1> QED BY <1>1 DEF PlannedRuns

LEMMA LadderUntouched ==
    ASSUME OnTheLadder, UNCHANGED <<plan, rung, fits>>,
           stage' \in {"running", "made"} => stage = stage',
           stage' = "committed" => stage \in {"made", "committed"}
    PROVE  OnTheLadder'
BY DEF OnTheLadder

\* What keeps the engine of a sound plan from opening its input is a gap.
LEMMA OpensOrGap ==
    ASSUME Sound(plan), given = Given(plan, Request), ~CanOpen
    PROVE  PlanGaps
<1> DEFINE lane == plan.lane
<1>1. CASE lane \in PdfAdapters
  <2>1. CanOpen = EngineOpens(asked.file, plan, given)
    <3>1. lane \notin DataAdapters /\ lane \notin DocumentAdapters
      BY <1>1, AdaptersApart
    <3> QED BY ONLY <1>1, <3>1, Zenon DEF CanOpen
  <2>2. PdfGaps(plan, asked.file, Request)
    BY <1>1, <2>1 DEF Sound, Runnable
  <2> QED BY <2>2 DEF PdfGaps, PlanGaps
<1>2. CASE lane \in DataAdapters
  <2>1. CanOpen = DataWrites(asked.file, plan)
    <3>1. lane \notin PdfAdapters /\ lane \notin DocumentAdapters
      BY <1>2, AdaptersApart
    <3> QED BY ONLY <1>2, <3>1, Zenon DEF CanOpen
  <2>2. DataPlanGaps(asked.file, plan)
    BY <1>2, <2>1 DEF Sound, Runnable
  <2> QED BY <1>2, <2>2 DEF PlanGaps
<1>3. CASE lane \in DocumentAdapters
  <2>1. CanOpen = DocumentWrites(asked.file, plan)
    <3>1. lane \notin PdfAdapters /\ lane \notin DataAdapters
      BY <1>3, AdaptersApart
    <3> QED BY ONLY <1>3, <3>1, Zenon DEF CanOpen
  <2>2. lane = "OfficeCsv"
    BY <2>1 DEF DocumentWrites
  <2> QED BY <2>1, <2>2 DEF PlanGaps
<1>4. CASE lane \notin PdfAdapters /\ lane \notin DataAdapters /\ lane \notin DocumentAdapters
  <2>1. CanOpen = TRUE
    BY ONLY <1>4, Zenon DEF CanOpen
  <2> QED BY <2>1
<1> QED BY <1>1, <1>2, <1>3, <1>4

LEMMA PlanStep == IInv /\ PlanInv /\ [Next]_vars => PlanInv'
<1> SUFFICES ASSUME IInv, PlanInv, [Next]_vars PROVE PlanInv'
  OBVIOUS
<1> USE DEF PlanInv
<1>0. id \in Nat
  BY DEF IInv, StampsOrdered
<1>1. CASE Preview
  <2>1. /\ stage = "asked" /\ plan' = Prepared /\ id' = id + 1 /\ UNCHANGED <<asked, have>>
        /\ stage' = IF Prepared.ok THEN "previewed" ELSE "refused"
        /\ code' = IF Prepared.ok THEN None ELSE Prepared.code
    BY <1>1 DEF Preview, Prepares
  <2>2. CaseAssumption(asked)'
    BY <2>1, CaseUntouched
  <2>3. PlanIsSound'
    BY <2>1, PreparedIsSound, SoundOfPlan DEF PlanIsSound
  <2>4. PlanStands' /\ OnTheLadder' /\ PlannedRuns'
    BY <2>1, PreparedIsSound DEF PlanStands, Approved, OnTheLadder, PlannedRuns
  <2>5. id' >= 1
    BY <1>0, <2>1
  <2>6. OfferedIsPlannable'
    <3>1. ASSUME ~Prepared.ok, Prepared.code = "EngineMissing", asked.op = None
          PROVE  \/ EnsureRouteAvailable(Extension, Request.target, have) # "available"
                 \/ OfferGaps
      BY <3>1, PreparedIsSound
    <3>2. /\ Extension' = Extension /\ Request' = Request /\ OfferGaps' = OfferGaps
      BY <2>1 DEF Extension, Request, OfferGaps, Content
    <3>3. stage' = "refused" => ~Prepared.ok /\ code' = Prepared.code
      BY <2>1, PreparedIsSound
    <3> QED BY <2>1, <3>1, <3>2, <3>3 DEF OfferedIsPlannable
  <2> QED BY <2>2, <2>3, <2>4, <2>5, <2>6
<1>2. CASE Convert
  <2>1. /\ stage = "previewed" /\ plan' = Prepared /\ id' = id + 1 /\ UNCHANGED asked
        /\ stage' \in {"ready", "refused"} /\ (stage' = "ready" => Prepared.ok)
    BY <1>2 DEF Convert, Prepares
  <2>2. CaseAssumption(asked)'
    BY <2>1, CaseUntouched
  <2>3. PlanIsSound'
    BY <2>1, PreparedIsSound, SoundOfPlan DEF PlanIsSound
  <2>4. PlanStands' /\ OnTheLadder' /\ PlannedRuns'
    BY <2>1 DEF PlanStands, Approved, OnTheLadder, PlannedRuns
  <2>5. id' >= 2
    BY <1>0, <2>1
  <2>6. OfferedIsPlannable'
    BY <2>5 DEF OfferedIsPlannable
  <2> QED BY <1>0, <2>1, <2>2, <2>3, <2>4, <2>5, <2>6
<1>3. CASE StartFails
  <2>1. /\ stage = "ready" /\ stage' = "failed" /\ UNCHANGED <<asked, plan, id, rung, fits>>
        /\ code' \in {"InputChanged", "PolicyBlocked", "PasswordGone"}
        /\ code' = "PolicyBlocked" => ~Accepts(plan)
    BY <1>3 DEF StartFails, Fails
  <2>2. PlannedRuns'
    <3>1. ASSUME code' = "PolicyBlocked" PROVE PlanGaps
      <4>1. plan.lane \in MediaAdapters /\ ~RunnerAccepts(plan)
        BY <2>1, <3>1 DEF Accepts
      <4>2. Sound(plan)
        BY <2>1 DEF PlanStands, PlanIsSound, Approved
      <4>3. MediaGaps(plan, Request)
        BY <4>1, <4>2 DEF Sound, Runnable
      <4> QED BY <4>3 DEF MediaGaps, PlanGaps
    <3>2. PlanGaps' = PlanGaps
      BY <2>1 DEF PlanGaps, Request
    <3> QED BY <2>1, <3>1, <3>2 DEF PlannedRuns
  <2>3. PlanStands' /\ OnTheLadder' /\ OfferedIsPlannable'
    BY <2>1 DEF PlanStands, Approved, OnTheLadder, OfferedIsPlannable
  <2> QED BY <2>1, <2>2, <2>3, CaseUntouched, PlanUntouched
<1>4. CASE Start
  <2>1. /\ stage = "ready" /\ stage' = "running" /\ UNCHANGED <<asked, plan, id>> /\ rung' = 1
    BY <1>4 DEF Start
  <2>2. plan.ok
    BY <2>1 DEF PlanStands, Approved
  <2>3. OnTheLadder'
    BY <2>1, <2>2, LadderOfPlan DEF OnTheLadder, PlanIsSound
  <2>4. PlanStands' /\ PlannedRuns' /\ OfferedIsPlannable'
    BY <2>1, <2>2 DEF PlanStands, PlannedRuns, OfferedIsPlannable
  <2> QED BY <2>1, <2>3, <2>4, CaseUntouched, PlanUntouched
<1>5. CASE Attempt
  <2>1. stage = "running" /\ UNCHANGED <<asked, plan, id>>
    BY <1>5 DEF Attempt
  <2>2. plan.ok /\ Sound(plan)
    BY <2>1 DEF PlanStands, PlanIsSound, Approved
  <2>3. PlanStands' /\ (stage' # "asked" => id' >= 1)
    BY <2>1, <2>2 DEF PlanStands
  <2>4. CASE ~CanOpen /\ Fails("EngineFailed") /\ UNCHANGED <<rung, fits>>
    <3>1. stage' = "failed" /\ code' = "EngineFailed"
      BY <2>4 DEF Fails
    <3>2. given = Given(plan, Request)
      BY <2>1 DEF IInv, PasswordsServeOnce, Given
    <3>3. PlanGaps' = PlanGaps
      BY <2>1 DEF PlanGaps, Request
    <3>4. PlannedRuns'
      BY <2>2, <2>4, <3>2, <3>3, OpensOrGap DEF PlannedRuns
    <3>5. OnTheLadder' /\ OfferedIsPlannable'
      BY <3>1 DEF OnTheLadder, OfferedIsPlannable
    <3> QED BY <2>1, <2>3, <3>4, <3>5, CaseUntouched, PlanUntouched
  <2>5. CASE /\ HasSizeTarget(plan) /\ rung < Len(Ladder(plan))
             /\ rung' = rung + 1 /\ UNCHANGED stage
    <3>1. OnTheLadder'
      <4>1. Len(Ladder(plan)) \in Nat
        BY <2>2, LadderOfPlan
      <4>2. rung' \in Nat /\ 1 <= rung' /\ rung' <= Len(Ladder(plan))
        BY <2>1, <2>5, <4>1 DEF OnTheLadder
      <4> QED BY <2>1, <2>5, <4>2 DEF OnTheLadder
    <3>2. PlannedRuns' /\ OfferedIsPlannable'
      BY <2>1, <2>5 DEF PlannedRuns, OfferedIsPlannable
    <3> QED BY <2>1, <2>3, <3>1, <3>2, CaseUntouched, PlanUntouched
  <2>6. CASE /\ ~(HasSizeTarget(plan) /\ ~fits' /\ rung < Len(Ladder(plan)))
             /\ stage' = "made" /\ UNCHANGED rung
    <3>1. OnTheLadder'
      <4>1. Len(Ladder(plan)) \in Nat
        BY <2>2, LadderOfPlan
      <4>2. HasSizeTarget(plan) /\ ~fits' => rung = Len(Ladder(plan))
        BY <2>1, <2>6, <4>1 DEF OnTheLadder
      <4> QED BY <2>1, <2>6, <4>2 DEF OnTheLadder
    <3>2. PlannedRuns' /\ OfferedIsPlannable'
      BY <2>6 DEF PlannedRuns, OfferedIsPlannable
    <3> QED BY <2>1, <2>3, <3>1, <3>2, CaseUntouched, PlanUntouched
  <2> QED BY <1>5, <2>4, <2>5, <2>6 DEF Attempt
<1>6. CASE Validate
  <2>1. /\ stage = "made" /\ stage' \in {"committed", "failed"}
        /\ stage' = "failed" => code' \in {"InputChanged", "ValidationFailed"}
        /\ UNCHANGED <<asked, plan, id, rung, fits>>
    BY <1>6 DEF Validate, Fails
  <2>2. OnTheLadder'
    BY <2>1, LadderUntouched
  <2>3. PlanStands' /\ PlannedRuns' /\ OfferedIsPlannable'
    BY <2>1 DEF PlanStands, Approved, PlannedRuns, OfferedIsPlannable
  <2> QED BY <2>1, <2>2, <2>3, CaseUntouched, PlanUntouched
<1>7. CASE Retry
  <2>1. stage = "failed" /\ stage' = "ready" /\ UNCHANGED <<asked, plan, id>>
    BY <1>7 DEF Retry
  <2>2. /\ PlanStands' /\ PlannedRuns' /\ OfferedIsPlannable' /\ OnTheLadder'
    BY <2>1 DEF PlanStands, Approved, PlannedRuns, OfferedIsPlannable, OnTheLadder
  <2> QED BY <2>1, <2>2, CaseUntouched, PlanUntouched
<1>8. CASE UNCHANGED Rest /\ (stage = "refused" => UNCHANGED have)
  <2>1. UNCHANGED <<asked, stage, code, plan, id, rung, fits>>
    BY <1>8 DEF Rest
  <2>2. PlannedRuns' /\ OnTheLadder'
    BY <2>1, FailureUntouched, LadderUntouched
  <2>3. OfferedIsPlannable'
    BY <1>8, <2>1 DEF OfferedIsPlannable, OfferGaps, Extension, Content, Request
  <2>4. PlanStands'
    BY <2>1 DEF PlanStands
  <2> QED BY <2>1, <2>2, <2>3, <2>4, CaseUntouched, PlanUntouched
<1>9. EditInput \/ EditMore \/ ReplaceEngine \/ LoseEngine \/ Restart \/ UNCHANGED vars =>
          UNCHANGED Rest /\ (stage = "refused" => UNCHANGED have)
  BY DEF EditInput, EditMore, ReplaceEngine, LoseEngine, Restart, vars, Rest
<1> QED BY <1>1, <1>2, <1>3, <1>4, <1>5, <1>6, <1>7, <1>8, <1>9 DEF Next

LEMMA SpecPlanInvariant == Spec => []PlanInv
<1>1. Init => PlanInv
  BY PlanInitially
<1>2. IInv /\ PlanInv /\ [Next]_vars => PlanInv'
  BY PlanStep
<1> QED BY <1>1, <1>2, SpecInvariant, PTL DEF Spec

\* a plan that was accepted passed every test
LEMMA AcceptedTests ==
    ASSUME NEW tests, DOMAIN tests \subseteq Nat, Refusal(tests) = "accepted",
           \A i \in DOMAIN tests : tests[i][2] # "accepted"
    PROVE  \A i \in DOMAIN tests : ~tests[i][1]
BY RefusalIsATest

-----------------------------------------------------------------------------
(* The theorems.                                                           *)

\* Only the approved plan runs, made anew of inputs and engines that are those of the approval, and
\* what is published was made of the first input as it was approved (ensure_plan_approved,
\* ensure_input_unchanged), whatever the planner makes of an input; a further file of a merge or an
\* engine that was another at the run was changed after the preparation.
THEOREM ExecutesAsApproved == Spec => []ExecutedAsApproved
<1>1. IInv => ExecutedAsApproved
  BY DEF IInv, PlanIsShown, Approved, StampsOrdered, ExecutedAsApproved
<1> QED BY <1>1, SpecInvariant, PTL

\* A password reaches the engine of the plan that it was given with, and is then gone
\* (register_pdf_secret, take_pdf_secret), however often a job is run and a process restarted.
THEOREM PasswordsServeOneEngine == Spec => []PasswordsServeOnce
<1>1. IInv => PasswordsServeOnce BY DEF IInv
<1> QED BY <1>1, SpecInvariant, PTL

\* A route that is offered as available is not refused for a missing engine, and the engine of a
\* plan's first step comes to the adapter that the plan was made for (capabilities.rs, workflow.rs
\* and execute_plan_observed choose the lane three times), for every request and whatever engines
\* are installed.
THEOREM LanesAreAgreed == Spec => []LanesAgree
<1>1. PlanInv => LanesAgree
  <2> SUFFICES ASSUME PlanInv, plan.ok PROVE DispatchedAsPlanned
    BY DEF PlanInv, LanesAgree, DispatchedAsPlanned
  <2>1. AdapterFor(plan.engine, plan.target, IF asked.op \in PdfOperations THEN asked.op ELSE None)
          = plan.lane
    BY DEF PlanInv, PlanIsSound, Sound, Dispatched, Op
  <2>2. ASSUME asked.op # "pdf-watermark", plan.lane # "MboxPdf"
        PROVE  AtExecution(plan.lane, asked.op) = {}
    BY ONLY <2>2, Zenon DEF AtExecution
  <2> QED BY <2>1, <2>2 DEF DispatchedAsPlanned
<1> QED BY <1>1, SpecPlanInvariant, PTL

\* What a planner accepted, the runner accepts and the engine can open, or the plan has one of the
\* options that PlanGaps names (planner.rs against configure_ffmpeg_output and the adapters).
THEOREM PlannedIsRunnable == Spec => []PlannedRuns
<1>1. PlanInv => PlannedRuns
  BY DEF PlanInv
<1> QED BY <1>1, SpecPlanInvariant, PTL

\* An output above its size target was made with the highest factor of its ladder (crf_ladder,
\* execute_with_size_target), whatever factor the ladder began with.
THEOREM LadderIsClimbed == Spec => []LadderIsExhausted
<1>1. PlanInv => LadderIsExhausted
  <2> SUFFICES ASSUME PlanInv, stage \in {"made", "committed"}, HasSizeTarget(plan), ~fits
               PROVE  Ladder(plan)[rung] = Highest(Default(plan.arguments.crf, 20))
    BY DEF LadderIsExhausted, Highest
  <2>1. rung = Len(Ladder(plan))
    BY DEF PlanInv, OnTheLadder
  <2>2. plan.ok
    BY DEF PlanInv, PlanStands, Approved
  <2> QED BY <2>1, <2>2, LadderOfPlan DEF PlanInv, PlanIsSound
<1> QED BY <1>1, SpecPlanInvariant, PTL
=============================================================================
