------------------------------ MODULE MediaPlan ------------------------------
(***************************************************************************)
(* The media lane as functions: what the planner accepts and writes into a *)
(* plan (crates/core/src/planner.rs), which command the runner makes of it *)
(* (crates/core/src/runner.rs, configure_ffmpeg_output), what an engine    *)
(* that obeys the command produces, and what the validator says of an      *)
(* output (crates/core/src/validation.rs).                                 *)
(*                                                                         *)
(* A file is its container, its streams in order, the picture size, the    *)
(* duration and its metadata keys.  A plan is the record of the fields     *)
(* that its readers tell apart.                                            *)
(***************************************************************************)
EXTENDS Integers, Sequences, FiniteSets, SequencesExt

Unset == -1         \* an absent number
NoKeys == {}

Video == "video"
Audio == "audio"
Subtitle == "subtitle"
Data == "data"

\* The members of a sequence at some of its indices, in order.  (SelectSeq, said with the rank of
\* an index, so that it can be reasoned about.)
Nth(I, n) == CHOOSE i \in I : Cardinality({j \in I : j <= i}) = n
Pick(s, I) == [n \in 1..Cardinality(I) |-> s[Nth(I, n)]]
Without(s, pieces) == Pick(s, {i \in DOMAIN s : s[i] \notin pieces})

\* the streams of one kind, in order
Indices(f, k) == {i \in DOMAIN f.streams : f.streams[i].kind = k}
OfKind(f, k) == Pick(f.streams, Indices(f, k))

\* A file has streams of the four kinds in order, a width if it has a picture, and maybe a
\* duration; a HEIC, a PSD and a DNG have a picture.
MediaFile(f) ==
    /\ f.streams \in Seq([kind : {Video, Audio, Subtitle, Data}, codec : STRING])
    /\ f.width \in Nat /\ f.height \in Nat /\ (Indices(f, Video) # {} => f.width > 0)
    /\ f.alpha \in BOOLEAN /\ f.millis \in Nat \cup {Unset}
    /\ f.container = "heic" \/ f.ext \in {"psd", "dng"} => Indices(f, Video) # {}

\* early returns in the order of the code: the first test that holds decides
Refusal(tests) ==
    LET failed == {i \in DOMAIN tests : tests[i][1]}
    IN IF failed = {} THEN "accepted" ELSE tests[Min(failed)][2]

Refused(code) == [ok |-> FALSE, code |-> code]

-----------------------------------------------------------------------------
(* Inspection.                                                             *)

ImageFormats == {"png", "jpeg", "webp", "avif", "heic", "gif", "tiff", "bmp"}

\* The demuxer that the first bytes force on ffprobe: those of an ADTS stream
\* pass for an MPEG audio frame.
SniffedDemuxer(container) ==
    CASE container \in {"mp4", "mov", "m4a", "avif", "heic"} -> "mov"
      [] container \in {"mkv", "webm"} -> "matroska"
      [] container \in {"ogg", "opus"} -> "ogg"
      [] container \in {"mp3", "aac"} -> "mp3"
      [] OTHER -> container

\* the demuxer that reads such a file (external)
Demuxer(container) == IF container = "aac" THEN "aac" ELSE SniffedDemuxer(container)

\* The format id: the header's, or the demuxer's family told apart by the extension.
NormalizedFormat(container, ext) ==
    IF container \in ImageFormats THEN container
    ELSE CASE SniffedDemuxer(container) = "matroska" -> IF ext = "webm" THEN "webm" ELSE "mkv"
           [] SniffedDemuxer(container) = "mov" -> IF ext \in {"mov", "m4a"} THEN ext ELSE "mp4"
           [] SniffedDemuxer(container) = "ogg" -> IF ext = "opus" THEN "opus" ELSE "ogg"
           [] OTHER -> container

ClassifyKind(f, format) ==
    IF format \in ImageFormats THEN "image"
    ELSE IF Indices(f, Video) # {} THEN "video"
    ELSE IF Indices(f, Audio) # {} THEN "audio" ELSE "unknown"

\* inspect_media: a probe, or nothing when ffprobe is made to read it as something else
Readable(f) == SniffedDemuxer(f.container) = Demuxer(f.container)

InspectMedia(f) ==
    LET format == NormalizedFormat(f.container, f.ext)
    IN [format |-> format, kind |-> ClassifyKind(f, format), streams |-> f.streams,
        width |-> f.width, height |-> f.height, alpha |-> f.alpha,
        millis |-> f.millis, keys |-> f.keys]

\* inspect_magick_image: the extension is the format, the first frame the picture
InspectMagick(f) ==
    [InspectMedia(f) EXCEPT !.format = f.ext, !.kind = "image", !.alpha = FALSE,
                            !.streams = <<[kind |-> Video, codec |-> f.ext]>>]

\* parse_metadata: how a key is classified, and whether it may be named in a command
PrivateKeys == {"location", "artist-*"}
ValidMetadataKey(k) == k # "artist-*"

-----------------------------------------------------------------------------
(* Plans.                                                                  *)

InRange(n, lo, hi) == lo <= n /\ n <= hi
Default(n, d) == IF n = Unset THEN d ELSE n

\* (mutant) What a plan drops is not declared.
PlanSilent(target, operation, loss, arguments, dropped) ==
    [ok |-> TRUE, lane |-> "Ffmpeg", engine |-> "ffmpeg", target |-> target,
     operation |-> operation, loss |-> loss, arguments |-> arguments, dropped |-> {}]

\* a plan before its constraints: the first step's fields and the declared changes
Plan(target, operation, loss, arguments, dropped) ==
    [ok |-> TRUE, lane |-> "Ffmpeg", engine |-> "ffmpeg", target |-> target,
     operation |-> operation, loss |-> loss, arguments |-> arguments, dropped |-> dropped]

\* the plan of a document lane: the first step and what it is told
PlanOfStep(lane, target, operation, loss, arguments) ==
    [ok |-> TRUE, lane |-> lane.adapter, engine |-> lane.step, target |-> target,
     operation |-> operation, loss |-> loss, arguments |-> arguments, dropped |-> {}]

ImageTargets == {"jpg", "jpeg", "png", "webp", "avif", "tiff", "bmp"}
LossyImages == {"jpeg", "webp", "avif"}
Canonical(t) == IF t = "jpg" THEN "jpeg" ELSE t

Clamp(n, lo, hi) == IF n < lo THEN lo ELSE IF n > hi THEN hi ELSE n

\* the quality of a request on the encoder's own scale
EncoderQuality(target, q) ==
    CASE target = "jpeg" -> Clamp(((101 - q) * 29) \div 100 + 2, 2, 31)
      [] target = "avif" -> Clamp(((100 - q) * 63) \div 100, 0, 63)
      [] OTHER -> q

PlanImage(p, r) ==
    LET target == Canonical(r.target)
        lossy == target \in LossyImages
        quality == IF lossy THEN Default(r.quality, 85) ELSE Unset
        refusal == Refusal(<<
            <<p.kind # "image", "Unsupported">>,
            <<Indices(p, Video) = {}, "InputInvalid">>,
            <<r.width # Unset /\ ~InRange(r.width, 1, 16384), "InputInvalid">>,
            <<lossy /\ ~InRange(quality, 1, 100), "InputInvalid">>,
            <<~lossy /\ r.quality # Unset, "InputInvalid">>,
            <<p.alpha /\ target \in {"jpeg", "bmp"}, "PolicyBlocked">> >>)
    IN IF refusal # "accepted" THEN Refused(refusal)
       ELSE Plan(target, "transcode", IF lossy THEN "lossy" ELSE "lossless",
                 [stream |-> Min(Indices(p, Video)), width |-> r.width,
                  quality |-> IF lossy THEN EncoderQuality(target, quality) ELSE Unset,
                  alpha |-> p.alpha],
                 {})

\* plan_heic_conversion: libheif decodes, nothing is resized
PlanHeic(p, r) ==
    LET target == Canonical(r.target)
        lossy == target = "jpeg"
        quality == IF lossy THEN Default(r.quality, 85) ELSE Unset
        refusal == Refusal(<<
            <<p.format # "heic" \/ p.kind # "image", "Unsupported">>,
            <<r.width # Unset, "Unsupported">>,
            <<target \notin {"jpeg", "png"}, "Unsupported">>,
            <<lossy /\ ~InRange(quality, 1, 100), "InputInvalid">>,
            <<~lossy /\ r.quality # Unset, "InputInvalid">> >>)
    IN IF refusal # "accepted" THEN Refused(refusal)
       ELSE [Plan(target, "transcode", IF lossy THEN "lossy" ELSE "lossless",
                  [width |-> Unset, quality |-> quality, alpha |-> FALSE], {})
             EXCEPT !.lane = "Heif", !.engine = "heif-dec"]

\* plan_magick_conversion: a layered or raw picture is flattened
PlanMagick(p, r) ==
    LET target == Canonical(r.target)
        lossy == target = "jpeg"
        quality == IF lossy THEN Default(r.quality, 92) ELSE Unset
        refusal == Refusal(<<
            <<p.format \notin {"psd", "dng"}, "Unsupported">>,
            <<r.width # Unset, "Unsupported">>,
            <<target \notin {"jpeg", "png", "tiff"}, "Unsupported">>,
            <<lossy /\ ~InRange(quality, 1, 100), "InputInvalid">>,
            <<~lossy /\ r.quality # Unset, "InputInvalid">> >>)
    IN IF refusal # "accepted" THEN Refused(refusal)
       ELSE [Plan(target, "transcode", IF lossy THEN "lossy" ELSE "lossless",
                  [width |-> Unset, quality |-> quality, alpha |-> FALSE], {})
             EXCEPT !.lane = "Magick", !.engine = "magick"]

\* the slice may end up to a quarter of a second after the input does
SliceFits(p, start, length) ==
    p.millis = Unset \/ /\ start < p.millis
                        /\ length = Unset \/ start + length <= p.millis + 250

PlanGif(p, r) ==
    LET start == Default(r.start, 0)
        rate == Default(r.rate, 15)
        refusal == Refusal(<<
            <<Indices(p, Video) = {}, "InputInvalid">>,
            <<r.length = 0, "InputInvalid">>,
            <<~InRange(rate, 1, 60), "InputInvalid">>,
            <<r.width # Unset /\ ~InRange(r.width, 1, 16384), "InputInvalid">>,
            <<~SliceFits(p, start, r.length), "InputInvalid">> >>)
    IN IF refusal # "accepted" THEN Refused(refusal)
       ELSE Plan("gif", "transcode", "lossy",
                 [stream |-> Min(Indices(p, Video)), start |-> start, length |-> r.length,
                  rate |-> rate, width |-> r.width],
                 DOMAIN p.streams \ {Min(Indices(p, Video))})

ForeignSubtitles(p) == {i \in Indices(p, Subtitle) : p.streams[i].codec # "mov_text"}

PlanMp4(p, r) ==
    LET foreign == ForeignSubtitles(p)
        other == Indices(p, Data)
        videoCopy == /\ \A i \in Indices(p, Video) : p.streams[i].codec \in {"h264", "hevc"}
                     /\ r.size = Unset
        audioCopy == \A i \in Indices(p, Audio) : p.streams[i].codec = "aac"
        remux == videoCopy /\ audioCopy /\ foreign = {} /\ other = {}
        refusal == Refusal(<<
            <<p.kind # "video", "Unsupported">>,
            <<Indices(p, Video) = {}, "InputInvalid">>,
            <<r.preserve /\ (foreign # {} \/ other # {}), "PolicyBlocked">> >>)
    IN IF refusal # "accepted" THEN Refused(refusal)
       ELSE Plan("mp4", IF remux THEN "remux" ELSE "transcode",
                 IF remux THEN "container-only" ELSE "lossy",
                 [video |-> IF videoCopy THEN "copy" ELSE "libx264",
                  audio |-> IF audioCopy THEN "copy" ELSE "aac",
                  subtitles |-> IF Indices(p, Subtitle) = {} THEN "none"
                                ELSE IF foreign = {} THEN "copy" ELSE "drop",
                  crf |-> r.crf, preset |-> r.preset, bitrate |-> r.bitrate, size |-> r.size],
                 IF remux \/ r.preserve THEN {} ELSE foreign \cup other)

AudioForm ==
    [mp3  |-> [codec |-> "mp3", encoder |-> "libmp3lame", lossy |-> TRUE],
     m4a  |-> [codec |-> "aac", encoder |-> "aac", lossy |-> TRUE],
     wav  |-> [codec |-> "pcm_s16le", encoder |-> "pcm_s16le", lossy |-> FALSE],
     flac |-> [codec |-> "flac", encoder |-> "flac", lossy |-> FALSE],
     ogg  |-> [codec |-> "vorbis", encoder |-> "libvorbis", lossy |-> TRUE],
     opus |-> [codec |-> "opus", encoder |-> "libopus", lossy |-> TRUE],
     aac  |-> [codec |-> "aac", encoder |-> "aac", lossy |-> TRUE]]
AudioTargets == DOMAIN AudioForm

PlanAudio(p, r) ==
    LET audios == Indices(p, Audio)
        refusal == Refusal(<<
            <<p.kind \notin {"video", "audio"}, "Unsupported">>,
            <<audios = {}, "InputInvalid">>,
            <<r.preserve /\ Cardinality(audios) > 1, "PolicyBlocked">>,
            <<r.stream # Unset /\ r.stream \notin audios, "InputInvalid">> >>)
        selected == IF r.stream = Unset THEN Min(audios) ELSE r.stream
        form == AudioForm[r.target]
        copy == p.streams[selected].codec = form.codec
    IN IF refusal # "accepted" THEN Refused(refusal)
       ELSE Plan(r.target, IF copy THEN "remux" ELSE "transcode",
                 IF copy THEN "container-only" ELSE IF form.lossy THEN "lossy" ELSE "lossless",
                 [stream |-> selected, audio |-> IF copy THEN "copy" ELSE form.encoder,
                  bitrate |-> r.bitrate],
                 DOMAIN p.streams \ {selected})

Cleanable == {"mp4", "mov", "mkv", "webm", "mp3", "m4a", "wav", "flac", "ogg", "opus", "aac",
              "jpeg", "png", "webp", "avif"}

PlanMetadataClean(p, r) ==
    LET removed == p.keys \cap PrivateKeys
        refusal == Refusal(<<
            <<p.format \notin Cleanable, "Unsupported">>,
            <<r.overInput, "PolicyBlocked">>,
            <<\E k \in removed : ~ValidMetadataKey(k), "PolicyBlocked">> >>)
    IN IF refusal # "accepted" THEN Refused(refusal)
       ELSE Plan(p.format, "metadata-clean", "container-only",
                 [removed |-> removed, retained |-> p.keys \ removed], removed)

PlanMedia(p, r) ==
    CASE r.target = "mp4" -> PlanMp4(p, r)
      [] r.target \in AudioTargets -> PlanAudio(p, r)
      [] r.target = "gif" -> PlanGif(p, r)
      [] r.target \in ImageTargets -> PlanImage(p, r)
      [] OTHER -> Refused("Unsupported")
=============================================================================
