------------------------------ MODULE MediaCheck -----------------------------
(***************************************************************************)
(* The second half of the media lane: the command that the runner makes of *)
(* a plan, the file that an obedient engine writes, the ways in which a    *)
(* file can be other than that, and the verdict of validate_media_output.  *)
(***************************************************************************)
EXTENDS MediaPlan

Presets == {"unset", "medium", "fast"}   \* of the nine that the runner knows

-----------------------------------------------------------------------------
(* The command: what the runner still refuses, and what it tells the       *)
(* engine to write.                                                         *)

CrfFits(crf) == Default(crf, 20) <= 51
BitrateFits(rate) == InRange(Default(rate, 192), 8, 320)

\* the quality argument of an image encoder
QualityFits(target, q) ==
    CASE target = "jpeg" -> InRange(q, 2, 31)
      [] target = "webp" -> InRange(q, 1, 100)
      [] target = "avif" -> InRange(q, 0, 63)
      [] OTHER -> TRUE

\* checked_argument and its kin in configure_ffmpeg_output
RunnerAccepts(plan) ==
    LET a == plan.arguments
    IN IF plan.lane # "Ffmpeg" THEN plan.target # "jpeg" \/ InRange(a.quality, 1, 100)
       ELSE IF plan.operation = "metadata-clean" THEN \A k \in a.removed : ValidMetadataKey(k)
       ELSE IF plan.target = "mp4"
         THEN /\ a.video = "copy" \/ (a.preset \in Presets /\ CrfFits(a.crf))
              /\ a.audio = "copy" \/ BitrateFits(a.bitrate)
       ELSE IF plan.target \in AudioTargets
         THEN a.audio \in {"copy", "libvorbis", "pcm_s16le", "flac"} \/ BitrateFits(a.bitrate)
       ELSE IF plan.target = "gif" THEN InRange(a.rate, 1, 60)
       ELSE QualityFits(plan.target, a.quality)

\* (mutant) The ladder stops before the rung that would pass the maximum.
CrfLadderUncapped(start) ==
    [i \in 1..Cardinality({j \in 0..3 : start + 6 * j <= 51}) |-> start + 6 * (i - 1)]

\* The constant-rate factors that a size target is tried with, in order.
CrfLadder(start) ==
    LET rung(i) == IF start + 6 * (i - 1) > 51 THEN 51 ELSE start + 6 * (i - 1)
        last == Min({i \in 1..4 : i = 4 \/ rung(i) = 51})
    IN [i \in 1..last |-> rung(i)]

HasSizeTarget(plan) ==
    plan.target = "mp4" /\ plan.operation # "metadata-clean"
      /\ plan.arguments.video # "copy" /\ plan.arguments.size # Unset

Ladder(plan) == IF HasSizeTarget(plan) THEN CrfLadder(Default(plan.arguments.crf, 20)) ELSE <<Unset>>

-----------------------------------------------------------------------------
(* An engine that does as it is told (external).                           *)

ImageCodec == [jpeg |-> "mjpeg", png |-> "png", webp |-> "webp", avif |-> "av1",
               tiff |-> "tiff", bmp |-> "bmp"]

Stream(k, c) == [kind |-> k, codec |-> c]

\* scale=W:-2 takes the multiple of two that is nearest to the exact height
ScaledHeight(p, width) == 2 * ((width * p.height + p.width) \div (2 * p.width))

\* the streams of kind k that `-map 0:k?` selects, copied or re-encoded
Mapped(p, k, mode, codec) ==
    LET all == OfKind(p, k)
    IN IF mode = "copy" THEN all ELSE [i \in DOMAIN all |-> Stream(k, codec)]

Written(container, ext, streams, width, height, alpha, millis, keys) ==
    [container |-> container, ext |-> ext, streams |-> streams, width |-> width,
     height |-> height, alpha |-> alpha, millis |-> millis, keys |-> keys]

SliceMillis(p, a) ==
    IF p.millis = Unset THEN a.length
    ELSE IF a.length # Unset /\ a.length < p.millis - a.start THEN a.length
    ELSE p.millis - a.start

Engine(p, plan, ext) ==
    LET a == plan.arguments
        video(codec, resize) ==
            Written(plan.target, ext, <<Stream(Video, codec)>>,
                    IF resize /\ a.width # Unset THEN a.width ELSE p.width,
                    IF resize /\ a.width # Unset THEN ScaledHeight(p, a.width) ELSE p.height,
                    p.alpha, Unset, NoKeys)
    IN IF plan.operation = "metadata-clean"
       THEN Written(p.format, ext, p.streams, p.width, p.height, p.alpha, p.millis,
                    p.keys \ a.removed)
       ELSE CASE plan.target = "mp4" ->
                   Written("mp4", ext,
                           Mapped(p, Video, a.video, "h264") \o Mapped(p, Audio, a.audio, "aac")
                             \o (IF a.subtitles = "copy" THEN OfKind(p, Subtitle) ELSE <<>>),
                           p.width, p.height, FALSE, p.millis, p.keys)
            [] plan.target \in AudioTargets ->
                   Written(plan.target, ext,
                           <<IF a.audio = "copy" THEN p.streams[a.stream]
                             ELSE Stream(Audio, AudioForm[plan.target].codec)>>,
                           0, 0, FALSE, p.millis, p.keys)
            [] plan.target = "gif" ->
                   [video("gif", TRUE) EXCEPT !.millis = SliceMillis(p, a), !.alpha = FALSE]
            [] OTHER -> video(ImageCodec[plan.target], TRUE)

\* The ways in which a written file may be wrong, each a record of its own.
Damages == {"short", "lost", "codec", "scaled", "opaque", "kept", "added"}

Damage(o, d, plan) ==
    CASE d = "short" /\ o.millis > 600 -> [o EXCEPT !.millis = @ - 600]
      [] d = "lost" /\ o.streams # <<>> -> [o EXCEPT !.streams = Front(@)]
      [] d = "codec" /\ o.streams # <<>> -> [o EXCEPT !.streams[1].codec = "other"]
      [] d = "scaled" /\ o.height > 0 -> [o EXCEPT !.height = @ + 2]
      [] d = "opaque" -> [o EXCEPT !.alpha = FALSE]
      [] d = "kept" /\ plan.operation = "metadata-clean" ->
             [o EXCEPT !.keys = @ \cup plan.arguments.removed]
      [] d = "added" -> [o EXCEPT !.streams = Append(@, Stream(Audio, "aac"))]
      [] OTHER -> o

-----------------------------------------------------------------------------
(* validate_media_output.                                                  *)

ImageOutputs == DOMAIN ImageCodec

\* the number of streams of kind k that the output must have
StreamCount(p, k, plan) ==
    LET all == Cardinality(Indices(p, k))
    IN IF plan.target \in AudioTargets THEN (IF k = Audio THEN 1 ELSE 0)
       ELSE IF plan.target \in ImageOutputs \cup {"gif"} THEN (IF k = Video THEN 1 ELSE 0)
       ELSE IF k # Subtitle THEN all
       ELSE IF "subtitles" \in DOMAIN plan.arguments /\ plan.arguments.subtitles = "copy"
            THEN all ELSE 0

ExpectedMillis(p, plan) ==
    IF plan.target # "gif" THEN p.millis
    ELSE IF plan.arguments.length # Unset THEN plan.arguments.length
    ELSE IF p.millis = Unset THEN Unset
    ELSE IF p.millis < plan.arguments.start THEN 0 ELSE p.millis - plan.arguments.start

\* (mutant) The height is cut off instead of rounded.
ExpectedHeightTruncated(p, width) == 2 * ((p.height * width) \div (2 * p.width))

\* the height that belongs to a width: rounded, then up to an even number
ExpectedHeight(p, width) ==
    LET rounded == (p.height * width + p.width \div 2) \div p.width
        even == IF rounded % 2 = 0 THEN rounded ELSE rounded + 1
    IN IF even < 2 THEN 2 ELSE even

\* the picture size that the output must have
ExpectedSize(p, plan) ==
    IF plan.target # "mp4" /\ "width" \in DOMAIN plan.arguments /\ plan.arguments.width # Unset
    THEN <<plan.arguments.width, ExpectedHeight(p, plan.arguments.width)>>
    ELSE <<p.width, p.height>>

HasVideo(p) == Indices(p, Video) # {}
FirstCodec(p, k) == IF Indices(p, k) = {} THEN "none" ELSE p.streams[Min(Indices(p, k))].codec

DurationUnknown(p, o, plan) ==
    plan.target \notin ImageOutputs /\ Unset \in {ExpectedMillis(p, plan), o.millis}

DurationFails(p, o, plan) ==
    LET tolerance == IF plan.operation = "remux" THEN 50 ELSE 250
    IN /\ plan.target \notin ImageOutputs
       /\ ~DurationUnknown(p, o, plan)
       /\ ~InRange(o.millis - ExpectedMillis(p, plan), 0 - tolerance, tolerance)

DimensionsFail(p, o, plan) ==
    /\ plan.target \in {"mp4", "gif", "jpeg", "png", "webp", "avif"}
    /\ HasVideo(p) # HasVideo(o)
         \/ (HasVideo(p) /\ ExpectedSize(p, plan) # <<o.width, o.height>>)

CodecFails(p, o, plan) ==
    \/ plan.target \in ImageOutputs /\ FirstCodec(o, Video) # ImageCodec[plan.target]
    \/ plan.target \in AudioTargets /\ FirstCodec(o, Audio) # AudioForm[plan.target].codec

AlphaFails(p, o, plan) ==
    /\ plan.target \in ImageOutputs /\ "alpha" \in DOMAIN plan.arguments
    /\ plan.arguments.alpha /\ ~o.alpha

CleaningFails(p, o, plan) ==
    /\ plan.operation = "metadata-clean"
    /\ \/ plan.arguments.removed \cap o.keys # {}
       \/ plan.arguments.retained \ o.keys # {}
       \/ <<p.streams, p.width, p.height>> # <<o.streams, o.width, o.height>>

CountFails(p, o, plan) ==
    \E k \in {Video, Audio, Subtitle} : Cardinality(Indices(o, k)) # StreamCount(p, k, plan)

\* an output that ffprobe cannot read is an error, and counts as a failure here
ValidateMedia(p, out, plan) ==
    LET o == InspectMedia(out)
    IN IF \/ ~Readable(out)
          \/ o.format # plan.target
          \/ DurationFails(p, o, plan)
          \/ CountFails(p, o, plan)
          \/ DimensionsFail(p, o, plan)
          \/ CodecFails(p, o, plan)
          \/ AlphaFails(p, o, plan)
          \/ CleaningFails(p, o, plan)
       THEN "fail"
       ELSE IF DurationUnknown(p, o, plan) THEN "unknown" ELSE "pass"
=============================================================================
