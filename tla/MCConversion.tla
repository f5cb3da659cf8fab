---------------------------- MODULE MCConversion ----------------------------
(* The requests: every route with engines missing, and for every lane files that vary in what its *)
(* plans depend on, with one option varied at a time.                                             *)
EXTENDS Conversion

Default0 == [target |-> "mp4", ext |-> "mp4", quality |-> Unset, width |-> Unset,
             preserve |-> FALSE, size |-> Unset, crf |-> Unset, preset |-> "unset",
             bitrate |-> Unset, stream |-> Unset, start |-> Unset, length |-> Unset,
             rate |-> Unset, overInput |-> FALSE, dpi |-> Unset, color |-> "rgb",
             password |-> "none", range |-> "unset", parts |-> <<>>, angle |-> Unset,
             text |-> "none", language |-> "none", more |-> <<>>, lossyData |-> FALSE]

To(t) == [Default0 EXCEPT !.target = t, !.ext = t]

Ask(file, request, op, engines) == [file |-> file, request |-> request, op |-> op, have |-> engines]

-----------------------------------------------------------------------------
(* Routes.                                                                 *)

Page(n) == [name |-> n, w |-> 612, h |-> 792, rot |-> 0, text |-> TRUE, mark |-> "none"]

Words(words) == [words |-> words, hidden |-> <<>>, external |-> FALSE, active |-> "none", sheets |-> <<2>>]
Row == [a |-> [kind |-> "string", text |-> "x"]]
Entry(name, size) == [name |-> name, kind |-> "file", size |-> size, data |-> "x"]
Letter == Message(TRUE, TRUE, <<<<"x">>>>, <<>>)

\* what a file of a lane has in it besides streams and pages
BodyOf(container) ==
    CASE container \in DataFormats -> <<[records |-> <<Row>>, flaw |-> "none"]>>
      [] container \in ArchiveFormats -> <<[entries |-> <<Entry("f", 1)>>, solid |-> FALSE]>>
      [] container \in {"eml", "msg", "mbox"} -> <<[mails |-> <<Letter>>]>>
      [] OTHER -> <<Words(<<"x">>)>>

Document(container, ext) ==
    [container |-> container, ext |-> ext, lock |-> "none", pages |-> <<Page(1)>>,
     title |-> "none", semicolon |-> FALSE, trailer |-> TRUE,
     streams |-> <<Stream(Video, container)>>, width |-> 64, height |-> 48, alpha |-> FALSE,
     millis |-> Unset, keys |-> NoKeys, body |-> BodyOf(container)]

Containing(container, body) == [Document(container, container) EXCEPT !.body = <<body>>]

OneOfEach == {"csv", "json", "yaml", "xml", "pdf", "heic", "docx", "odt", "xlsx", "rtf", "svg", "html", "md", "zip", "tar.gz",
              "7z", "eml", "msg", "mbox", "png", "tiff", "psd", "mp4", "mp3", "gif"}
Mismatches == {<<"html", "md">>, <<"svg", "html">>, <<"png", "heic">>, <<"pdf", "png">>,
               <<"docx", "odt">>, <<"html", "svg">>}

Missing == {{}} \cup {{e} : e \in Engines} \cup {{"msedge", "pandoc"}, {"msedge", "pdffonts"}}

RouteCases ==
    {Ask(Document(n[1], n[2]), To(t), "none", Engines \ m) :
        n \in {<<x, x>> : x \in OneOfEach} \cup Mismatches,
        t \in UNION {SupportedTargets[c] : c \in DOMAIN SupportedTargets}, m \in Missing}

-----------------------------------------------------------------------------
(* Media.                                                                  *)

Streams(k, codecs) == [i \in DOMAIN codecs |-> Stream(k, codecs[i])]
Contents ==
    {Streams(Video, v) \o Streams(Audio, a) \o Streams(Subtitle, s) \o Streams(Data, d) :
        v \in {<<>>, <<"h264">>, <<"vp9">>}, a \in {<<>>, <<"aac">>, <<"mp3", "aac">>},
        s \in {<<>>, <<"mov_text">>, <<"subrip">>, <<"mov_text", "subrip">>}, d \in {<<>>, <<"bin">>}}

Media(container, streams, millis) ==
    LET video == \E i \in DOMAIN streams : streams[i].kind = Video
    IN Written(container, container, streams, IF video THEN 100 ELSE 0, IF video THEN 51 ELSE 0,
               FALSE, millis, NoKeys)

Mp4Requests ==
    {To("mp4"), [To("mp4") EXCEPT !.preserve = TRUE], [To("mp4") EXCEPT !.ext = "mov"],
     [To("mp4") EXCEPT !.bitrate = 400]}
       \cup {[To("mp4") EXCEPT !.size = 1, !.crf = c] : c \in {Unset, 0, 34, 40, 51, 60}}

MovieCases ==
    {Ask(Media("mkv", s, 4000), r, "none", Engines) :
        s \in Contents, r \in Mp4Requests \cup {To("mp3"), [To("mp3") EXCEPT !.preserve = TRUE],
                                               [To("mp3") EXCEPT !.stream = 1]}}

GifCases ==
    {Ask(Media("webm", <<Stream(Audio, "opus"), Stream(Video, "vp9")>>, m),
         [To("gif") EXCEPT !.start = s, !.length = l, !.width = w, !.rate = 61 - n], "none", Engines) :
        m \in {Unset, 4000}, s \in {Unset, 1000, 4000}, l \in {Unset, 0, 2000, 3250, 3251},
        w \in {Unset, 50, 49, 30}, n \in {0, 1}}

SoundCases ==
    {Ask(Media(c, <<Stream(Audio, codec)>>, m), [To(t) EXCEPT !.bitrate = b], "none", Engines) :
        c \in {"wav", "flac", "aac", "m4a", "ogg", "mp3"}, codec \in {"aac", "mp3", "pcm_s16le"},
        m \in {Unset, 4000}, t \in {"m4a", "mp3", "wav"}, b \in {Unset, 320, 321}}

PictureCases ==
    {Ask([Document(c, c) EXCEPT !.alpha = a, !.width = 100, !.height = 51],
         [To(t) EXCEPT !.quality = q, !.width = w], "none", Engines) :
        c \in {"png", "tiff", "heic", "psd"}, a \in BOOLEAN,
        t \in {"jpg", "png", "webp", "avif", "tiff", "bmp"},
        q \in {Unset, 0, 1, 2, 50, 99, 100, 101}, w \in {Unset, 1, 49, 50}}
      \cup {Ask([Document("png", "png") EXCEPT !.width = 1000, !.height = 10],
                [To("webp") EXCEPT !.width = w], "none", Engines) : w \in {1, 30, 100}}
      \cup {Ask([Document("heic", "heic") EXCEPT !.streams = Streams(Video, <<"hevc", "hevc">>)],
                To("png"), "none", Engines)}

Movie == <<Stream(Video, "h264"), Stream(Audio, "aac")>>
Sound(codec) == <<Stream(Audio, codec)>>
CleanFiles ==
    {<<"mp4", Movie>>, <<"mkv", Movie>>, <<"mkv", Append(Movie, Stream(Subtitle, "subrip"))>>,
     <<"webm", <<Stream(Video, "vp9")>>>>, <<"m4a", Sound("aac")>>, <<"m4a", Sound("alac")>>,
     <<"mp3", Sound("mp3")>>, <<"mp3", Append(Sound("mp3"), Stream(Video, "png"))>>,
     <<"wav", Sound("pcm_s16le")>>, <<"wav", Sound("pcm_s24le")>>, <<"ogg", Sound("vorbis")>>,
     <<"aac", Sound("aac")>>, <<"gif", <<Stream(Video, "gif")>>>>,
     <<"webp", <<Stream(Video, "webp")>>>>, <<"avif", Streams(Video, <<"av1", "av1">>)>>}

CleanCases ==
    {Ask([Media(n[1], n[2], m) EXCEPT !.keys = k], [To(n[1]) EXCEPT !.overInput = o],
         "metadata-clean", Engines) :
        n \in CleanFiles, m \in {Unset, 4000}, o \in BOOLEAN,
        k \in {{}, {"title", "location"}, {"title", "artist-*"}}}
      \cup {Ask([Document("png", "png") EXCEPT !.keys = {"location"}, !.alpha = TRUE,
                    !.streams = <<Stream(Video, "png")>>], To("png"), "metadata-clean", Engines),
             Ask([Media("mkv", Movie, 4000) EXCEPT !.keys = {"location"}],
                 [To("mp4") EXCEPT !.ext = "mkv"], "metadata-clean", Engines)}

-----------------------------------------------------------------------------
(* PDF.                                                                    *)

Pages(n) == [i \in 1..n |-> Page(i)]
Pdf(pages, lock) == [Document("pdf", "pdf") EXCEPT !.pages = pages, !.lock = lock]
Sideways == <<Page(1), [Page(2) EXCEPT !.rot = 90]>>
Scanned == <<[Page(1) EXCEPT !.text = FALSE]>>

Documents ==
    {Pdf(Pages(n), "none") : n \in 0..7}
      \cup {Pdf(Pages(2), "pw"), Pdf(Pages(2), "pw "), Pdf(Sideways, "none"), Pdf(Scanned, "none"),
            Pdf(<<[Page(1) EXCEPT !.w = 2000, !.h = 10]>>, "none"),
            Pdf(<<[Page(1) EXCEPT !.h = 0]>>, "none"),
            [Pdf(Pages(2), "none") EXCEPT !.trailer = FALSE], [Pdf(Pages(1), "none") EXCEPT !.title = "cjk"],
            [Pdf(Pages(2), "none") EXCEPT !.semicolon = TRUE]}

Passwords == {"none", "", " ", "pw", "pw ", "wrong"}

RenderRequests ==
    {[To(t) EXCEPT !.password = p] : t \in {"jpg", "png", "md"}, p \in Passwords}
      \cup {[To("png") EXCEPT !.dpi = d, !.color = c] : d \in {35, 36, 600, 601}, c \in {"rgb", "gray", "cmyk"}}
      \cup {[To("jpg") EXCEPT !.quality = q] : q \in {0, 1, 100, 101}}

Ranges == {<<>>, <<<<1, 2>>>>, <<<<2, 2>>, <<1, 1>>>>, <<<<1, 1>>, <<1, 2>>>>, <<<<2, 1>>>>,
           <<<<0, 1>>>>, <<<<2, 4>>>>}

Operations ==
    {<<"pdf-compress", To("pdf")>>}
      \cup {<<"pdf-merge", [To("pdf") EXCEPT !.more = m]>> :
              m \in {<<>>, <<Pdf(Pages(2), "none")>>, <<Pdf(Pages(2), "pw")>>,
                     <<Pdf(Pages(3), "none"), [Pdf(Pages(1), "none") EXCEPT !.semicolon = TRUE]>>}}
      \cup {<<"pdf-extract", [To("pdf") EXCEPT !.range = "set", !.parts = p]>> : p \in Ranges}
      \cup {<<"pdf-extract", To("pdf")>>}
      \cup {<<"pdf-rotate", [To("pdf") EXCEPT !.angle = a, !.range = r, !.parts = <<<<2, 2>>>>]>> :
              a \in {Unset, 45, 90, 270}, r \in {"set"}}
      \cup {<<"pdf-rotate", [To("pdf") EXCEPT !.angle = 180]>>}
      \cup {<<op, [To("pdf") EXCEPT !.password = p]>> :
              op \in {"pdf-encrypt", "pdf-decrypt"}, p \in Passwords}
      \cup {<<op, [To("pdf") EXCEPT !.text = x, !.angle = a]>> : op \in {"pdf-watermark", "pdf-metadata"},
              x \in {"none", " ", "plain", "long", "cjk"}, a \in {Unset, 180, 181}}
      \cup {<<"pdf-ocr", [To("txt") EXCEPT !.language = l]>> : l \in {"none", "chi_sim", "e-n"}}

PdfCases ==
    {Ask(f, r, "none", Engines) : f \in Documents, r \in RenderRequests}
      \cup {Ask(f, o[2], o[1], Engines) : f \in Documents, o \in Operations}

-----------------------------------------------------------------------------
(* Data.                                                                   *)

Value(kind, text) == [kind |-> kind, text |-> text]
X == Value("string", "x")
Tables ==
    {<<>>, <<[a |-> X]>>, <<[a |-> X, b |-> X], [a |-> X]>>, <<[a |-> Value("number", "1"), b |-> X]>>,
     <<[a |-> Value("null", "null")]>>, <<[a |-> Value("nested", "x")]>>, <<"[x" :> X>>, <<"2y" :> X>>,
     <<[a |-> X], [a |-> Value("string", "y")]>>}
OfText(container, records) ==
    IF container = "csv"
    THEN [i \in DOMAIN records |-> [k \in Fields(records) |-> IF k \in DOMAIN records[i]
            THEN Value("string", records[i][k].text) ELSE Value("string", "")]]
    ELSE records
Flaws == {"none", "duplicate", "attribute", "dtd", "malformed"}

DataCases ==
    {Ask(Containing(c, [records |-> OfText(c, t), flaw |-> w]), [To(x) EXCEPT !.lossyData = l], "none", Engines) :
        c \in DataFormats, x \in DataFormats, t \in Tables, w \in Flaws, l \in BOOLEAN}

Inside ==
    {<<>>, <<Entry("f", 1)>>, <<Entry("f", 1), Entry("g", 1)>>, <<Entry("f", 0), Entry("g", 0)>>,
     <<Entry("f", 1), Entry("g", 0)>>, <<Entry("f", 1), Entry("f", 1)>>, <<Entry("f", 5)>>,
     <<Entry("f", 1), Entry("g", 1), Entry("h", 1), Entry("i", 1)>>, <<Entry("w\\x", 1)>>,
     <<[Entry("d", 0) EXCEPT !.kind = "dir"]>>, <<[Entry("d/", 0) EXCEPT !.kind = "dir"], Entry("f", 1)>>,
     <<[Entry("f", 0) EXCEPT !.kind = "link"]>>, <<[Entry("f", 1) EXCEPT !.kind = "locked"]>>}
      \cup {<<Entry(n, 1)>> : n \in UnsafeNames}

\* a ZIP marks a directory by its slash, and only its entries are locked; only a tar has links
Holds(container, entry) ==
    CASE container = "zip" -> entry.kind # "link" /\ entry.name # "d"
      [] container = "tar.gz" -> entry.kind # "locked"
      [] OTHER -> entry.kind \in {"file", "dir"}

ArchiveCases ==
    UNION {{Ask(Containing(c, [entries |-> e, solid |-> s]), To(t), "none", Engines) :
            t \in ArchiveFormats, s \in BOOLEAN,
            e \in {x \in Inside : \A i \in DOMAIN x : Holds(c, x[i])}} : c \in ArchiveFormats}

-----------------------------------------------------------------------------
(* Mail.                                                                   *)

\* the parts of a message are alternatives: they say the same
Parts == {<<>>, <<<<>>>>, <<<<"x">>>>, <<<<"x">>, <<"y">>>>}
HtmlParts == {<<>>, <<<<"x">>>>, <<<<"x", "amp", "y">>>>, <<<<"x", "script">>>>, <<<<"comment", "x">>>>,
          <<<<"x", "link">>>>, <<<<"x">>, <<"y">>>>}
Addressed == {<<TRUE, TRUE>>, <<TRUE, FALSE>>, <<FALSE, TRUE>>}

MessageCases ==
    {Ask(Containing(c, [mails |-> <<[Message(a[1], a[2], p, h) EXCEPT !.transport = v]>>]), To(t), "none", Engines) :
        c \in {"eml", "msg"}, a \in Addressed, p \in Parts, h \in HtmlParts, v \in BOOLEAN,
        t \in {"txt", "html", "md"}}

Quotable == {<<<<"x">>>>, <<<<"x", "From", "y">>>>, <<<<"x", "From">>>>, <<<<"x", ">From">>>>}
Enveloped ==
    {[Message(TRUE, TRUE, p, <<>>) EXCEPT !.quoted = q, !.length = n] :
        p \in Quotable, q \in BOOLEAN, n \in {"none", "right", "wrong"}}
Letters == {Letter, Message(TRUE, TRUE, <<<<"x">>>>, <<<<"x", "amp">>>>),
            Message(TRUE, TRUE, <<>>, <<<<"x", "link">>>>), Message(FALSE, FALSE, <<>>, <<<<"y">>>>)}

MailboxCases ==
    {Ask(Containing("mbox", [mails |-> m]), To(t), "none", Engines) :
        m \in {<<>>, <<Letter, Letter, Letter, Letter>>} \cup {<<x>> : x \in Letters}
              \cup {<<x, y>> : x \in Enveloped, y \in Enveloped \cup Letters},
        t \in {"txt", "pdf"}}

-----------------------------------------------------------------------------
(* Documents.                                                              *)

Texts ==
    {[words |-> w, hidden |-> h, external |-> e, active |-> "none", sheets |-> <<>>] :
        w \in {<<>>, <<"x">>, <<"x", "split", "y">>, <<"x", "y", "z", "x">>},
        h \in {<<>>, <<"u">>, <<"u", "v", "w">>}, e \in BOOLEAN}
Workbooks ==
    {[Words(<<"x">>) EXCEPT !.sheets = s, !.active = a] :
        s \in {<<>>, <<0>>, <<2>>, <<0, 2>>, <<1, 2>>}, a \in {"none", "macros", "links", "huge"}}

DocumentCases ==
    {Ask(Containing(c, x), To(t), "none", Engines \ m) :
        c \in {"html", "svg", "md", "txt", "docx"}, x \in Texts,
        t \in {"pdf", "docx", "epub", "txt", "md", "html"}, m \in {{}, {"msedge"}}}
      \cup {Ask(Containing(c, x), To(t), "none", Engines) :
               c \in {"docx", "odt", "xlsx", "rtf"}, x \in Workbooks, t \in {"pdf", "docx", "odt", "csv"}}
      \cup {Ask(Containing(c, Words(w)), [To(t) EXCEPT !.language = l], "none", Engines) :
               c \in {"png", "tiff", "jpg"}, w \in {<<>>, <<"x">>}, t \in {"pdf", "txt"},
               l \in {"none", "e-n"}}

AllCases ==
    [routes |-> RouteCases, movies |-> MovieCases, gifs |-> GifCases, sounds |-> SoundCases,
     pictures |-> PictureCases, cleaning |-> CleanCases, pdfs |-> PdfCases, data |-> DataCases,
     archives |-> ArchiveCases, messages |-> MessageCases, mailboxes |-> MailboxCases,
     documents |-> DocumentCases]
=============================================================================
