-------------------------------- MODULE Routes --------------------------------
(***************************************************************************)
(* Which conversions are offered and which lane serves them.               *)
(*                                                                         *)
(* The same question is answered three times in the code: by the snapshot  *)
(* that the user interface shows (crates/core/src/capabilities.rs), by     *)
(* prepare_conversion, which inspects the input and makes the plan         *)
(* (crates/core/src/workflow.rs), and by execute_plan_observed, which      *)
(* selects an adapter from the plan (crates/core/src/runner.rs).  The      *)
(* first looks at the extension, the second at extension and content, the  *)
(* third at the plan's first step.                                         *)
(*                                                                         *)
(* Extensions that are treated alike are one name: office (pptx, ods, odp, *)
(* rtf), flat (csv, json, yaml, xml), text (md, txt), raster (png, jpg),   *)
(* tiff (tiff, bmp), raw (psd and the camera formats), video, audio.       *)
(***************************************************************************)
EXTENDS Naturals, Sequences, FiniteSets

SupportedTargets ==
    [flat   |-> {"csv", "json", "yaml", "xml"},
     pdf    |-> {"jpg", "png", "md"},
     heic   |-> {"jpg", "png"},
     docx   |-> {"pdf", "txt", "md", "html", "epub", "odt"},
     odt    |-> {"pdf", "docx"},
     xlsx   |-> {"pdf", "csv"},
     office |-> {"pdf"},
     svg    |-> {"pdf"},
     html   |-> {"pdf", "docx", "epub", "md"},
     text   |-> {"pdf", "docx", "epub"},
     zip    |-> {"tar.gz", "7z"},
     targz  |-> {"zip", "7z"},
     sevenz |-> {"zip", "tar.gz"},
     eml    |-> {"txt", "html", "md"},
     msg    |-> {"txt", "html", "md"},
     mbox   |-> {"txt", "html", "pdf", "md"},
     raster |-> {"webp", "avif", "tiff", "bmp", "pdf", "txt", "md"},
     tiff   |-> {"webp", "avif", "png", "pdf", "txt", "md"},
     raw    |-> {"png", "jpg", "tiff"},
     video  |-> {"mp4", "gif", "mp3"},
     audio  |-> {"m4a", "mp3", "wav"},
     other  |-> {}]

\* the class of a file extension, and of the content that such a file should have
ClassMembers ==
    [flat |-> {"csv", "json", "yaml", "xml"}, heic |-> {"heic"}, office |-> {"rtf"},
     text |-> {"md", "txt"},
     targz |-> {"tar.gz"}, sevenz |-> {"7z"}, raster |-> {"png", "jpg", "jpeg"},
     tiff |-> {"tiff", "bmp"}, raw |-> {"psd", "dng"},
     video |-> {"mp4", "mov", "mkv", "webm"},
     audio |-> {"mp3", "m4a", "wav", "flac", "ogg", "opus", "aac"},
     other |-> {"webp", "avif", "gif"}]

ClassOf(name) ==
    IF \E c \in DOMAIN ClassMembers : name \in ClassMembers[c]
    THEN CHOOSE c \in DOMAIN ClassMembers : name \in ClassMembers[c] ELSE name

Engines == {"ffprobe", "ffmpeg", "pdfinfo", "pdftoppm", "pdftotext", "pdffonts", "soffice",
            "pandoc", "msedge", "heif-dec", "magick", "tesseract", "qpdf"}

BrowserPrintLane == {"msedge", "pdfinfo", "pdftoppm", "pdftotext", "pdffonts"}
MarkupLane == {"pandoc", "soffice", "pdfinfo", "pdftoppm"}
OfficeLane == {"soffice", "pdfinfo", "pdftoppm"}

Markup == {"html", "text"}
Archives == {"zip", "targz", "sevenz"}
MailTargets == {"txt", "html", "md"}
OfficeInputs == {"docx", "odt", "xlsx", "office"}
RasterInputs == {"raster", "tiff"}

\* required_engines: first match wins
RequiredEngines(ext, t) ==
    IF ext = "flat" \/ ext \in Archives THEN {}
    ELSE IF ext \in {"eml", "msg", "mbox"} /\ t \in MailTargets THEN {}
    ELSE IF ext = "mbox" /\ t = "pdf" THEN BrowserPrintLane \cup {"qpdf"}
    ELSE IF ext = "pdf" /\ t \in {"jpg", "png"} THEN {"pdfinfo", "pdftoppm", "ffprobe"}
    ELSE IF ext = "pdf" /\ t = "md" THEN {"pdftotext"}
    ELSE IF ext = "docx" /\ t \in {"txt", "md", "html", "epub"} THEN {"pandoc"}
    ELSE IF ext = "xlsx" /\ t = "csv" THEN {}
    ELSE IF ext = "html" /\ t = "md" THEN {"pandoc"}
    ELSE IF <<ext, t>> \in {<<"docx", "odt">>, <<"odt", "docx">>} THEN {"soffice"}
    ELSE IF ext \in OfficeInputs /\ t = "pdf" THEN OfficeLane
    ELSE IF ext \in Markup /\ t \in {"docx", "epub"} THEN {"pandoc"}
    ELSE IF ext \in {"html", "svg"} /\ t = "pdf" THEN BrowserPrintLane
    ELSE IF ext = "text" /\ t = "pdf" THEN MarkupLane
    ELSE IF ext \in RasterInputs /\ t = "pdf" THEN OfficeLane
    ELSE IF ext = "heic" THEN {"ffprobe", "heif-dec"}
    ELSE IF ext = "raw" THEN {"magick", "ffprobe"}
    ELSE IF ext \in RasterInputs /\ t \in {"txt", "md"} THEN {"ffprobe", "tesseract"}
    ELSE {"ffprobe", "ffmpeg"}

\* route_engine_lanes: only a page of HTML has a second lane
RouteEngineLanes(ext, t) ==
    IF ext = "html" /\ t = "pdf" THEN {BrowserPrintLane, MarkupLane}
    ELSE {RequiredEngines(ext, t)}

\* capability_snapshot_for_input: the targets that are shown as available
AvailableTargets(ext, have) ==
    {t \in SupportedTargets[ext] : \E lane \in RouteEngineLanes(ext, t) : lane \subseteq have}

\* ensure_route_available
EnsureRouteAvailable(ext, t, have) ==
    IF t \notin SupportedTargets[ext] THEN "Unsupported"
    ELSE IF t \in AvailableTargets(ext, have) THEN "available"
    ELSE "EngineMissing"

-----------------------------------------------------------------------------
(* prepare_conversion.  The content of a file is named like the extension  *)
(* that it should have.                                                    *)

Lane(adapter, step, engines) == [adapter |-> adapter, step |-> step, engines |-> engines]

Builtin == {"anole.structured", "anole.office-csv", "anole.archive", "anole.eml", "anole.msg",
            "anole.mbox"}

\* document_format_hint: a page that begins like HTML or SVG is one; the extension decides else
DocumentFormat(ext, content) ==
    IF content \in {"html", "svg"} THEN content ELSE ext

\* print in the browser, or through Pandoc and the office when the page is HTML
DocumentToPdf(ext, content, have) ==
    LET format == DocumentFormat(ext, content)
    IN IF format \in {"html", "svg"} /\ BrowserPrintLane \subseteq have
       THEN Lane("EdgePrint", "msedge", BrowserPrintLane)
       ELSE IF format = "svg" THEN Lane("EdgePrint", "msedge", BrowserPrintLane)
       ELSE Lane("MarkupPdf", "pandoc", MarkupLane)

\* Raster content decides what ffprobe finds, whatever the extension says.
MediaLane(content, t) ==
    IF content = "heic" /\ t \in {"jpg", "png"}
    THEN Lane("Heif", "heif-dec", {"ffprobe", "heif-dec"})
    ELSE Lane("Ffmpeg", "ffmpeg", {"ffprobe", "ffmpeg"})

\* the branches of prepare_conversion in their order
LaneOf(ext, content, t, have) ==
    IF t = "csv" /\ content = "xlsx" THEN Lane("OfficeCsv", "anole.office-csv", {})
    ELSE IF t \in {"csv", "json", "yaml", "xml"} THEN Lane("Structured", "anole.structured", {})
    ELSE IF t \in {"zip", "tar.gz", "7z"} THEN Lane("Archive", "anole.archive", {})
    ELSE IF t \in {"docx", "odt"} /\ content \in {"docx", "odt"} /\ content # t
        THEN Lane("OfficeExchange", "soffice", {"soffice"})
    ELSE IF /\ t \in {"txt", "md", "html", "epub"} /\ ext \in {"docx", "html"}
            /\ DocumentFormat(ext, content) \in {"docx", "html"}
        THEN Lane("Pandoc", "pandoc", {"pandoc"})
    ELSE IF ext = "mbox"
        THEN IF t = "pdf" THEN Lane("MboxPdf", "anole.mbox", {"qpdf"})
             ELSE Lane("MboxText", "anole.mbox", {})
    ELSE IF ext = "msg" THEN Lane("Msg", "anole.msg", {})
    ELSE IF ext = "eml" THEN Lane("Eml", "anole.eml", {})
    ELSE IF t = "md" /\ content = "pdf"
        THEN Lane("Pdftotext", "pdftotext", {"pdfinfo", "pdftotext"})
    ELSE IF t \in {"txt", "md"} /\ ext \in RasterInputs
        THEN Lane("ImageOcr", "tesseract", {"ffprobe", "tesseract"})
    ELSE IF t \in {"docx", "epub"} THEN Lane("Pandoc", "pandoc", {"pandoc"})
    ELSE IF t = "pdf" /\ content \in OfficeInputs THEN Lane("OfficePdf", "soffice", OfficeLane)
    ELSE IF t = "pdf" /\ ext \in RasterInputs
        THEN Lane("OfficePdf", "soffice", OfficeLane \cup {"ffprobe"})
    ELSE IF t = "pdf" /\ ext \in Markup \cup {"svg"} THEN DocumentToPdf(ext, content, have)
    ELSE IF t \in {"jpg", "png", "tiff"} /\ ext = "raw"
        THEN Lane("Magick", "magick", {"magick", "ffprobe"})
    ELSE IF content = "pdf" THEN Lane("PdfRender", "pdftoppm", {"pdfinfo", "pdftoppm", "ffprobe"})
    ELSE MediaLane(content, t)

\* prepare_pdf_operation
PdfOperations == {"pdf-merge", "pdf-extract", "pdf-rotate", "pdf-compress", "pdf-encrypt",
                  "pdf-decrypt", "pdf-watermark", "pdf-ocr", "pdf-metadata"}

OperationLane(op) ==
    IF op = "pdf-ocr"
    THEN Lane("PdfOcr", "tesseract", {"pdfinfo", "qpdf", "pdftoppm", "tesseract"})
    ELSE Lane(IF op = "pdf-metadata" THEN "PdfMetadata" ELSE "PdfOps", "qpdf",
              {"pdfinfo", "qpdf"})

\* how a request ends that is not planned for want of a route or an engine
RouteRefusal(ext, content, t, op, have) ==
    LET gate == IF op = "none" THEN EnsureRouteAvailable(ext, t, have) ELSE "available"
        lane == IF op = "none" THEN LaneOf(ext, content, t, have) ELSE OperationLane(op)
    IN IF gate # "available" THEN gate
       ELSE IF lane.engines \subseteq have THEN "accepted" ELSE "EngineMissing"

Prepare(ext, content, t, op, have) ==
    IF op = "none" THEN LaneOf(ext, content, t, have) ELSE OperationLane(op)

-----------------------------------------------------------------------------
(* execute_plan_observed selects by the first step of the plan.            *)

\* (mutant) Everything that Pandoc makes goes to the adapter of its exports.
AdapterForPandocFirst(step, target, op) ==
    IF step = "pandoc" THEN "Pandoc"
    ELSE IF op # "none" THEN (IF op = "pdf-metadata" THEN "PdfMetadata"
                              ELSE IF op = "pdf-ocr" THEN "PdfOcr" ELSE "PdfOps")
    ELSE "Ffmpeg"

\* The operation argument is tested first, and inside that adapter by name.
AdapterFor(step, target, op) ==
    IF op # "none"
    THEN IF op = "pdf-metadata" THEN "PdfMetadata"
         ELSE IF op = "pdf-ocr" THEN "PdfOcr" ELSE "PdfOps"
    ELSE IF step = "tesseract" THEN "ImageOcr"
    ELSE IF step = "anole.eml" THEN "Eml"
    ELSE IF step = "anole.msg" THEN "Msg"
    ELSE IF step = "anole.mbox" THEN IF target = "pdf" THEN "MboxPdf" ELSE "MboxText"
    ELSE IF step = "anole.archive" THEN "Archive"
    ELSE IF step = "anole.office-csv" THEN "OfficeCsv"
    ELSE IF step = "anole.structured" THEN "Structured"
    ELSE IF step = "heif-dec" THEN "Heif"
    ELSE IF step = "magick" THEN "Magick"
    ELSE IF step = "pdftotext" /\ target = "md" THEN "Pdftotext"
    ELSE IF step = "pandoc" THEN IF target = "pdf" THEN "MarkupPdf" ELSE "Pandoc"
    ELSE IF step = "soffice" THEN IF target = "pdf" THEN "OfficePdf" ELSE "OfficeExchange"
    ELSE IF step = "msedge" THEN "EdgePrint"
    ELSE IF step = "pdftoppm" THEN "PdfRender"
    ELSE "Ffmpeg"

\* The engines that an adapter starts or asks, besides the steps of the plan.
AtExecution(adapter, op) ==
    CASE adapter = "PdfOps" /\ op = "pdf-watermark" -> {"pdfinfo", "qpdf", "pdftotext"}
      [] adapter = "MboxPdf" -> {"qpdf", "pdfinfo", "pdftotext"}
      [] OTHER -> {}
=============================================================================
