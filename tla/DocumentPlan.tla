---------------------------- MODULE DocumentPlan ----------------------------
(***************************************************************************)
(* The lanes of text and office documents as functions: Pandoc             *)
(* (crates/core/src/document.rs), the office suite (office.rs), the print  *)
(* of a browser (edge_pdf.rs) and the recognition of text in a picture     *)
(* (ocr.rs).                                                               *)
(*                                                                         *)
(* The body of a document is its words, what else the inspector counts as  *)
(* text though no reader sees it (scripts, style sheets, the targets of    *)
(* Markdown links), whether it refers to other files, what makes an office *)
(* package active, and the rows of each sheet of a workbook.  The word     *)
(* "split" has markup or an entity in its middle.                          *)
(***************************************************************************)
EXTENDS MediaPlan

OfficeAdapters == {"OfficePdf", "OfficeExchange", "OfficeCsv"}
DocumentAdapters == {"Pandoc", "MarkupPdf", "EdgePrint", "ImageOcr"} \cup OfficeAdapters

Text(f) == f.body[1]

\* ensure_image_probe, and the same list in plan_image_to_pdf
Pictures == {"png", "jpeg", "tiff", "bmp"}

-----------------------------------------------------------------------------
(* Inspection.                                                             *)

Packages == {"docx", "odt", "xlsx", "zip"}
TextFiles == {"html", "svg", "md", "txt", "csv", "rtf"}

\* document_format_hint: the first bytes, then the extension
DocumentHint(f) ==
    IF f.container \in {"html", "svg", "epub"} THEN f.container
    ELSE IF f.container \in Packages THEN "docx"
    ELSE CASE f.ext = "md" -> "markdown"
           [] f.ext = "txt" -> "plain"
           [] f.ext \in {"html", "svg", "docx", "epub"} -> f.ext
           [] OTHER -> "none"

\* inspect_document: a package must have the parts of its format, other text must be UTF-8
InspectDocument(f) ==
    LET hint == DocumentHint(f)
    IN IF hint = "none" THEN "Unsupported"
       ELSE IF IF hint \in {"docx", "epub"} THEN f.container # hint ELSE f.container \notin TextFiles
         THEN "InputInvalid"
       ELSE "accepted"

\* a document that is read has words in order, and a picture that is looked at
DocumentFile(f) ==
    InspectDocument(f) = "accepted" \/ f.container \in Pictures =>
        Text(f).words \in Seq(STRING) /\ Text(f).hidden \in Seq(STRING)

\* normalized_tokens of html_text, docx_text or the file itself: a DOCX joins the runs of a
\* word, HTML and Markdown are split where the markup is
Tokens(f) ==
    FlattenSeq([i \in DOMAIN Text(f).words |->
                  IF Text(f).words[i] = "split" /\ f.container # "docx" THEN <<"sp", "lit">>
                  ELSE <<Text(f).words[i]>>])
      \o Text(f).hidden

\* inspect_package: the limits first, then macros and embedded objects, then relationships
PackageRefusal(f) ==
    IF Text(f).active = "none" THEN "accepted"
    ELSE IF Text(f).active = "huge" THEN "ResourceExhausted" ELSE "PolicyBlocked"

\* inspect_office: RTF has an envelope only
InspectOffice(f) == IF f.container = "rtf" THEN "accepted" ELSE PackageRefusal(f)

-----------------------------------------------------------------------------
(* Plans.                                                                  *)

DocumentPlanOf(lane, f, r, loss, source) ==
    PlanOfStep(lane, r.target, "document", loss, [source |-> source])

MarkupFormats == {"markdown", "html", "plain"}

\* plan_markup_export serves DOCX and HTML; plan_markup_to_docx and plan_markup_to_epub the rest
ExportsFrom(f, hint, target) ==
    /\ target \in {"txt", "md", "html", "epub"}
    /\ f.ext \in {"docx", "html"} /\ hint \in {"docx", "html"}

PlanPandoc(lane, f, r) ==
    LET hint == DocumentHint(f)
        refusal == Refusal(<<
            <<InspectDocument(f) # "accepted", InspectDocument(f)>>,
            <<~ExportsFrom(f, hint, r.target) /\ hint \notin MarkupFormats, "Unsupported">>,
            <<hint # "docx" /\ Text(f).external, "PolicyBlocked">> >>)
    IN IF refusal # "accepted" THEN Refused(refusal) ELSE DocumentPlanOf(lane, f, r, "unknown", hint)

PlanPrintOf(lane, f, r, sources, loss) ==
    LET refusal == Refusal(<<
            <<InspectDocument(f) # "accepted", InspectDocument(f)>>,
            <<DocumentHint(f) \notin sources, "Unsupported">>,
            <<Text(f).external, "PolicyBlocked">> >>)
    IN IF refusal # "accepted" THEN Refused(refusal)
       ELSE DocumentPlanOf(lane, f, r, loss, DocumentHint(f))

\* plan_markup_to_pdf
PlanMarkupPdf(lane, f, r) == PlanPrintOf(lane, f, r, MarkupFormats, "unknown")

\* plan_edge_print_to_pdf
PlanEdgePrint(lane, f, r) == PlanPrintOf(lane, f, r, {"html", "svg"}, "none")

PlanOfficeOf(lane, f, r, loss) ==
    IF InspectOffice(f) # "accepted" THEN Refused(InspectOffice(f))
    ELSE DocumentPlanOf(lane, f, r, loss, f.container)

PlanOfficePdf(lane, f, r) == PlanOfficeOf(lane, f, r, "unknown")
PlanOfficeExchange(lane, f, r) == PlanOfficeOf(lane, f, r, "unknown")
PlanOfficeCsv(lane, f, r) == PlanOfficeOf(lane, f, r, "lossy")

PlanImagePdf(lane, f, r) ==
    LET p == InspectMedia(f)
    IN IF p.format \notin Pictures THEN Refused("Unsupported")
       ELSE DocumentPlanOf(lane, f, r, "none", p.format)

\* plan_image_ocr
PlanImageOcr(lane, f, r) ==
    LET p == InspectMedia(f)
        refusal == Refusal(<< <<p.format \notin Pictures, "Unsupported">>,
                              <<r.language = "e-n", "InputInvalid">> >>)
    IN IF refusal # "accepted" THEN Refused(refusal)
       ELSE DocumentPlanOf(lane, f, r, "lossy", p.format)

OfficeFiles == {"docx", "odt", "xlsx", "rtf"}

PlanDocument(lane, f, r) ==
    CASE lane.adapter = "Pandoc" -> PlanPandoc(lane, f, r)
      [] lane.adapter = "MarkupPdf" -> PlanMarkupPdf(lane, f, r)
      [] lane.adapter = "EdgePrint" -> PlanEdgePrint(lane, f, r)
      [] lane.adapter = "OfficeCsv" -> PlanOfficeCsv(lane, f, r)
      [] lane.adapter = "OfficeExchange" -> PlanOfficeExchange(lane, f, r)
      [] lane.adapter = "OfficePdf" ->
            IF f.container \in OfficeFiles THEN PlanOfficePdf(lane, f, r) ELSE PlanImagePdf(lane, f, r)
      [] OTHER -> PlanImageOcr(lane, f, r)

-----------------------------------------------------------------------------
(* Engines that do as they are told (external, but for the CSV export).    *)

\* what a standalone document of Pandoc has besides the words: a style sheet, a table of contents
Furniture(target) ==
    CASE target = "html" -> <<"style">> [] target = "epub" -> <<"contents">> [] OTHER -> <<>>

\* convert_xlsx_to_csv_sheets refuses a workbook without sheets
DocumentWrites(f, plan) == plan.lane = "OfficeCsv" => Text(f).sheets # <<>>

DocumentOutput(f, plan, ext) ==
    CASE plan.lane = "OfficeCsv" ->
            [container |-> "directory", ext |-> ext, body |-> << [sheets |-> Text(f).sheets] >>]
      [] plan.target = "pdf" ->
            [container |-> "pdf", ext |-> ext,
             body |-> << [words |-> Text(f).words, pages |-> 1, rendered |-> 1, embedded |-> TRUE] >>]
      [] OTHER ->
            [container |-> plan.target, ext |-> plan.target,
             body |-> << [words |-> Text(f).words, hidden |-> Furniture(plan.target)] >>]

DocumentDamages == {"emptied", "altered", "wrong format", "page lost", "not embedded"}

DocumentDamage(o, d) ==
    LET has(field) == field \in DOMAIN Text(o)
    IN CASE d = "emptied" /\ has("words") -> [o EXCEPT !.body[1].words = <<>>]
         [] d = "emptied" /\ has("sheets") -> [o EXCEPT !.body[1].sheets = Front(@)]
         [] d = "altered" /\ has("words") /\ Text(o).words # <<>> -> [o EXCEPT !.body[1].words[1] = "other"]
         [] d = "altered" /\ has("sheets") -> [o EXCEPT !.body[1].sheets[1] = @ + 1]
         [] d = "wrong format" /\ o.container # "directory" ->
                [o EXCEPT !.container = IF @ \in {"txt", "md"} THEN "html" ELSE "broken"]
         [] d = "page lost" /\ has("pages") -> [o EXCEPT !.body[1].rendered = 0]
         [] d = "not embedded" /\ has("embedded") -> [o EXCEPT !.body[1].embedded = FALSE]
         [] OTHER -> o

-----------------------------------------------------------------------------
(* Validation.                                                             *)

\* validate_docx_output: the words in their order, as the inspector reads them
DocxFails(f, o) ==
    InspectDocument(o) # "accepted" \/ DocumentHint(o) # "docx" \/ Tokens(o) # Tokens(f)

\* validate_epub_output (four fifths of the text) and validate_text_export_output (some text)
ExportOfPandocFails(f, o, target) ==
    \/ InspectDocument(o) # "accepted"
    \/ IF target = "epub" THEN DocumentHint(o) # "epub" \/ Len(Tokens(o)) * 10 < Len(Tokens(f)) * 8
       ELSE Tokens(o) = <<>>

\* the DOCX that execute_markup_pdf_plan makes on its way
Intermediate(f) ==
    [container |-> "docx", ext |-> "docx", body |-> << [words |-> Text(f).words, hidden |-> <<>>] >>]

\* validate_office_pdf_output: it opens and every page renders
PagesFail(o) ==
    o.container # "pdf" \/ Text(o).pages = 0 \/ Text(o).rendered # Text(o).pages

\* validate_edge_pdf_output: besides, there is text when the input has some, and its fonts
PrintFails(f, o) ==
    \/ PagesFail(o)
    \/ Tokens(f) # <<>> /\ Text(o).words = <<>>
    \/ ~Text(o).embedded

\* validate_office_csv_output: a file for every sheet and a row in one of them
SheetsFail(f, o) ==
    \/ Len(Text(o).sheets) # Len(Text(f).sheets)
    \/ \A i \in DOMAIN Text(o).sheets : Text(o).sheets[i] = 0

ValidateDocument(f, o, plan) ==
    LET fails == CASE plan.lane = "Pandoc" /\ plan.target = "docx" -> DocxFails(f, o)
                   [] plan.lane = "Pandoc" /\ plan.target # "docx" -> ExportOfPandocFails(f, o, plan.target)
                   [] plan.lane = "MarkupPdf" -> DocxFails(f, Intermediate(f)) \/ PagesFail(o)
                   [] plan.lane = "EdgePrint" -> PrintFails(f, o)
                   [] plan.lane = "OfficePdf" -> PagesFail(o)
                   [] plan.lane = "OfficeExchange" -> o.container # plan.target
                   [] plan.lane = "OfficeCsv" -> SheetsFail(f, o)
                   [] OTHER -> Text(o).words = <<>>
    IN IF fails THEN "fail"
       ELSE IF plan.lane \in {"OfficePdf", "OfficeExchange", "MarkupPdf"} THEN "warning" ELSE "pass"

-----------------------------------------------------------------------------
(* What the lanes are known not to do.                                     *)

\* Outputs that are as planned and are refused: a DOCX of a text with scripts, links or a word
\* with markup in it; an EPUB of a text of which a fifth is script; a print of a page that is all
\* script; an export without a word; and a workbook without a row.
DocumentHonestGaps(f, plan) ==
    LET text == Text(f)
    IN CASE plan.lane = "OfficeCsv" -> \A i \in DOMAIN text.sheets : text.sheets[i] = 0
         [] plan.lane = "MarkupPdf" \/ (plan.lane = "Pandoc" /\ plan.target = "docx") ->
                text.hidden # <<>> \/ "split" \in ToSet(text.words)
         [] plan.lane = "Pandoc" /\ plan.target = "epub" ->
                text.hidden # <<>> /\ 4 * Len(text.hidden) >= Len(text.words)
         [] plan.lane = "EdgePrint" -> text.words = <<>> /\ text.hidden # <<>>
         [] plan.lane = "ImageOcr" \/ (plan.lane = "Pandoc" /\ plan.target \in {"txt", "md"}) ->
                text.words = <<>>
         [] OTHER -> FALSE

\* Differences that no check looks at: the words but in a DOCX, if there are any where some are
\* asked for; the rows of a sheet; the fonts that the office suite embeds; and whether a text
\* export is text.
UncheckedDocument(o, obeyed, plan) ==
    LET words == "words" \in DOMAIN Text(o)
    IN \/ plan.lane = "OfficeCsv" /\ Len(Text(o).sheets) = Len(Text(obeyed).sheets)
       \/ plan.target \in {"txt", "md"} /\ Text(o) = Text(obeyed)
       \/ plan.lane \in {"OfficePdf", "MarkupPdf"} /\ o.container = "pdf"
            /\ Text(o).rendered = Text(obeyed).rendered
       \/ /\ words /\ o.container = obeyed.container
          /\ plan.target # "docx" \/ plan.lane = "OfficeExchange"
          /\ [Text(o) EXCEPT !.words = <<>>] = [Text(obeyed) EXCEPT !.words = <<>>]
          /\ Text(o).words # <<>> \/ plan.target \in {"html", "epub"} \/ plan.lane = "OfficeExchange"
=============================================================================
