------------------------------- MODULE PdfPlan -------------------------------
(***************************************************************************)
(* The PDF lanes as functions: what inspection and planning accept and     *)
(* write into a plan (crates/core/src/pdf.rs, ocr.rs), what an engine that *)
(* obeys the plan produces, and what the validators say of an output.      *)
(*                                                                         *)
(* A document is its lock ("none" or the password that opens it), its      *)
(* pages in order (a name, a size in points, a rotation, whether there is  *)
(* text on it, what is stamped on it), its title, whether its path has a   *)
(* semicolon in it and whether it ends with a trailer in clear text.       *)
(***************************************************************************)
EXTENDS MediaPlan

CONSTANTS MaxPdfPages,   \* MAX_PDF_PAGES
          TailPages      \* the pages whose details fit into 64 KiB of pdfinfo's output

\* the pages that the tail has room for are fewer than those that are allowed
ASSUME PagesAssumption == TailPages \in Nat \ {0} /\ MaxPdfPages \in Nat /\ TailPages <= MaxPdfPages

PdfAdapters == {"PdfRender", "PdfOps", "PdfMetadata", "PdfOcr", "Pdftotext"}

\* a document has a lock, a title and its pages in order
PdfFile(f) ==
    f.container = "pdf" =>
        /\ {"container", "lock", "pages", "title"} \subseteq DOMAIN f
        /\ f.pages \in Seq([name : Nat, w : Int, h : Int, rot : Nat, text : BOOLEAN, mark : STRING])

-----------------------------------------------------------------------------
(* Inspection.                                                             *)

\* bounded_text keeps the end of pdfinfo's output; parse_page_details wants every page in it
DetailsFit(pages) == Len(pages) <= TailPages

\* run_pdfinfo opens the document (external)
Opens(f, password) == f.lock \in {"none", password}

\* (mutant) What pdfinfo says of a locked document is not looked at.
InspectPdfAnyLock(f, password) ==
    Refusal(<<
        <<f.container # "pdf", "InputInvalid">>,
        <<Len(f.pages) \notin 1..MaxPdfPages, "ResourceExhausted">>,
        <<~DetailsFit(f.pages), "EngineIncompatible">> >>)

\* inspect_pdf and inspect_pdf_unlocked
InspectPdf(f, password) ==
    Refusal(<<
        <<f.container # "pdf", "InputInvalid">>,
        <<~Opens(f, password), IF password = "none" THEN "PolicyBlocked" ELSE "InputInvalid">>,
        <<f.pages = <<>>, "InputInvalid">>,
        <<Len(f.pages) > MaxPdfPages, "ResourceExhausted">>,
        <<~DetailsFit(f.pages), "EngineIncompatible">>,
        <<\E i \in DOMAIN f.pages : f.pages[i].w <= 0 \/ f.pages[i].h <= 0, "InputInvalid">> >>)

-----------------------------------------------------------------------------
(* Plans.                                                                  *)

Trim(text) == CASE text = "pw " -> "pw" [] text = " " -> "" [] OTHER -> text

\* points to pixels at a resolution, rounded up
Pixels(points, dpi) == (points * dpi + 71) \div 72

\* expected_dimensions: a page on its side is rendered on its side
ExpectedPage(page, dpi) ==
    IF page.rot \in {90, 270} THEN <<Pixels(page.h, dpi), Pixels(page.w, dpi)>>
    ELSE <<Pixels(page.w, dpi), Pixels(page.h, dpi)>>

MaxSide == 16384
MaxPixels == 100000000

\* a dimension must be at least one pixel before it is rounded up
SideFits(points, dpi) == points * dpi >= 72 /\ points * dpi <= MaxSide * 72

PlanPdfRender(lane, f, r) ==
    LET target == IF r.target = "jpg" THEN "jpeg" ELSE r.target
        dpi == IF r.dpi = Unset THEN 144 ELSE r.dpi
        quality == IF r.quality = Unset THEN 85 ELSE r.quality
        sizes == [i \in DOMAIN f.pages |-> ExpectedPage(f.pages[i], dpi)]
        refusal == Refusal(<<
            <<target \notin {"jpeg", "png"}, "Unsupported">>,
            <<dpi \notin 36..600, "InputInvalid">>,
            <<r.color \notin {"rgb", "gray"}, "InputInvalid">>,
            <<target = "jpeg" /\ quality \notin 1..100, "InputInvalid">>,
            <<target = "png" /\ r.quality # Unset, "InputInvalid">>,
            <<\E i \in DOMAIN f.pages : ~SideFits(f.pages[i].w, dpi) \/ ~SideFits(f.pages[i].h, dpi),
              "ResourceExhausted">>,
            <<\E i \in DOMAIN sizes : sizes[i][1] * sizes[i][2] > MaxPixels, "ResourceExhausted">> >>)
    IN IF refusal # "accepted" THEN Refused(refusal)
       ELSE PlanOfStep(lane, target, "render", IF target = "png" THEN "lossless" ELSE "lossy",
                [pages |-> Len(f.pages), dpi |-> dpi, color |-> r.color, sizes |-> sizes,
                 password |-> IF r.password \in {"none", ""} THEN "none" ELSE "[redacted]"])

\* plan_pdf_text_export: no password is written, whether one was needed or not
PlanPdfText(lane, f) ==
    PlanOfStep(lane, "md", "text", "lossy", [pages |-> Len(f.pages), password |-> "none"])

\* parse_page_range: the pages in the order in which they are named, repetitions included
PagesOfRange(parts) ==
    FlattenSeq([n \in DOMAIN parts |->
        [i \in 1..(parts[n][2] - parts[n][1] + 1) |-> parts[n][1] + i - 1]])

RangeRefusal(parts, count) ==
    IF parts # <<>> /\ \A i \in DOMAIN parts : /\ parts[i][1] \in 1..parts[i][2]
                                            /\ parts[i][2] <= count
    THEN "accepted" ELSE "InputInvalid"

\* the files of a merge, the first of them the input
MergeInputs(f, r) == <<f>> \o r.more

PagesOf(files) == FlattenSeq([i \in DOMAIN files |-> files[i].pages])

\* plan_pdf_merge, after its inputs were inspected
MergeRefusal(f, r) ==
    Refusal(<< <<r.more = <<>>, "Unsupported">>,
               <<Len(PagesOf(MergeInputs(f, r))) > MaxPdfPages, "ResourceExhausted">> >>)

\* plan_pdf_extract wants a range, plan_pdf_rotate takes all pages without one
ExtractRefusal(f, r) ==
    IF r.range = "unset" THEN "InputInvalid" ELSE RangeRefusal(r.parts, Len(f.pages))

RotateRefusal(f, r) ==
    IF r.angle \notin {90, 180, 270} THEN "InputInvalid"
    ELSE IF r.range = "unset" THEN "accepted" ELSE RangeRefusal(r.parts, Len(f.pages))

\* plan_pdf_secret_operation, for encryption and decryption
SecretRefusal(r) == IF Trim(r.password) \in {"none", ""} THEN "InputInvalid" ELSE "accepted"

\* plan_pdf_watermark: printable ASCII of bounded length, and an angle
WatermarkRefusal(r) ==
    Refusal(<< <<Trim(r.text) \in {"none", ""}, "InputInvalid">>,
               <<r.text \in {"long", "cjk"}, "InputInvalid">>,
               <<r.angle # Unset /\ r.angle > 180, "InputInvalid">> >>)

MetadataRefusal(r) == IF Trim(r.text) \in {"none", "", "long"} THEN "InputInvalid" ELSE "accepted"

\* normalize_ocr_language
LanguageRefusal(r) == IF r.language \in {"none", "eng", "chi_sim"} THEN "accepted" ELSE "InputInvalid"

OperationRefusal(f, r, op) ==
    CASE op = "pdf-merge" -> MergeRefusal(f, r)
      [] op = "pdf-extract" -> ExtractRefusal(f, r)
      [] op = "pdf-rotate" -> RotateRefusal(f, r)
      [] op \in {"pdf-encrypt", "pdf-decrypt"} -> SecretRefusal(r)
      [] op = "pdf-watermark" -> WatermarkRefusal(r)
      [] op = "pdf-metadata" -> MetadataRefusal(r)
      [] op = "pdf-ocr" -> LanguageRefusal(r)
      [] OTHER -> "accepted"

\* prepare_pdf_operation inspects the input, with the password to decrypt it, and every input of
\* a merge
OperationInspection(f, r, op) ==
    IF op = "pdf-merge"
    THEN LET files == MergeInputs(f, r)
             bad == {i \in DOMAIN files : InspectPdf(files[i], "none") # "accepted"}
         IN IF bad = {} THEN "accepted" ELSE InspectPdf(files[Min(bad)], "none")
    ELSE IF op \in {"pdf-encrypt", "pdf-decrypt"} /\ r.password = "none" THEN "InputInvalid"
    ELSE InspectPdf(f, IF op = "pdf-decrypt" THEN r.password ELSE "none")

PlanPdfOperation(lane, f, r, op) ==
    LET inspection == OperationInspection(f, r, op)
        refusal == IF inspection # "accepted" THEN inspection ELSE OperationRefusal(f, r, op)
        count == CASE op = "pdf-merge" -> Len(PagesOf(MergeInputs(f, r)))
                   [] op = "pdf-extract" -> Len(PagesOfRange(r.parts))
                   [] OTHER -> Len(f.pages)
    IN IF refusal # "accepted" THEN Refused(refusal)
       ELSE PlanOfStep(lane, IF op = "pdf-ocr" THEN "txt" ELSE "pdf", op,
                IF op = "pdf-ocr" THEN "lossy" ELSE "none",
                [expected |-> count,
                 parts |-> IF op \in {"pdf-extract", "pdf-rotate"} THEN r.parts ELSE <<>>,
                 angle |-> r.angle, text |-> Trim(r.text),
                 inputs |-> IF op = "pdf-merge" THEN MergeInputs(f, r) ELSE <<>>,
                 password |-> IF op \in {"pdf-encrypt", "pdf-decrypt"} THEN "[redacted]"
                              ELSE "none"])

\* the password that is registered with a plan: operations trim it, rendering does not
Registered(plan, r) == IF plan.operation = "render" THEN r.password ELSE Trim(r.password)

PlanPdf(lane, f, r, op) ==
    LET refusal == InspectPdf(f, IF r.password = "" THEN "none" ELSE r.password)
    IN IF op # "none" THEN PlanPdfOperation(lane, f, r, op)
       ELSE IF refusal # "accepted" THEN Refused(refusal)
       ELSE IF lane.adapter = "Pdftotext" THEN PlanPdfText(lane, f)
       ELSE PlanPdfRender(lane, f, r)

-----------------------------------------------------------------------------
(* Engines that do as they are told (external).  Nothing is written when   *)
(* the engine cannot open what it was given.                               *)

Turned(page, angle) == [page EXCEPT !.rot = (@ + angle) % 360]

\* qpdf takes the pages of a range in its order
PickPages(pages, parts) == [i \in DOMAIN PagesOfRange(parts) |-> pages[PagesOfRange(parts)[i]]]

\* where the arguments name files by paths that are joined with semicolons
Findable(files) == \A i \in DOMAIN files : ~files[i].semicolon

EngineOpens(f, plan, given) ==
    CASE plan.operation = "pdf-merge" -> Findable(plan.arguments.inputs)
      [] plan.operation = "pdf-metadata" -> f.trailer
      [] OTHER -> Opens(f, given)

Rendered(page, plan) ==
    [size |-> ExpectedPage(page, plan.arguments.dpi), gray |-> plan.arguments.color = "gray",
     format |-> plan.target, page |-> page.name]

\* apply_pdf_metadata writes the octal value of a character, whatever its length
Titled(text) == IF text = "cjk" THEN "garbled" ELSE text

PdfEngine(f, plan, given) ==
    LET a == plan.arguments
        turned(i) == a.parts = <<>> \/ i \in ToSet(PagesOfRange(a.parts))
        anyText == \E i \in DOMAIN f.pages : f.pages[i].text
    IN CASE plan.operation = "render" ->
                [container |-> "pages",
                 images |-> [i \in DOMAIN f.pages |-> Rendered(f.pages[i], plan)]]
         [] plan.operation \in {"text", "pdf-ocr"} ->
                [container |-> "text", words |-> anyText, covered |-> Len(f.pages)]
         [] plan.operation = "pdf-merge" -> [f EXCEPT !.pages = PagesOf(a.inputs)]
         [] plan.operation = "pdf-extract" -> [f EXCEPT !.pages = PickPages(@, a.parts)]
         [] plan.operation = "pdf-rotate" ->
                [f EXCEPT !.pages = [i \in DOMAIN @ |-> IF turned(i) THEN Turned(@[i], a.angle)
                                                        ELSE @[i]]]
         [] plan.operation = "pdf-encrypt" -> [f EXCEPT !.lock = given]
         [] plan.operation = "pdf-decrypt" -> [f EXCEPT !.lock = "none"]
         [] plan.operation = "pdf-watermark" ->
                [f EXCEPT !.pages = [i \in DOMAIN @ |-> [@[i] EXCEPT !.mark = a.text]]]
         [] plan.operation = "pdf-metadata" -> [f EXCEPT !.title = Titled(a.text)]
         [] OTHER -> f

PdfDamages == {"page lost", "pages swapped", "unreadable", "not applied", "half applied"}

\* a document that is not what was asked for
PdfDamage(f, o, d, plan) ==
    LET body == IF o.container = "pages" THEN "images" ELSE "pages"
        text == o.container = "text"
    IN CASE text /\ d = "page lost" -> [o EXCEPT !.covered = @ - 1]
         [] text /\ d = "unreadable" -> [o EXCEPT !.words = FALSE]
         [] ~text /\ d = "page lost" -> [o EXCEPT ![body] = Front(@)]
         [] ~text /\ d = "pages swapped" -> [o EXCEPT ![body] = Reverse(@)]
         [] ~text /\ d = "unreadable" /\ body = "pages" -> [o EXCEPT !.container = "broken"]
         [] ~text /\ d = "not applied" /\ body = "pages" -> f
         [] ~text /\ d = "half applied" /\ plan.operation \in {"pdf-watermark", "pdf-rotate"} ->
                [o EXCEPT !.pages[1] = f.pages[1]]
         [] OTHER -> o

-----------------------------------------------------------------------------
(* Validation.                                                             *)

\* validate_pdf_render: the exact page files, each with the size of its page
RenderFails(o, plan) ==
    \/ Len(o.images) # plan.arguments.pages
    \/ \E i \in DOMAIN o.images :
          \/ o.images[i].format # plan.target
          \/ o.images[i].size # plan.arguments.sizes[i]
          \/ plan.arguments.color = "gray" /\ ~o.images[i].gray

\* validate_ocr_output, and validate_text_export_output which has no pages to count
TextFails(o, plan) == ~o.words \/ (plan.operation = "pdf-ocr" /\ o.covered # plan.arguments.expected)

\* any failure to inspect the output counts as encryption
EncryptFails(o) == InspectPdf(o, "none") = "accepted"

\* append_watermark_text_check: anywhere in the text of the whole document
WatermarkMissing(o, text) == \A i \in DOMAIN o.pages : o.pages[i].mark # text

\* append_metadata_checks
MetadataMissing(o, text) == o.title # text

\* validate_pdf_ops_output, and what the operation adds to it
OperationFails(o, plan) ==
    \/ InspectPdf(o, "none") # "accepted"
    \/ Len(o.pages) # plan.arguments.expected
    \/ plan.operation = "pdf-watermark" /\ WatermarkMissing(o, plan.arguments.text)
    \/ plan.operation = "pdf-metadata" /\ MetadataMissing(o, plan.arguments.text)

ValidatePdf(o, plan) ==
    LET fails == CASE plan.operation = "render" -> RenderFails(o, plan)
                   [] plan.operation \in {"text", "pdf-ocr"} -> TextFails(o, plan)
                   [] plan.operation = "pdf-encrypt" -> EncryptFails(o)
                   [] OTHER -> OperationFails(o, plan)
    IN IF fails THEN "fail" ELSE "pass"
=============================================================================
