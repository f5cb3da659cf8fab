------------------------------ MODULE DataPlan ------------------------------
(***************************************************************************)
(* The two lanes that the program runs by itself on data: records between  *)
(* CSV, JSON, YAML and XML (crates/core/src/structured.rs) and entries     *)
(* between ZIP, tar.gz and 7z (crates/core/src/archive.rs).                *)
(*                                                                         *)
(* Both check their own output by reading it again, with the same readers  *)
(* that inspect an input.  The body of a structured file is its records,   *)
(* functions from field names to values, and a flaw of its text; the body  *)
(* of an archive is its entries in order and whether they share one        *)
(* compressed block.                                                       *)
(***************************************************************************)
EXTENDS MediaPlan

DataAdapters == {"Structured", "Archive"}

\* what an inspection reads of a file of these lanes
Body(f) == f.body[1]

-----------------------------------------------------------------------------
(* Records.                                                                *)

DataFormats == {"csv", "json", "yaml", "xml"}

\* a file of records has them in order, each from fields to values
RecordFile(f) ==
    f.container \in DataFormats =>
        LET records == Body(f).records
        IN /\ records \in Seq(ToSet(records))
           /\ \A i \in DOMAIN records :
                 records[i] \in [DOMAIN records[i] -> [kind : STRING, text : STRING]]

Fields(records) == UNION {DOMAIN records[i] : i \in DOMAIN records}
Values(records) == UNION {{records[i][k] : k \in DOMAIN records[i]} : i \in DOMAIN records}

\* the first header of a CSV file decides what its first character is
BeginsLikeJson(f) ==
    \/ f.container = "csv" /\ "[x" \in Fields(Body(f).records)
    \/ f.container = "yaml" /\ Body(f).records = <<>>

\* structured_format_hint: the first character, and the extension for CSV and YAML
StructuredHint(f) ==
    CASE f.container \notin DataFormats -> "none"
      [] f.container \in {"json", "xml"} -> f.container
      [] BeginsLikeJson(f) -> "json"
      [] OTHER -> IF f.ext \in DataFormats THEN f.ext ELSE "none"

\* What the readers refuse; YAML lets the last of two equal keys win.
FlawRefusal(f) ==
    LET flaw == Body(f).flaw
    IN CASE flaw = "none" \/ (flaw = "duplicate" /\ f.container = "yaml") -> "accepted"
         [] flaw \in {"attribute", "dtd"} -> "PolicyBlocked"
         [] OTHER -> "InputInvalid"

\* inspect_structured: the reader of the hint on the text of the file
InspectStructured(f) ==
    LET hint == StructuredHint(f)
        readable == \/ hint = f.container
                    \/ hint = "json" /\ f.container = "yaml" /\ Body(f).records = <<>>
    IN IF hint = "none" THEN "Unsupported"
       ELSE IF ~readable THEN "InputInvalid"
       ELSE FlawRefusal(f)

Flat == {"csv", "xml"}

\* what a flat target cannot tell apart: numbers, nulls and fields that are missing
ScalarsAreLost(records) ==
    \/ \E v \in Values(records) : v.kind # "string"
    \/ \E i \in DOMAIN records : DOMAIN records[i] # Fields(records)

PlanStructured(lane, f, r) ==
    LET inspection == InspectStructured(f)
        records == Body(f).records
        lossy == r.target \in Flat /\ ScalarsAreLost(records)
        nested == r.target \in Flat /\ \E v \in Values(records) : v.kind = "nested"
    IN IF inspection # "accepted" THEN Refused(inspection)
       ELSE IF nested \/ (lossy /\ ~r.lossyData) THEN Refused("PolicyBlocked")
       ELSE PlanOfStep(lane, r.target, "serialize", IF lossy THEN "lossy" ELSE "none",
                       [source |-> StructuredHint(f)])

\* scalar_text
ScalarText(v) == IF v.kind = "null" THEN "" ELSE v.text

\* valid_xml_name
ValidXmlName(name) == name \notin {"[x", "2y"}

\* write_xml refuses field names; the other writers can write any records that were planned
StructuredWrites(f, plan) ==
    plan.target = "xml" => \A k \in Fields(Body(f).records) : ValidXmlName(k)

\* write_dataset: a flat target has every field in every record, and one without any field gets
\* an empty header
StructuredOutput(f, plan, ext) ==
    LET records == Body(f).records
        flat == [i \in DOMAIN records |->
                   [k \in Fields(records) |->
                      [kind |-> "string",
                       text |-> IF k \in DOMAIN records[i] THEN ScalarText(records[i][k]) ELSE ""]]]
    IN [container |-> plan.target, ext |-> ext,
        body |-> << [records |-> IF plan.target \in Flat THEN flat ELSE records,
                     flaw |-> IF plan.target = "csv" /\ Fields(records) = {} THEN "no header"
                              ELSE "none"] >>]

\* validate_structured_output: the digest may differ when a loss was agreed to
ValidateStructured(f, o, plan) ==
    LET before == Body(f).records
        after == Body(o).records
    IN IF \/ InspectStructured(o) # "accepted"
          \/ StructuredHint(o) # plan.target
          \/ Len(before) # Len(after)
          \/ Fields(before) # Fields(after)
          \/ before # after /\ plan.loss # "lossy"
       THEN "fail" ELSE IF before # after THEN "warning" ELSE "pass"

-----------------------------------------------------------------------------
(* Archives.                                                               *)

ArchiveFormats == {"zip", "tar.gz", "7z"}
MaxArchiveEntries == 3     \* stands for 10,000
MaxArchiveBytes == 4       \* stands for 2 GiB

\* what an entry may be: a locked one is of a ZIP, a link or a device of a tar
EntryKinds == {"file", "dir", "link", "locked"}

\* an archive has entries in order
ArchiveFile(f) ==
    f.container \in ArchiveFormats /\ f.container = f.ext =>
        Body(f).entries \in Seq([name : STRING, kind : EntryKinds, size : Nat, data : STRING])

\* archive_format_hint: the extension, which the first bytes must agree with
ArchiveHint(f) ==
    IF f.ext \notin ArchiveFormats THEN "Unsupported"
    ELSE IF f.container # f.ext THEN "InputInvalid" ELSE f.ext

\* backslashes become slashes, but not in the names of a ZIP
Unified(name) == IF name = "w\\x" THEN "w/x" ELSE name
Slashed(name) == IF name = "d" THEN "d/" ELSE name
UnsafeNames == {"/etc", "a..b", "c:d"}

\* the name under which the inventory of a container has an entry
ListedName(format, e) ==
    CASE format = "zip" -> e.name
      [] format = "7z" /\ e.kind = "dir" -> Slashed(Unified(e.name))
      [] OTHER -> Unified(e.name)

\* the bytes of all entries, each by its entry and its place in it
Bytes(entries) == UNION {{i} \X (1..entries[i].size) : i \in DOMAIN entries}
TotalSize(entries) == Cardinality(Bytes(entries))

\* entry_manifest_digest: how often each name and size is listed, whatever the order and the bytes
Manifest(format, entries) ==
    LET listed == [i \in DOMAIN entries |-> <<ListedName(format, entries[i]), entries[i].size>>]
    IN [x \in ToSet(listed) |-> Cardinality({i \in DOMAIN listed : listed[i] = x})]

\* inspect_archive; a ZIP without entries begins like none, and links count as entries of no size
InspectArchive(f) ==
    LET hint == ArchiveHint(f)
        entries == Body(f).entries
    IN IF hint \notin ArchiveFormats THEN hint
       ELSE IF \/ hint = "zip" /\ entries = <<>>
               \/ \E i \in DOMAIN entries : entries[i].name \in UnsafeNames
         THEN "InputInvalid"
       ELSE IF Len(entries) > MaxArchiveEntries \/ TotalSize(entries) > MaxArchiveBytes
         THEN "ResourceExhausted"
       ELSE "accepted"

PlanArchive(lane, f, r) ==
    LET inspection == InspectArchive(f)
    IN IF inspection # "accepted" THEN Refused(inspection)
       ELSE IF ArchiveHint(f) = r.target THEN Refused("Unsupported")
       ELSE PlanOfStep(lane, r.target, "repack", "container-only", [source |-> ArchiveHint(f)])

\* The repacks meet what the inventory passed over: links and devices of a tar, entries of a ZIP
\* that are locked, and a second entry of one name for a ZIP.
ArchiveWrites(f, plan) ==
    LET entries == Body(f).entries
    IN /\ \A i \in DOMAIN entries : entries[i].kind \in {"file", "dir"}
       /\ plan.target = "zip" =>
             \A i, j \in DOMAIN entries :
                ListedName("7z", entries[i]) = ListedName("7z", entries[j]) => i = j

\* for_each_entries of the library (external): the entries with data block by block, then those without; a callback that
\* returns false ends its block (repack_7z_to_zip returns it to go on)
Visited(body, stops) ==
    LET of(I) == Pick(body.entries, I)
        streams == of({i \in DOMAIN body.entries : body.entries[i].size > 0})
        empty == of({i \in DOMAIN body.entries : body.entries[i].size = 0})
        first(s) == SubSeq(s, 1, IF s = <<>> THEN 0 ELSE 1)
    IN IF stops THEN (IF body.solid THEN first(streams) ELSE streams) \o first(empty)
       ELSE streams \o empty

\* a ZIP's directories become files without data in a 7z
Repacked(e, source, target) ==
    [e EXCEPT !.name = IF source = "zip" THEN e.name
                       ELSE IF e.kind = "dir" THEN Slashed(Unified(e.name)) ELSE Unified(e.name),
              !.kind = IF source = "zip" /\ target = "7z" THEN "file" ELSE @]

\* the five repacks, and the one from 7z to ZIP whose callback stops
ArchiveOutput(f, plan, ext) ==
    LET source == plan.arguments.source
        entries == IF source = "7z" THEN Visited(Body(f), plan.target = "zip") ELSE Body(f).entries
    IN [container |-> plan.target, ext |-> ext,
        body |-> << [entries |-> [i \in DOMAIN entries |-> Repacked(entries[i], source, plan.target)],
                     solid |-> FALSE] >>]

\* validate_archive_output: opened, not the input's format, and the same manifest
ValidateArchive(f, o, plan) ==
    IF \/ InspectArchive(o) # "accepted"
       \/ ArchiveHint(o) = ArchiveHint(f)
       \/ Len(Body(f).entries) # Len(Body(o).entries)
       \/ Manifest(ArchiveHint(f), Body(f).entries) # Manifest(ArchiveHint(o), Body(o).entries)
    THEN "fail" ELSE "pass"

-----------------------------------------------------------------------------
(* Both lanes.                                                             *)

PlanData(lane, f, r) ==
    IF lane.adapter = "Archive" THEN PlanArchive(lane, f, r) ELSE PlanStructured(lane, f, r)

DataWrites(f, plan) ==
    IF plan.lane = "Archive" THEN ArchiveWrites(f, plan) ELSE StructuredWrites(f, plan)

DataOutput(f, plan, ext) ==
    IF plan.lane = "Archive" THEN ArchiveOutput(f, plan, ext) ELSE StructuredOutput(f, plan, ext)

ValidateData(f, o, plan) ==
    IF plan.lane = "Archive" THEN ValidateArchive(f, o, plan) ELSE ValidateStructured(f, o, plan)

DataDamages == {"lost", "altered", "wrong format"}

\* an output that lacks its last item, has another value or is of another format
DataDamage(f, o, d, plan) ==
    LET part == IF plan.lane = "Archive" THEN "entries" ELSE "records"
        items == Body(o)[part]
        altered(x) == IF plan.lane = "Archive" THEN [x EXCEPT !.data = "other"]
                      ELSE [k \in DOMAIN x |-> [kind |-> "string", text |-> "other"]]
    IN CASE d = "lost" /\ items # <<>> -> [o EXCEPT !.body[1][part] = Front(@)]
         [] d = "altered" /\ items # <<>> -> [o EXCEPT !.body[1][part][1] = altered(@)]
         \* an empty list of YAML is one of JSON, too
         [] d = "wrong format" /\ items # <<>> -> [o EXCEPT !.container = f.container]
         [] OTHER -> o

\* Plans whose execution refuses what inspection let pass: names that are no XML elements, links,
\* locked entries, and two entries of one name.
DataPlanGaps(f, plan) ==
    IF plan.lane = "Structured" THEN plan.target = "xml" /\ {"[x", "2y"} \cap Fields(Body(f).records) # {}
    ELSE \/ \E e \in ToSet(Body(f).entries) : e.kind \in {"link", "locked"}
         \/ plan.target = "zip" /\ \E i, j \in DOMAIN Body(f).entries :
               i # j /\ ListedName("7z", Body(f).entries[i]) = ListedName("7z", Body(f).entries[j])

\* Outputs that are as planned and are refused: CSV without fields or whose first header begins
\* like JSON, an empty YAML list, a 7z with more than one entry to a block or more than one
\* without data, a ZIP with backslashes in names, a tar whose directories have no slash.
DataHonestGaps(f, plan) ==
    IF plan.lane = "Structured"
    THEN \/ plan.target = "csv" /\ ("[x" \in Fields(Body(f).records) \/ Fields(Body(f).records) = {})
         \/ plan.target = "yaml" /\ Body(f).records = <<>>
    ELSE LET entries == ToSet(Body(f).entries)
             number(P(_)) == Cardinality({i \in DOMAIN Body(f).entries : P(Body(f).entries[i])})
         IN \/ /\ plan.arguments.source = "7z" /\ plan.target = "zip"
               /\ \/ Body(f).solid /\ number(LAMBDA e : e.size > 0) > 1
                  \/ number(LAMBDA e : e.size = 0) > 1
            \/ plan.arguments.source = "zip" /\ \E e \in entries : e.name = "w\\x"
            \/ plan.arguments.source = "tar.gz" /\ \E e \in entries : e.kind = "dir" /\ e.name = "d"
            \/ entries = {}

\* Differences that no check looks at: the bytes of an entry, and values where a loss was agreed to.
UncheckedData(f, o, obeyed, plan) ==
    IF plan.lane = "Structured"
    THEN /\ plan.loss = "lossy" /\ o.container = obeyed.container
         /\ Len(Body(o).records) = Len(Body(f).records)
         /\ Fields(Body(o).records) = Fields(Body(f).records)
    ELSE /\ o.container = obeyed.container
         /\ [i \in DOMAIN Body(o).entries |-> [Body(o).entries[i] EXCEPT !.data = "any"]]
              = [i \in DOMAIN Body(obeyed).entries |-> [Body(obeyed).entries[i] EXCEPT !.data = "any"]]
=============================================================================
