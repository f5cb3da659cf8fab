------------------------------ MODULE MailPlan ------------------------------
(***************************************************************************)
(* The mail lanes as functions: one message (crates/core/src/eml.rs), one  *)
(* Outlook message, which is turned into such a message first (msg.rs),    *)
(* and a mailbox, which is taken apart into messages (mbox.rs).            *)
(*                                                                         *)
(* The body of a mail file is its messages as they were sent.  A message   *)
(* says whether it has a sender and a recipient, which of them an Outlook  *)
(* message keeps only in its transport headers, and has parts of plain     *)
(* text and of HTML, sequences of pieces: a name is a word, "amp" a        *)
(* character that HTML writes as an entity, "script", "comment" (with a    *)
(* script in it) and "link" (to another host) are HTML, and "From" is a    *)
(* line that begins like the separator of a mailbox, which its writer may  *)
(* have quoted or put under a Content-Length.                              *)
(***************************************************************************)
EXTENDS MediaPlan

MailAdapters == {"Eml", "Msg", "MboxText", "MboxPdf"}

Message(from, to, plain, html) ==
    [from |-> from, to |-> to, transport |-> TRUE, plain |-> plain, html |-> html,
     quoted |-> FALSE, length |-> "none"]

Mails(f) == f.body[1].mails
Has(parts, piece) == \E i \in DOMAIN parts : piece \in ToSet(parts[i])

HtmlPieces == {"script", "comment", "link"}

\* A mail file has messages in order, one if it is not a mailbox, and plain text has no HTML in
\* it.  The parts of a message are alternatives: where a part of HTML has nothing of its own it
\* says what the plain one says.
MailFile(f) ==
    f.container \in {"eml", "msg", "mbox"} =>
        /\ Mails(f) \in Seq([from : BOOLEAN, to : BOOLEAN, transport : BOOLEAN,
                             plain : Seq(Seq(STRING)), html : Seq(Seq(STRING)),
                             quoted : BOOLEAN, length : {"none", "right", "wrong"}])
        /\ f.container # "mbox" => Len(Mails(f)) = 1
        /\ \A m \in ToSet(Mails(f)) :
              /\ \A piece \in HtmlPieces : ~Has(m.plain, piece)
              /\ m.plain # <<>> /\ m.html # <<>> =>
                    \/ m.plain[1] \in {<<>>, m.html[1]}
                    \/ ToSet(m.html[1]) \cap ({"amp"} \cup HtmlPieces) # {}

First(parts) == IF parts = <<>> THEN <<>> ELSE <<parts[1]>>

-----------------------------------------------------------------------------
(* Reading.                                                                *)

\* msg_to_eml_bytes: one part, HTML before plain text; the recipients that are not in the
\* transport headers are not read
OneMessageOfMsg(m) ==
    [m EXCEPT !.to = m.to /\ m.transport,
              !.plain = IF m.html = <<>> THEN First(@) ELSE <<>>,
              !.html = First(@)]

\* the text of a message as a mailbox stores it
Stored(m) ==
    [m EXCEPT !.plain = [i \in DOMAIN @ |->
        [k \in DOMAIN @[i] |-> IF m.quoted /\ @[i][k] = "From" THEN ">From" ELSE @[i][k]]]]

\* split_into_spans: without a Content-Length a line like a separator begins another message,
\* which has no headers; behind the last line of the file there is none
Split(m, last) ==
    LET text == m.plain[1]
        cut == {k \in DOMAIN text : text[k] = "From"}
        rest == SubSeq(text, Min(cut) + 1, Len(text))
    IN IF m.plain = <<>> \/ m.length # "none" THEN <<m>>
       ELSE IF cut = {} THEN <<m>>
       ELSE <<[m EXCEPT !.plain[1] = SubSeq(text, 1, Min(cut) - 1)]>>
              \o IF last /\ rest = <<>> THEN <<>>
                 ELSE <<Message(FALSE, FALSE, <<rest>>, <<>>)>>

\* unescape_from_line: one level, in every message of a mailbox with a Content-Length in it
Unquote(m, variant) ==
    IF variant # "mboxcl" THEN m
    ELSE [m EXCEPT !.plain = [i \in DOMAIN @ |->
             [k \in DOMAIN @[i] |-> IF @[i][k] = ">From" THEN "From" ELSE @[i][k]]]]

\* split_mbox_bytes_variant: mboxcl when a Content-Length was seen, otherwise mboxo
MailsOfMbox(f) ==
    LET stored == [i \in DOMAIN Mails(f) |-> Stored(Mails(f)[i])]
        spans == FlattenSeq([i \in DOMAIN stored |-> Split(stored[i], i = Len(stored))])
        variant == IF \E i \in DOMAIN spans : spans[i].length # "none" THEN "mboxcl" ELSE "mboxo"
    IN [i \in DOMAIN spans |-> Unquote(spans[i], variant)]

\* the messages that parse_eml_file, parse_msg_file or parse_mbox_file make of a file
MailsRead(f) ==
    CASE f.container = "msg" -> <<OneMessageOfMsg(Mails(f)[1])>>
      [] f.container = "mbox" -> MailsOfMbox(f)
      [] OTHER -> Mails(f)

MaxMboxMails == 3     \* stands for 1,000

InspectMail(f, format) ==
    IF \/ f.container # format
       \/ format = "msg" /\ LET m == Mails(f)[1]
                            IN <<m.transport, m.plain, m.html>> = <<FALSE, <<>>, <<>>>>
       \/ format = "mbox" /\ \/ \E i \in DOMAIN Mails(f) : Mails(f)[i].length = "wrong"
                             \/ Len(MailsRead(f)) \notin 1..MaxMboxMails
    THEN "InputInvalid" ELSE "accepted"

-----------------------------------------------------------------------------
(* Plans.                                                                  *)

\* contains_remote_reference, in the one HTML part that is read
RefersElsewhere(m) == m.html # <<>> /\ "link" \in ToSet(m.html[1])

PlanMails(lane, f, r, format) ==
    LET inspection == InspectMail(f, format)
    IN IF inspection # "accepted" THEN Refused(inspection)
       ELSE IF \E m \in ToSet(MailsRead(f)) : RefersElsewhere(m) THEN Refused("PolicyBlocked")
       ELSE PlanOfStep(lane, r.target, "mail", "unknown", [mails |-> Len(MailsRead(f))])

\* plan_eml_export, plan_msg_export, plan_mbox_export
PlanEml(lane, f, r) == PlanMails(lane, f, r, "eml")
PlanMsg(lane, f, r) == PlanMails(lane, f, r, "msg")
PlanMbox(lane, f, r) == PlanMails(lane, f, r, "mbox")

PlanMail(lane, f, r) ==
    CASE lane.adapter = "Eml" -> PlanEml(lane, f, r)
      [] lane.adapter = "Msg" -> PlanMsg(lane, f, r)
      [] OTHER -> PlanMbox(lane, f, r)

-----------------------------------------------------------------------------
(* Rendering.                                                              *)

\* html_text takes what is between the tags, a script's too, but no entity (quick-xml reports
\* one as an event of its own)
HtmlText(part) == Without(part, {"amp", "comment", "link"})

\* sanitize_html drops scripts and references to other hosts, and the entities with them
Sanitized(part) == Without(part, {"amp", "script", "link"})

\* visible_text: the first plain part, even an empty one
VisibleText(m) ==
    IF m.plain # <<>> THEN m.plain[1] ELSE IF m.html # <<>> THEN HtmlText(m.html[1]) ELSE <<>>

\* render_txt, render_md, and render_html which shows the HTML part if there is one
RenderMail(m, target) ==
    [from |-> m.from, to |-> m.to,
     text |-> IF target \in {"html", "pdf"} /\ m.html # <<>> THEN Sanitized(m.html[1])
              ELSE VisibleText(m)]

DocumentIdOf(target) ==
    CASE target = "md" -> "markdown" [] target = "txt" -> "plain" [] OTHER -> target

MailOutput(f, plan, ext) ==
    LET mails == MailsRead(f)
    IN [container |-> DocumentIdOf(plan.target), ext |-> ext,
        body |-> << [mails |-> [i \in DOMAIN mails |-> RenderMail(mails[i], plan.target)]] >>]

MailDamages == {"lost", "swapped", "wrong format"}

MailDamage(o, d) ==
    CASE d = "lost" -> [o EXCEPT !.body[1].mails = Front(@)]
      [] d = "swapped" -> [o EXCEPT !.body[1].mails = Reverse(@)]
      [] OTHER -> [o EXCEPT !.container = "broken"]

\* validate_eml_export_output: text in it, a sender and a recipient in the input, and no script
ExportFails(f, o, plan) ==
    \/ o.container # DocumentIdOf(plan.target)
    \/ \A i \in DOMAIN Mails(o) :
          ~Mails(o)[i].from /\ ~Mails(o)[i].to /\ Mails(o)[i].text = <<>>
    \/ \E m \in ToSet(MailsRead(f)) : ~m.from \/ ~m.to
    \/ plan.target = "html" /\ \E m \in ToSet(Mails(o)) : "comment" \in ToSet(m.text)

\* build_mbox_report: a separator for every message, looked for in the text of a PDF but in
\* memory for the other targets, and as many pages as the messages had
MailboxFails(f, o, plan) ==
    \/ o.container # DocumentIdOf(plan.target)
    \/ plan.target = "pdf" /\ Len(Mails(o)) # Len(MailsRead(f))

ValidateMail(f, o, plan) ==
    LET fails == IF plan.lane \in {"Eml", "Msg"} THEN ExportFails(f, o, plan)
                 ELSE MailboxFails(f, o, plan)
    IN IF fails THEN "fail" ELSE "pass"

-----------------------------------------------------------------------------
(* What the lanes are known not to do.                                     *)

\* a message without a sender or a recipient is planned and always refused; so is one with
\* a script in a comment, which the sanitizer keeps
MailHonestGaps(f, plan) ==
    /\ plan.lane \in {"Eml", "Msg"}
    /\ \E m \in ToSet(MailsRead(f)) :
          ~m.from \/ ~m.to \/ (plan.target = "html" /\ Has(m.html, "comment"))

\* the order of a mailbox is compared nowhere, the number of its messages only in a PDF
UncheckedMail(o, obeyed, plan) ==
    /\ plan.lane \in {"MboxText", "MboxPdf"} /\ o.container = obeyed.container
    /\ plan.lane = "MboxPdf" => Len(Mails(o)) = Len(Mails(obeyed))

\* what a reader of the message sees
Seen(m, target) ==
    LET all(parts) == FlattenSeq(parts)
    IN IF m.html # <<>> /\ (target \in {"html", "pdf"} \/ all(m.plain) = <<>>)
       THEN Without(all(m.html), {"script", "comment", "link"})
       ELSE all(m.plain)

\* Content that is lost or added although the plan promises "every mail" and "normalized textual
\* content": entities, all parts of text but the first, HTML beside an empty plain part, scripts
\* and comments whose text is shown, separators that were not quoted or stay quoted, and a line
\* that only looks like a quoted one beside a Content-Length.
MailLossGaps(f, plan) ==
    \E m \in ToSet(Mails(f)) :
       \/ Has(m.html, "amp") \/ Len(m.plain) > 1 \/ Len(m.html) > 1
       \/ m.plain # <<>> /\ m.plain[1] = <<>> /\ m.html # <<>>
       \/ Has(m.html, "script") \/ Has(m.html, "comment")
       \/ f.container = "mbox" /\ Has(m.plain, "From")
            /\ m.length = "none" /\ ~(m.quoted /\ \E n \in ToSet(Mails(f)) : n.length = "right")
       \/ f.container = "mbox" /\ Has(m.plain, ">From")
            /\ \E n \in ToSet(Mails(f)) : n.length # "none"

\* every message is in the output with the text that its reader sees
MailsKept(f, o, plan) ==
    /\ Len(Mails(o)) = Len(Mails(f))
    /\ \A i \in DOMAIN Mails(f) : Mails(o)[i].text = Seen(Mails(f)[i], plan.target)
=============================================================================
