----------------------------- MODULE Converter -----------------------------
(***************************************************************************)
(* The converter page (apps/web/src/features/converter): the store, the    *)
(* two steps of the page, and the worker that runs the engine.  A click on *)
(* "Import" reads the file and then asks the worker; a click on "Convert"  *)
(* asks it at once; the worker answers in the order of the requests.  The  *)
(* engine is a function of what the page held at the click: a request      *)
(* carries its answer, which the page sees once the worker gives it.       *)
(***************************************************************************)
EXTENDS Engine

CONSTANTS
  Files,          \* the exports that the user may have picked when the page opens
  Others,         \* the exports that the user may pick later
  Sources,        \* "auto" and the platforms
  Targets,        \* the export formats in use
  NewName,        \* a name or title that the user types
  MaxClicks,      \* bound: imports and conversions asked for
  MaxEdits        \* bound: edits, and picks of a file, a source or a target

VARIABLES
  file, source, target, phase, imported, edits,
  shown,          \* the artifact and its report, once converted
  reading,        \* imports whose file is being read
  requests,       \* requests that the worker has not answered
  clicks, changes,
  touched         \* the conversation, an edit or the target changed while a conversion ran

picks == <<file, source, target>>
doc   == <<imported, edits>>
bounds == <<clicks, changes>>
vars  == <<file, source, target, phase, imported, edits, shown, reading, requests, clicks, changes, touched>>

Nothing == << >>
Exporting == \E i \in DOMAIN requests : requests[i].action = "export"

Init ==
  /\ \E f \in Files : file = <<f>>
  /\ source = "auto" /\ target \in Targets     \* an earlier conversion may have left any target
  /\ phase = "idle"
  /\ imported = Nothing /\ edits = NoEdits /\ shown = Nothing
  /\ reading = {} /\ requests = << >>
  /\ clicks = 0 /\ changes = 0 /\ touched = FALSE

Change == changes < MaxEdits /\ changes' = changes + 1 /\ clicks' = clicks /\ touched' = (touched \/ Exporting)

SetFile(f) ==
  /\ imported = Nothing
  /\ Change
  /\ file' = <<f>> /\ phase' = "idle" /\ imported' = Nothing /\ edits' = NoEdits /\ shown' = Nothing
  /\ UNCHANGED <<source, target, reading, requests>>

SetSource(s) ==
  /\ imported = Nothing
  /\ Change
  /\ source' = s
  /\ UNCHANGED <<file, target, phase, doc, shown, reading, requests>>

\* Mutant of SetTarget: the report of the previous target stays.
SetTargetKeepsReport(t) ==
  /\ imported # Nothing /\ t # target
  /\ Change
  /\ target' = t
  /\ UNCHANGED <<file, source, phase, doc, shown, reading, requests>>

SetTarget(t) ==
  /\ imported # Nothing /\ t # target
  /\ Change
  /\ target' = t /\ shown' = Nothing
  /\ UNCHANGED <<file, source, phase, doc, reading, requests>>

-----------------------------------------------------------------------------
(* Importing *)

Import ==
  /\ imported = Nothing /\ file # Nothing /\ phase # "importing"
  /\ clicks < MaxClicks /\ clicks' = clicks + 1
  /\ phase' = "importing"
  /\ reading' = reading \cup {[n |-> clicks, answer |-> ImportConversation(file[1], source)]}
  /\ UNCHANGED <<picks, doc, shown, requests, changes, touched>>

\* file.arrayBuffer() is there: the worker is asked.
ReadFile(r) ==
  /\ reading' = reading \ {r}
  /\ requests' = Append(requests, [action |-> "import", answer |-> r.answer])
  /\ UNCHANGED <<picks, phase, doc, shown, bounds, touched>>

\* The file has gone from the disk.
ReadFails(r) ==
  /\ reading' = reading \ {r}
  /\ phase' = "error"
  /\ UNCHANGED <<picks, doc, shown, requests, bounds, touched>>

\* Mutant of AnswerImport: a refused import is not shown.
AnswerImportSilently ==
  LET q == Head(requests)
  IN /\ requests # << >> /\ q.action = "import"
     /\ requests' = Tail(requests)
     /\ IF q.answer.ok
          THEN /\ phase' = "editing" /\ imported' = <<q.answer.conversation>> /\ edits' = NoEdits
               /\ shown' = Nothing /\ touched' = (touched \/ Exporting)
          ELSE UNCHANGED <<phase, doc, shown, touched>>
     /\ UNCHANGED <<picks, reading, bounds>>

AnswerImport ==
  LET q == Head(requests)
  IN /\ requests # << >> /\ q.action = "import"
     /\ requests' = Tail(requests)
     /\ \/ /\ q.answer.ok
           /\ phase' = "editing" /\ imported' = <<q.answer.conversation>> /\ edits' = NoEdits
           /\ shown' = Nothing /\ touched' = (touched \/ Exporting)
        \/ /\ ~ q.answer.ok
           /\ phase' = "error"
           /\ UNCHANGED <<doc, shown, touched>>
     /\ UNCHANGED <<picks, reading, bounds>>

-----------------------------------------------------------------------------
(* Editing; every edit drops the converted artifact *)

Edit(e) ==
  /\ imported # Nothing /\ e # edits
  /\ Change
  /\ edits' = e /\ shown' = Nothing
  /\ UNCHANGED <<picks, phase, imported, reading, requests>>

SetTitle == Edit([edits EXCEPT !.title = NewName])
SetKind == \E k \in {"dm", "group"} : Edit([edits EXCEPT !.kind = k])
SetRename == \E i \in DOMAIN imported[1].participants :
               Edit([edits EXCEPT !.renames = (imported[1].participants[i].id :> NewName) @@ @])
\* A date input picks a day: its first hour, or its last one.
FromDateInput(ts, endOfDay) == 24 * (ts \div 24) + (IF endOfDay THEN 23 ELSE 0)
SetDateRange ==
  \E ts \in Range(DateBounds(imported[1])) \ {0} :
    \/ \E from \in {0, FromDateInput(ts, FALSE)} : Edit([edits EXCEPT !.from = from])
    \/ \E to \in {0, FromDateInput(ts, TRUE)} : Edit([edits EXCEPT !.to = to])
ToggleRemove == \E i \in DOMAIN Preview(imported[1], edits) :
                  LET id == Preview(imported[1], edits)[i].id
                  IN Edit([edits EXCEPT !.removed = SymDiff(@, {id})])
ResetEdits ==
  /\ imported # Nothing /\ edits # NoEdits
  /\ edits' = NoEdits /\ shown' = Nothing /\ touched' = (touched \/ Exporting)
  /\ UNCHANGED <<picks, phase, imported, reading, requests, bounds>>

-----------------------------------------------------------------------------
(* Converting *)

Convert ==
  /\ imported # Nothing /\ phase # "exporting"
  /\ clicks < MaxClicks /\ clicks' = clicks + 1
  /\ phase' = "exporting"
  /\ \E c \in {ApplyEdits(imported[1], edits)} :
       requests' = Append(requests, [action |-> "export", target |-> target, conversation |-> c,
                                     answer |-> ExportConversation(c, target)])
  /\ touched' = (touched /\ Exporting)
  /\ UNCHANGED <<picks, doc, shown, reading, changes>>

AnswerExport ==
  LET q == Head(requests)
  IN /\ requests # << >> /\ q.action = "export"
     /\ requests' = Tail(requests)
     /\ phase' = "editing" /\ shown' = <<q.answer>>
     /\ UNCHANGED <<picks, doc, reading, bounds, touched>>

\* "Start over"
Reset ==
  /\ imported # Nothing
  /\ file' = Nothing /\ phase' = "idle" /\ imported' = Nothing /\ edits' = NoEdits /\ shown' = Nothing
  /\ touched' = (touched \/ Exporting)
  /\ UNCHANGED <<source, target, reading, requests, bounds>>

-----------------------------------------------------------------------------
Next ==
  \/ \E f \in Others : SetFile(f)
  \/ \E s \in Sources : SetSource(s)
  \/ \E t \in Targets : SetTarget(t)
  \/ Import
  \/ \E r \in reading : ReadFile(r)
  \/ \E r \in reading : ReadFails(r)
  \/ AnswerImport
  \/ imported # Nothing /\ SetTitle
  \/ imported # Nothing /\ SetKind
  \/ imported # Nothing /\ SetRename
  \/ imported # Nothing /\ SetDateRange
  \/ imported # Nothing /\ ToggleRemove
  \/ ResetEdits
  \/ Convert
  \/ AnswerExport
  \/ Reset

Spec == Init /\ [][Next]_vars
FairSpec == Spec /\ WF_vars(\E r \in reading : ReadFile(r)) /\ WF_vars(AnswerImport) /\ WF_vars(AnswerExport)

-----------------------------------------------------------------------------
(* Properties *)

\* The artifact and the report on the page are those of the conversation, the edits and the
\* target on the page, unless one of these changed while a conversion ran ("Any edit
\* invalidates a previously produced export artifact/report", store.ts).
ReportIsCurrent ==
  phase = "editing" /\ shown # Nothing /\ imported # Nothing /\ ~ touched
    => shown[1] = ExportConversation(ApplyEdits(imported[1], edits), target)

Imported(platform) == imported' # imported /\ imported' # Nothing /\ imported'[1].originPlatform = platform

\* A header line without a sender whose text would be read as "sender: text".
Ambiguous(m) == m.senderId = NoOne /\ SplitSender(Lines(RenderWhatsApp(m.content))[1]).sender # << >>

\* A WhatsApp chat exported to WhatsApp and detected and imported again has the same messages:
\* time, sender, kind, files, and text and styles unless one style ends inside another.
\* (exporters/whatsapp.ts against importers/whatsapp.ts)
SurvivesWhatsApp(c) ==
  \A back \in {ImportConversation(ExportWhatsApp(c), "auto")} :
  LET Same_(m, n) ==
        /\ m.ts = n.ts /\ m.senderId = n.senderId /\ m.kind = n.kind /\ m.attachments = n.attachments
        /\ m.content = n.content \/ Cut(m.content)
  IN (c.messages # << >> /\ \A m \in Range(c.messages) : ~ Ambiguous(m)) =>
       /\ back.ok /\ back.platform = "whatsapp"
       /\ Len(back.conversation.messages) = Len(c.messages)
       /\ \A i \in DOMAIN c.messages : Same_(c.messages[i], back.conversation.messages[i])
WhatsAppRoundTrip == [][Imported("whatsapp") => \A c \in {imported'[1]} : SurvivesWhatsApp(c)]_vars

\* A Telegram chat exported to Telegram and imported again has the same messages: time, text,
\* entities that Telegram has, the name of the sender, the message answered (by position),
\* kind of file, reactions, forward and edit marks; service messages lose their actor.
\* (exporters/telegram.ts against importers/telegram.ts, test/telegram.test.ts)
SurvivesTelegram(c) ==
  \A back \in {ImportConversation(ExportTelegram(c), "auto")} :
  LET d == back.conversation
      Known(rt) == SelectSeq(rt.entities, LAMBDA e : e.type # "custom")
      Same_(i) ==
        LET m == c.messages[i]  n == d.messages[i]
        IN /\ m.ts = n.ts /\ m.content.text = n.content.text /\ Known(m.content) = Known(n.content)
           /\ m.kind = "service" \/ NameIn(c, m, NoOne) = NameIn(d, n, NoOne)
           /\ TgPosition(c, m.replyToId) = TgPosition(d, n.replyToId)
           /\ [k \in DOMAIN m.attachments |-> m.attachments[k].kind] = [k \in DOMAIN n.attachments |-> n.attachments[k].kind]
           /\ m.reactions = n.reactions /\ m.forwardedFrom = n.forwardedFrom /\ m.edited = n.edited
  IN /\ back.ok /\ back.platform = "telegram" /\ d.kind = c.kind
     /\ Len(d.messages) = Len(c.messages)
     /\ \A i \in DOMAIN c.messages : Same_(i)
TelegramRoundTrip == [][Imported("telegram") => \A c \in {imported'[1]} : SurvivesTelegram(c)]_vars

\* What the exporters are known to lose without saying so: a second file of a message and the
\* outer of two nested styles (Telegram), a file without a name under a text (WhatsApp), an
\* answer to a message that is not there.
KnownLoss(c, cap) ==
  \E m \in Range(c.messages) :
    CASE cap = "media"    -> Len(m.attachments) > 1 \/ (m.content # NoText /\ \E a \in Range(m.attachments) : a.file = None)
      [] cap = "entities" -> Cut(m.content) \/ Cardinality({e.offset : e \in Range(m.content.entities)}) # Len(m.content.entities)
                             \/ \E e \in Range(m.content.entities) : OurToTg(e.type) = "plain"
      [] cap = "replies"  -> m.replyToId # 0 /\ Answered(c, m) = 0
      [] OTHER            -> FALSE

\* The fidelity report "tells the user exactly what was preserved, approximated, or dropped"
\* (types/report.ts): what a reader of a Telegram or WhatsApp artifact does not get back in full
\* is in the report, and not as preserved.
TellsTheTruth(c, out) ==
  \A back \in {ImportConversation(out.artifact.file, "auto").conversation}, cap \in PerMessage :
    Usage(back, cap) < Usage(c, cap)
      => KnownLoss(c, cap) \/ \E e \in out.report.entries : e.cap = cap /\ e.status # "preserved"
ReportIsHonest ==
  [][shown' # shown /\ shown' # Nothing =>
       \A q \in {Head(requests)}, out \in {shown'[1]} :
         q.target \in {"telegram-json", "whatsapp-txt"} /\ q.conversation.messages # << >>
           => TellsTheTruth(q.conversation, out)]_vars

\* "Reading..." and "Converting..." end: in an answer, or in an error on the page.
WorkEnds == phase \in {"importing", "exporting"} ~> phase \notin {"importing", "exporting"}
=============================================================================
