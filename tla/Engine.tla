------------------------------- MODULE Engine -------------------------------
(***************************************************************************)
(* The rest of packages/core: the exporters that only show, the fidelity   *)
(* report, detection, the two halves of the pipeline and the user's edits. *)
(***************************************************************************)
EXTENDS Formats

-----------------------------------------------------------------------------
(* Exporters: what a reader of the artifact sees of each message *)

Row(who, reply, forwarded, body, attachments, reactions, edited) ==
  [who |-> who, reply |-> reply, forwarded |-> forwarded, body |-> body, attachments |-> attachments,
   reactions |-> reactions, edited |-> edited]

NameIn(c, m, nobody) == IF m.senderId = NoOne THEN nobody ELSE NameOf(c, m.senderId)

\* The message that m answers, if the conversation still has it.
Answered(c, m) == IF m.replyToId = 0 THEN 0 ELSE TgPosition(c, m.replyToId)

Bubble(c, m) ==
  IF m.kind \in {"system", "service"}
    THEN Row(NoOne, 0, None, Render(m.content, HtmlMarks), << >>, << >>, FALSE)
    ELSE Row(NameIn(c, m, << >>), Answered(c, m), m.forwardedFrom, Render(m.content, HtmlMarks),
             m.attachments, m.reactions, m.edited)

MarkdownEntry(c, m) ==
  Row(NameIn(c, m, <<"dash">>), Answered(c, m), m.forwardedFrom, Render(m.content, MarkdownMarks),
      m.attachments, m.reactions, m.edited)

HtmlRows(c) == [i \in DOMAIN c.messages |-> Bubble(c, c.messages[i])]
MarkdownRows(c) == [i \in DOMAIN c.messages |-> MarkdownEntry(c, c.messages[i])]

Serialize(c, target) ==
  CASE target = "telegram-json" -> [format |-> target, file |-> ExportTelegram(c)]
    [] target = "whatsapp-txt"  -> [format |-> target, file |-> ExportWhatsApp(c)]
    [] target = "html"          -> [format |-> target, title |-> c.title, rows |-> HtmlRows(c)]
    [] target = "markdown"      -> [format |-> target, title |-> c.title, rows |-> MarkdownRows(c)]
    [] OTHER                    -> [format |-> target, conversation |-> c]

-----------------------------------------------------------------------------
(* Fidelity report *)

PerMessage == {"timestamps", "richText", "entities", "media", "stickers", "reactions", "replies", "forwards", "edits"}
Capability == PerMessage \cup {"messageIds", "mediaCaptions", "groups", "multipleParticipants", "deletions"}

TelegramCaps == PerMessage \cup {"messageIds", "mediaCaptions", "groups", "multipleParticipants"}
WhatsAppCaps == {"timestamps", "richText", "media", "mediaCaptions", "multipleParticipants", "groups"}
HtmlCaps     == TelegramCaps \ {"messageIds"}
MarkdownCaps == HtmlCaps \ {"stickers"}

Capabilities(target) ==
  CASE target = "telegram-json" -> TelegramCaps [] target = "whatsapp-txt" -> WhatsAppCaps
    [] target = "html" -> HtmlCaps [] target = "markdown" -> MarkdownCaps [] OTHER -> Capability
Approximates(target) == IF target = "whatsapp-txt" THEN {"entities"} ELSE {}

\* How much of a capability one message uses.
Uses(m, cap) ==
  CASE cap = "timestamps" -> 1
    [] cap = "richText"   -> IF m.content.text # << >> THEN 1 ELSE 0
    [] cap = "entities"   -> Len(m.content.entities)
    [] cap = "media"      -> Len(m.attachments)
    [] cap = "stickers"   -> IF \E a \in Range(m.attachments) : a.kind = "sticker" THEN 1 ELSE 0
    [] cap = "reactions"  -> Len(m.reactions)
    [] cap = "replies"    -> IF m.replyToId # 0 THEN 1 ELSE 0
    [] cap = "forwards"   -> IF m.forwardedFrom # None THEN 1 ELSE 0
    [] cap = "edits"      -> IF m.edited THEN 1 ELSE 0

Usage(c, cap) ==
  CASE cap \in PerMessage -> FoldLeft(LAMBDA n, m : n + Uses(m, cap), 0, c.messages)
    [] cap = "multipleParticipants" -> IF Len(c.participants) > 2 THEN Len(c.participants) ELSE 0
    [] cap = "groups" -> IF c.kind \in {"group", "channel"} THEN 1 ELSE 0
    [] OTHER -> 0

Status(target, cap) ==
  IF cap \in Capabilities(target) THEN "preserved"
  ELSE IF cap \in Approximates(target) THEN "approximated" ELSE "dropped"

\* Mutant of FidelityReport: a capability that the target lacks is left out.
FidelityReportOfKept(c, target) ==
  [target |-> target, messages |-> Len(c.messages),
   entries |-> {[cap |-> cap, status |-> "preserved", count |-> Usage(c, cap)] :
                  cap \in {k \in Capabilities(target) : Usage(c, k) > 0}}]

FidelityReport(c, target) ==
  [target |-> target, messages |-> Len(c.messages),
   entries |-> {[cap |-> cap, status |-> Status(target, cap), count |-> Usage(c, cap)] :
                  cap \in {k \in Capability : Usage(c, k) > 0}}]

-----------------------------------------------------------------------------
(* Detection and the pipeline; confidences are percentages *)

\* A WhatsApp chat among the files, one named like a chat first.
PickChatFile(files) ==
  LET txt == SelectSeq(files, LAMBDA f : f.type = "txt")
      chats == SelectSeq(txt, LAMBDA f : f.chat)
  IN IF chats # << >> THEN <<chats[1]>> ELSE IF txt # << >> THEN <<txt[1]>> ELSE << >>

WhatsAppConfidence(files) ==
  LET picked == PickChatFile(files)
      ls == SelectSeq(picked[1].lines, LAMBDA l : l.head # << >> \/ l.text # << >>)
      hits == Len(SelectSeq(ls, LAMBDA l : MatchHeader(l).head # << >>))
      sure == IF 2 * hits > Len(ls) THEN 92 ELSE IF 5 * hits > Len(ls) THEN 60 ELSE (200 * hits) \div Len(ls)
  IN IF picked = << >> \/ ls = << >> THEN 0 ELSE IF picked[1].chat THEN Max({sure, 70}) ELSE sure

\* The first JSON with messages decides; the importer takes the first as well.
PickJson(files) == SelectSeq(files, LAMBDA f : f.type = "json")
TelegramConfidence(files) == IF PickJson(files) = << >> THEN 0 ELSE 95

\* The highest confidence, the first of equals; the importers that are not written yet never match.
Detect(files) ==
  CASE WhatsAppConfidence(files) = 0 /\ TelegramConfidence(files) = 0 -> "generic"
    [] TelegramConfidence(files) > WhatsAppConfidence(files) -> "telegram"
    [] OTHER -> "whatsapp"

Failed == [ok |-> FALSE]

\* A file is one export, or a zip of several.
ImportConversation(file, source) ==
  LET files == IF file.type = "zip" THEN file.files ELSE <<file>>
      platform == IF source = "auto" THEN Detect(files) ELSE source
      picked == CASE platform = "whatsapp" -> PickChatFile(files)
                  [] platform = "telegram" -> PickJson(files)
                  [] OTHER -> << >>
  IN IF picked = << >> THEN Failed
     ELSE [ok |-> TRUE, platform |-> platform,
           conversation |-> IF platform = "whatsapp" THEN ParseWhatsApp(picked[1]) ELSE ParseTelegram(picked[1])]

ExportConversation(c, target) == [artifact |-> Serialize(c, target), report |-> FidelityReport(c, target)]

-----------------------------------------------------------------------------
(* Edits: None or 0 where the user has set nothing *)

NoEdits == [title |-> NoOne, kind |-> None, renames |-> [id \in {} |-> NoOne], from |-> 0, to |-> 0, removed |-> {}]

Kept(m, edits) ==
  /\ m.id \notin edits.removed
  /\ edits.from # 0 => m.ts >= edits.from
  /\ edits.to # 0 => m.ts <= edits.to

\* A blank name is no name.
Renamed(p, edits) ==
  IF p.id \in DOMAIN edits.renames /\ Trim(edits.renames[p.id]) # << >>
    THEN [p EXCEPT !.name = edits.renames[p.id]] ELSE p

ApplyEdits(c, edits) ==
  [c EXCEPT !.participants = [i \in DOMAIN @ |-> Renamed(@[i], edits)],
            !.messages = SelectSeq(@, LAMBDA m : Kept(m, edits)),
            !.title = IF edits.title # NoOne THEN edits.title ELSE @,
            !.kind = IF edits.kind # None THEN edits.kind ELSE @]

\* What the preview shows: the removed messages too, to be restored.
Preview(c, edits) == ApplyEdits(c, [edits EXCEPT !.removed = {}]).messages

DateBounds(c) ==
  LET times == {m.ts : m \in Range(c.messages)} IN IF times = {} THEN <<0, 0>> ELSE <<Min(times), Max(times)>>

MessageCounts(c) ==
  [p \in {p.id : p \in Range(c.participants)} |-> Len(SelectSeq(c.messages, LAMBDA m : m.senderId = p))]
=============================================================================
