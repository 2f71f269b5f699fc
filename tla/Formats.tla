------------------------------ MODULE Formats ------------------------------
(***************************************************************************)
(* The conversion engine (packages/core): the WhatsApp and Telegram        *)
(* importers, the five exporters, the registry and the two halves of the   *)
(* pipeline, the fidelity report and the user's edits, as operators.       *)
(*                                                                         *)
(* Abstracted: a time is a number of hours, in a calendar of twelve months *)
(* of 31 days (Date.UTC's carry from month to year is kept); a name is a   *)
(* text; an attachment is named by the token "@..." that stands for it in  *)
(* a text; "stamp" is the beginning of a line that looks like a header;    *)
(* ids are the hashed keys themselves; link targets, sizes, durations,     *)
(* colours and file names of artifacts are left out.                       *)
(***************************************************************************)
EXTENDS RichText

None == "none"

-----------------------------------------------------------------------------
(* Dates *)

Hours(y, mo, d, h) == (((y - 1970) * 12 + mo - 1) * 31 + d - 1) * 24 + h

FormatWhatsAppTimestamp(ts) ==
  LET day == ts \div 24
  IN [date |-> <<1 + (day % 31), 1 + ((day % 372) \div 31), 1970 + (day \div 372)>>, hour |-> ts % 24, half |-> None]

DetectDateOrder(dates) ==
  LET ymd == {i \in DOMAIN dates : dates[i][1] > 31}
      dmy == {i \in DOMAIN dates \ ymd : dates[i][1] > 12}
      mdy == {i \in DOMAIN dates \ (ymd \cup dmy) : dates[i][2] > 12}
  IN IF 2 * Cardinality(ymd) > Len(dates) THEN "ymd"
     ELSE IF Cardinality(mdy) > Cardinality(dmy) THEN "mdy" ELSE "dmy"

ToEpoch(s, order) ==
  LET y  == IF order = "ymd" THEN s.date[1] ELSE s.date[3]
      mo == IF order = "mdy" THEN s.date[1] ELSE s.date[2]
      d  == CASE order = "ymd" -> s.date[3] [] order = "mdy" -> s.date[2] [] OTHER -> s.date[1]
      h  == CASE s.half = "p" /\ s.hour < 12 -> s.hour + 12
              [] s.half = "a" /\ s.hour = 12 -> 0
              [] OTHER -> s.hour
  IN Hours(IF y < 100 THEN y + 2000 ELSE y, mo, d, h)

-----------------------------------------------------------------------------
(* Texts *)

Trim(t) ==
  LET ink == {i \in DOMAIN t : t[i] \notin Blanks}
  IN IF ink = {} THEN << >> ELSE SubSeq(t, Min(ink), Max(ink))

Lines(t) ==
  LET cuts == Sorted({0, Len(t) + 1} \cup {i \in DOMAIN t : t[i] = "\n"})
  IN [i \in 1 .. Len(cuts) - 1 |-> SubSeq(t, cuts[i] + 1, cuts[i + 1] - 1)]

Join(ls) == FlattenSeq([i \in DOMAIN ls |-> IF i = 1 THEN ls[i] ELSE <<"\n">> \o ls[i]])

Distinct(s) == FoldLeft(LAMBDA seen, x : IF x \in Range(seen) THEN seen ELSE Append(seen, x), << >>, s)

Conversation(platform, kind, title, participants, messages) ==
  [originPlatform |-> platform, kind |-> kind, title |-> title, participants |-> participants,
   messages |-> messages]

Person(id, name, handle) == [id |-> id, name |-> name, handle |-> handle]
NoOne == <<None>>

NameOf(c, id) ==
  IF \E p \in Range(c.participants) : p.id = id
    THEN (CHOOSE p \in Range(c.participants) : p.id = id).name ELSE <<"Unknown">>

-----------------------------------------------------------------------------
(* WhatsApp: a file is a sequence of lines, each with at most one stamp at its head. *)

FileKind == [f \in {"@photo", "@clip", "@sticker"} |->
               CASE f = "@photo" -> "image" [] f = "@clip" -> "video" [] OTHER -> "sticker"]
Omitted == "<omitted>"
Attachment(kind, file) == [kind |-> kind, file |-> file]

ExtractAttachments(t) ==
  LET found == SelectSeq(t, LAMBDA c : c \in DOMAIN FileKind)
      left  == SelectSeq(t, LAMBDA c : c \notin DOMAIN FileKind)
      named == [i \in DOMAIN found |-> Attachment(FileKind[found[i]], found[i])]
  IN IF Trim(left) = <<Omitted>>
       THEN [attachments |-> Append(named, Attachment("unknown", None)), remaining |-> << >>]
       ELSE [attachments |-> named, remaining |-> left]

SplitSender(rest) ==
  LET colons == {i \in DOMAIN rest : rest[i] = ":"}
      k == Min(colons)
      space == Len(rest) > k /\ rest[k + 1] = " "
  IN IF colons = {} \/ k = 1 THEN [sender |-> << >>, text |-> rest]
     ELSE [sender |-> SubSeq(rest, 1, k - 1), text |-> SubSeq(rest, IF space THEN k + 2 ELSE k + 1, Len(rest))]

Stamp(y, mo, d, h) == [date |-> <<d, mo, y>>, hour |-> h, half |-> None]
LookAlike == [date |-> <<12, 25, 2024>>, hour |-> 1, half |-> "p"]

\* The stamps at the head of a line, none or one, and what follows.
MatchHeader(line) ==
  IF line.head # << >> THEN line
  ELSE IF line.text # << >> /\ line.text[1] = "stamp" THEN [head |-> <<LookAlike>>, text |-> Tail(line.text)]
  ELSE line

Bare(ts, id, sender, kind) ==
  [id |-> id, ts |-> ts, senderId |-> sender, kind |-> kind, content |-> NoText, attachments |-> << >>,
   replyToId |-> 0, forwardedFrom |-> None, edited |-> FALSE, reactions |-> << >>]

Finalize(ts, index, sender, text) ==
  LET ex == ExtractAttachments(text)
      sticker == \E a \in Range(ex.attachments) : a.kind = "sticker"
      kind == IF ex.attachments # << >> THEN IF sticker THEN "sticker" ELSE "media"
              ELSE IF sender = << >> THEN "system" ELSE "text"
      rt == ParseWhatsAppMarkup(Trim(ex.remaining))
  IN [Bare(ts, index, IF sender = << >> THEN NoOne ELSE sender, kind) EXCEPT
        !.attachments = ex.attachments, !.content = IF rt.text = << >> THEN NoText ELSE rt]

\* The lines from one header to the next are one message; lines before the first are lost.
ParseWhatsApp(file) ==
  LET ls == [i \in DOMAIN file.lines |-> MatchHeader(file.lines[i])]
      at == Sorted({i \in DOMAIN ls : ls[i].head # << >>})
      order == DetectDateOrder([k \in DOMAIN at |-> ls[at[k]].head[1].date])
      Pending(k) ==
        LET split == SplitSender(ls[at[k]].text)
            last == IF k = Len(at) THEN Len(ls) ELSE at[k + 1] - 1
            body == Join(<<split.text>> \o [j \in 1 .. last - at[k] |-> ls[at[k] + j].text])
        IN Finalize(ToEpoch(ls[at[k]].head[1], order), k, split.sender, body)
      messages == [k \in DOMAIN at |-> Pending(k)]
      names == Distinct(SelectSeq([k \in DOMAIN messages |-> messages[k].senderId], LAMBDA s : s # NoOne))
  IN Conversation("whatsapp", IF Len(names) > 2 THEN "group" ELSE "dm", file.title,
                  [i \in DOMAIN names |-> Person(names[i], names[i], NoOne)], messages)

WhatsAppRow(c, m) ==
  LET sender == IF m.senderId = NoOne THEN << >> ELSE NameOf(c, m.senderId) \o <<":", " ">>
      text == RenderWhatsApp(m.content)
      named == SelectSeq(m.attachments, LAMBDA a : a.file # None)
      files == [i \in DOMAIN named |-> <<named[i].file>>]
      body == IF text # << >> THEN Join(<<text>> \o files)
              ELSE IF files # << >> THEN Join(files)
              ELSE IF m.attachments # << >> THEN <<Omitted>> ELSE << >>
      row == Lines(IF body = << >> THEN SubSeq(sender, 1, Len(sender) - 1) ELSE sender \o body)
  IN [i \in DOMAIN row |->
        [head |-> IF i = 1 THEN <<FormatWhatsAppTimestamp(m.ts)>> ELSE << >>, text |-> row[i]]]

ExportWhatsApp(c) ==
  [type |-> "txt", chat |-> TRUE, title |-> NoOne,
   lines |-> FlattenSeq([i \in DOMAIN c.messages |-> WhatsAppRow(c, c.messages[i])])]

-----------------------------------------------------------------------------
(* Telegram: the text of a message is a sequence of parts, a plain string being one part. *)

Same == {"bold", "italic", "underline", "strikethrough", "spoiler", "code", "pre", "blockquote",
         "mention", "hashtag", "email", "phone"}

MapEntityType(t) ==
  CASE t \in Same -> t
    [] t \in {"text_link", "link"} -> "link"
    [] t = "mention_name" -> "mention"
    [] t = "plain" -> None
    [] OTHER -> "custom"

\* Mutant of OurToTg: a link is plain text.
OurToTgNoLink(t) == IF t \in Same THEN t ELSE "plain"

OurToTg(t) == CASE t \in Same -> t [] t = "link" -> "text_link" [] OTHER -> "plain"

BuildRichText(parts) ==
  LET From(i) == FoldLeft(LAMBDA n, p : n + Len(p.text), 0, SubSeq(parts, 1, i - 1))
      ents == [i \in DOMAIN parts |-> Entity(MapEntityType(parts[i].type), From(i), Len(parts[i].text))]
  IN Rich(FlattenSeq([i \in DOMAIN parts |-> parts[i].text]), SelectSeq(ents, LAMBDA e : e.type # None))

BuildText(rt) ==
  [i \in DOMAIN Segments(rt) |->
     LET seg == Segments(rt)[i]
     IN [type |-> IF seg.types = << >> THEN "plain" ELSE OurToTg(seg.types[1]), text |-> seg.text]]

Media(photo, ref, type, mime) == [photo |-> photo, ref |-> ref, type |-> type, mime |-> mime]
NoMedia == Media(FALSE, None, None, None)

TgMediaKind(a) ==
  CASE a.photo -> "image"
    [] ~ a.photo /\ a.type = "sticker" -> "sticker"
    [] ~ a.photo /\ a.type \in {"video_file", "video_message"} -> "video"
    [] ~ a.photo /\ a.type = "voice_message" -> "voice"
    [] ~ a.photo /\ a.type = "audio_file" -> "audio"
    [] ~ a.photo /\ a.type = "animation" -> "gif"
    [] OTHER -> IF a.mime \in {"image", "video", "audio"} THEN a.mime ELSE "file"

TgMediaType(kind) ==
  CASE kind = "video" -> "video_file" [] kind = "voice" -> "voice_message" [] kind = "audio" -> "audio_file"
    [] kind = "gif" -> "animation" [] kind = "sticker" -> "sticker" [] OTHER -> "file"

\* A photo, a file, or a sticker whose file was not exported.
BuildAttachment(a) ==
  IF a.ref = None /\ a.type # "sticker" THEN << >> ELSE <<Attachment(TgMediaKind(a), a.ref)>>

\* What stands in for a message without text: the action of a service message, a poll, a
\* location, a contact.
Textual == [poll |-> <<"poll">>, location |-> <<"place">>, contact |-> <<"card">>, none |-> << >>]
ServiceText == <<"action">>

TgMessage(id, ts, from, fromId, text) ==
  [id |-> id, type |-> "message", ts |-> ts, from |-> from, fromId |-> fromId, actor |-> NoOne, actorId |-> NoOne, text |-> text,
   media |-> NoMedia, extra |-> None, reply |-> 0, forwarded |-> None, edited |-> FALSE, reactions |-> << >>]

SenderOf(m) ==
  LET name == IF m.type = "service" THEN m.actor ELSE m.from
      id == IF m.type = "service" THEN m.actorId ELSE m.fromId
  IN CASE id # NoOne -> Person(id, IF name = NoOne THEN id ELSE name, id)
       [] id = NoOne /\ name # NoOne -> Person(name, name, NoOne)
       [] OTHER -> Person(NoOne, NoOne, NoOne)

ImportMessage(m, idx) ==
  LET service == m.type = "service"
      said == BuildRichText(m.text)
      content == IF said = NoText /\ service THEN Rich(ServiceText, << >>) ELSE said
      att == BuildAttachment(m.media)
      kind == CASE service -> "service"
                [] ~ service /\ att # << >> -> IF att[1].kind = "sticker" THEN "sticker" ELSE "media"
                [] OTHER -> "text"
      special == content = NoText /\ m.extra # None
  IN [Bare(m.ts, IF m.id # 0 THEN m.id ELSE idx, SenderOf(m).id, IF special THEN m.extra ELSE kind) EXCEPT
        !.content = IF special THEN Rich(Textual[m.extra], << >>) ELSE content,
        !.attachments = att, !.replyToId = m.reply, !.forwardedFrom = m.forwarded, !.edited = m.edited,
        !.reactions = m.reactions]

\* The first message of a sender gives the participant its name.
ParseTelegram(file) ==
  LET ms == file.messages
      senders == SelectSeq([i \in DOMAIN ms |-> SenderOf(ms[i])], LAMBDA p : p.id # NoOne)
      ids == Distinct([i \in DOMAIN senders |-> senders[i].id])
      First(id) == senders[Min({i \in DOMAIN senders : senders[i].id = id})]
      kind == CASE file.chatType = "public_channel" -> "channel"
                [] file.chatType = "private_group" -> "group"
                [] OTHER -> IF Len(ids) > 2 THEN "group" ELSE "dm"
  IN Conversation("telegram", kind, file.title, [i \in DOMAIN ids |-> First(ids[i])],
                  [i \in DOMAIN ms |-> ImportMessage(ms[i], i)])

FilePlaceholder == "@missing"

\* The number that the export gives to the message with this id: its position.
TgPosition(c, id) ==
  LET at == {i \in DOMAIN c.messages : c.messages[i].id = id}
  IN IF at = {} THEN 0 ELSE Max(at)

ExportMessage(c, i) ==
  LET m == c.messages[i]
      p == {q \in Range(c.participants) : q.id = m.senderId}
      who == CHOOSE q \in p : TRUE
      a == Head(m.attachments)
      ref == IF a.file = None THEN FilePlaceholder ELSE a.file
      base == TgMessage(i, m.ts, IF p = {} THEN NoOne ELSE who.name,
                        IF p = {} THEN NoOne ELSE IF who.handle # NoOne THEN who.handle ELSE <<"user">> \o who.id,
                        BuildText(m.content))
  IN [base EXCEPT
        !.type = IF m.kind \in {"service", "system"} THEN "service" ELSE "message",
        !.media = IF m.attachments = << >> THEN NoMedia
                  ELSE IF a.kind = "image" THEN Media(TRUE, ref, None, None)
                  ELSE Media(FALSE, ref, TgMediaType(a.kind), None),
        !.reply = TgPosition(c, m.replyToId), !.forwarded = m.forwardedFrom, !.edited = m.edited,
        !.reactions = m.reactions]

ExportTelegram(c) ==
  [type |-> "json", title |-> c.title,
   chatType |-> CASE c.kind = "dm" -> "personal_chat" [] c.kind = "channel" -> "public_channel"
                  [] OTHER -> "private_group",
   messages |-> [i \in DOMAIN c.messages |-> ExportMessage(c, i)]]
=============================================================================
