---- MODULE MCConverter ----
EXTENDS Converter

Plain(text) == [head |-> << >>, text |-> text]
Line(y, mo, d, h, text) == [head |-> <<Stamp(y, mo, d, h)>>, text |-> text]
Chat(lines) == [type |-> "txt", chat |-> TRUE, title |-> NoOne, lines |-> lines]
Named(chat, lines) == [type |-> "txt", chat |-> chat, title |-> <<"t">>, lines |-> lines]
A == <<"a", ":", " ">>

\* One message with every text of two parts, and the interesting ones of three and four.
Short == {Chat(<<Line(2024, 2, 3, 5, A \o t)>>) :
            t \in SeqOf({"a", " ", "*", "_", "@photo"}, 2) \cup SeqOf({"a", " ", "*"}, 3) \cup SeqOf({"a", "*", "_"}, 3)
                   \cup [1 .. 4 -> {"a", "*"}]}
SystemText == {Chat(<<Line(2024, 2, 3, 5, t)>>) : t \in SeqOf({"a", " ", ":", "*"}, 2) \cup SeqOf({"a", " ", ":"}, 3)}

\* Stamps of a chat in the United States: month before day.
Us(mo, d, h, half) == [head |-> <<[date |-> <<mo, d, 24>>, hour |-> h, half |-> half]>>, text |-> A \o <<"a">>]
Iso(y, mo, d) == [head |-> <<[date |-> <<y, mo, d>>, hour |-> 3, half |-> None]>>, text |-> <<"b", ":", "a">>]

Chats ==
  {Chat(<<Us(2, 3, 12, "a"), Us(2, 30, 12, "p"), Us(3, 1, 7, "p")>>),
   Chat(<<Iso(2024, 12, 30), Iso(2025, 1, 2)>>),
   Chat(<<Line(2024, 3, 31, 1, A \o <<"*", "b">>), Plain(<<"a", "*">>), Plain(<< >>), Plain(<<"stamp", "a", ":", "b">>)>>),
   Chat(<<Line(2024, 3, 2, 1, A \o <<"mono", "*", "mono", "~", "b", "~">>), Line(2024, 3, 3, 1, <<"b", ":", " ", "<omitted>">>),
          Line(2024, 3, 3, 2, A \o <<"@sticker", "@photo">>), Line(2024, 3, 4, 2, <<"c", ":">>),
          Line(2024, 3, 4, 3, A \o <<"b", "b", " ", "*", "_", "a", "_", "*">>)>>),
   Named(FALSE, <<Plain(<<"b">>), Plain(<<"a">>), Line(2024, 1, 2, 3, A)>>)}

Part(type, text) == [type |-> type, text |-> text]
M1 == TgMessage(7, 474336, <<"a">>, <<"u1">>, <<Part("plain", <<"a", " ">>), Part("bold", <<"b">>), Part("text_link", <<"a">>)>>)
M2 == [TgMessage(9, 474337, <<"b">>, NoOne, <<Part("plain", <<"*", "a", "*">>)>>) EXCEPT
         !.reply = 7, !.reactions = <<"heart", "ok">>, !.edited = TRUE]
M3 == [TgMessage(0, 474338, <<"a">>, <<"u1">>, << >>) EXCEPT !.media = Media(FALSE, "@clip", "video_file", "video"), !.reply = 5]
M4 == [TgMessage(12, 474339, NoOne, <<"u3">>, << >>) EXCEPT !.extra = "poll", !.forwarded = "x"]
M5 == [TgMessage(13, 474340, NoOne, NoOne, << >>) EXCEPT !.type = "service", !.actor = <<"a">>, !.actorId = <<"u1">>]
M6 == [TgMessage(14, 474341, <<"b">>, NoOne, <<Part("mention_name", <<"b">>), Part("bank_card", <<"1">>), Part("plain", <<"\n", "a">>)>>)
         EXCEPT !.media = Media(FALSE, None, "sticker", None), !.reply = 12]
M7 == [TgMessage(15, 474342, <<"c">>, NoOne, <<Part("underline", <<"a">>)>>) EXCEPT !.media = Media(TRUE, "@photo", None, None)]
Tg(type, ms) == [type |-> "json", title |-> <<"t">>, chatType |-> type, messages |-> ms]

Telegrams == {Tg("personal_chat", <<M1, M2, M3>>), Tg("private_group", <<M4, M5, M6>>), Tg("public_channel", <<M7>>),
              Tg("personal_chat", <<M1, M2, M7>>)}
Rest == {[type |-> "zip", files |-> <<CHOOSE c \in Chats : Len(c.lines) = 2, Tg("personal_chat", <<M1, M2>>)>>],
         [type |-> "bin"], Named(FALSE, <<Plain(<<"a">>)>>)}

MCFiles == Short \cup SystemText \cup Chats \cup Telegrams \cup Rest
MCOthers == {Tg("personal_chat", <<M1, M2>>), [type |-> "bin"]}
MCSources == {"auto", "whatsapp", "telegram"}
MCNewName == <<"b">>
====
