------------------------------ MODULE RichText ------------------------------
(***************************************************************************)
(* Canonical rich text (packages/core/src/richtext.ts): a text with        *)
(* entities, its segmentation, its rendering to the export formats and the *)
(* WhatsApp markup parser.                                                 *)
(*                                                                         *)
(* A text is a sequence of characters, each a string: "a" and its like are *)
(* letters, "mono" is the triple back-tick.                                *)
(***************************************************************************)
EXTENDS SequencesExt, FiniteSetsExt, Naturals

Blanks == {" ", "\n"}
Mono == "mono"
Style == [c \in {"*", "_", "~", Mono} |->
            CASE c = "*" -> "bold" [] c = "_" -> "italic" [] c = "~" -> "strikethrough" [] OTHER -> "code"]

Letter(c) == c \in {"a", "b", "c", "1"}

Rich(text, entities) == [text |-> text, entities |-> entities]
NoText == Rich(<< >>, << >>)
Entity(type, offset, length) == [type |-> type, offset |-> offset, length |-> length]
Shift(entities, n) == [i \in DOMAIN entities |-> [entities[i] EXCEPT !.offset = @ + n]]

\* The numbers of a set in increasing order.
Sorted(S) == [i \in 1 .. Cardinality(S) |-> CHOOSE n \in S : Cardinality({k \in S : k < n}) = i - 1]

-----------------------------------------------------------------------------
(* Segments *)

Clamp(rt, n) == Min({Len(rt.text), n})

\* The positions at which an entity begins or ends.
Bounds(rt) ==
  {0, Len(rt.text)} \cup UNION {{Clamp(rt, e.offset), Clamp(rt, e.offset + e.length)} : e \in Range(rt.entities)}

Active(rt, start, end) ==
  SelectSeq(rt.entities, LAMBDA e : e.offset <= start /\ e.offset + e.length >= end)

Segments(rt) ==
  IF rt.entities = << >>
    THEN IF rt.text = << >> THEN << >> ELSE <<[text |-> rt.text, types |-> << >>]>>
    ELSE LET p == Sorted(Bounds(rt))
         IN [i \in 1 .. Len(p) - 1 |->
               LET on == Active(rt, p[i], p[i + 1])
               IN [text |-> SubSeq(rt.text, p[i] + 1, p[i + 1]), types |-> [k \in DOMAIN on |-> on[k].type]]]

-----------------------------------------------------------------------------
(* Renderers: each active type that the format can express wraps the segment, in order. *)

HtmlMarks == [bold |-> "strong", italic |-> "em", underline |-> "u", strikethrough |-> "s", code |-> "code",
              pre |-> "pre", blockquote |-> "blockquote", spoiler |-> "span", link |-> "a", mention |-> "span"]
MarkdownMarks == [bold |-> "**", italic |-> "_", strikethrough |-> "~~", code |-> "tick", pre |-> Mono,
                  spoiler |-> "||", link |-> "[]"]
WhatsAppMarks == [bold |-> "*", italic |-> "_", strikethrough |-> "~", code |-> Mono, pre |-> Mono]

Render(rt, marks) ==
  LET Wrap(t, type) == IF type \in DOMAIN marks THEN <<marks[type]>> \o t \o <<marks[type]>> ELSE t
  IN FlattenSeq([i \in DOMAIN Segments(rt) |-> FoldLeft(Wrap, Segments(rt)[i].text, Segments(rt)[i].types)])

RenderWhatsApp(rt) == Render(rt, WhatsAppMarks)

-----------------------------------------------------------------------------
(* WhatsApp markup *)

\* Where the marker at i of s, read as the string from lo to hi, may be closed.
Closings(s, lo, hi, i) ==
  {k \in i + 2 .. hi :
     /\ s[k] = s[i]
     /\ s[i] # Mono =>
          /\ s[i + 1] \notin Blanks /\ s[k - 1] \notin Blanks
          /\ i = lo \/ ~ Letter(s[i - 1])
          /\ k = hi \/ ~ Letter(s[k + 1])}

Openings(s, lo, hi, from) ==
  {i \in from .. hi : s[i] \in DOMAIN Style /\ Closings(s, lo, hi, i) # {}}

\* Mutant of Nested: an inner entity keeps its offset in the inner text.
NestedUnshifted(entities, n) == entities

\* The entities of a styled text that begins after n characters.
Nested(entities, n) == Shift(entities, n)

\* The leftmost marker that can be closed, at its first closing; the inside is parsed as a
\* text of its own, unless it is monospace.
ParseWhatsAppMarkup(s) ==
  LET walk[r \in (1 .. Len(s) + 1) \X (1 .. Len(s) + 1) \X (0 .. Len(s))] ==
        LET from == r[1]  lo == r[2]  hi == r[3]
            open == Openings(s, lo, hi, from)
        IN IF open = {} THEN Rich(SubSeq(s, from, hi), << >>)
           ELSE LET i == Min(open)
                    k == Min(Closings(s, lo, hi, i))
                    before == SubSeq(s, from, i - 1)
                    inner == IF s[i] = Mono THEN Rich(SubSeq(s, i + 1, k - 1), << >>)
                                            ELSE walk[<<i + 1, i + 1, k - 1>>]
                    rest == walk[<<k + 1, lo, hi>>]
                    n == Len(before)
                IN Rich(before \o inner.text \o rest.text,
                        Nested(inner.entities, n) \o <<Entity(Style[s[i]], n, Len(inner.text))>>
                          \o Shift(rest.entities, n + Len(inner.text)))
  IN walk[<<1, 1, Len(s)>>]

\* Two entities overlap partly, or one begins or ends inside the other: the renderers cut
\* the longer one in pieces.
Cut(rt) ==
  \E d, e \in Range(rt.entities) :
    /\ <<d.offset, d.offset + d.length>> # <<e.offset, e.offset + e.length>>
    /\ Max({d.offset, e.offset}) < Min({d.offset + d.length, e.offset + e.length})

=============================================================================
