--------------------------- MODULE ConverterProofs ---------------------------
(***************************************************************************)
(* What the page shows after a conversion, for every set of exports,       *)
(* targets and edits: the engine is a black box there, and the proof uses  *)
(* only that a request's answer is its function of what it carries.  Then  *)
(* the engine itself: the times of a WhatsApp export and the messages of a *)
(* Telegram export are read back as they were, however many there are.     *)
(***************************************************************************)
EXTENDS Converter, Integers, FiniteSetTheorems, SequenceTheorems, WellFoundedInduction, TLAPS

IsExport(q) == q.action = "export"

\* The queue is a sequence of its own elements.
TypeOK == requests \in Seq(Range(requests))

\* The answer that an export request carries is that of the conversation and target it carries.
AnswerIsExport ==
  \A i \in DOMAIN requests :
    IsExport(requests[i]) =>
      requests[i].answer = ExportConversation(requests[i].conversation, requests[i].target)

\* A request that nothing has changed under carries what is on the page.
PendingIsCurrent ==
  ~ touched =>
    \A i \in DOMAIN requests :
      IsExport(requests[i]) =>
        /\ imported # Nothing
        /\ requests[i].conversation = ApplyEdits(imported[1], edits)
        /\ requests[i].target = target

Fresh == TypeOK /\ AnswerIsExport /\ PendingIsCurrent /\ ReportIsCurrent

LEMMA AppendType ==
  ASSUME NEW s, s \in Seq(Range(s)), NEW e
  PROVE  /\ Append(s, e) \in Seq(Range(Append(s, e)))
         /\ DOMAIN Append(s, e) = DOMAIN s \cup {Len(s) + 1}
         /\ \A i \in DOMAIN s : Append(s, e)[i] = s[i] /\ i # Len(s) + 1
         /\ Append(s, e)[Len(s) + 1] = e
<1> DEFINE S == Range(s) \cup {e}
           t == Append(s, e)
<1>1. s \in Seq(S) /\ e \in S
  OBVIOUS
<1> HIDE DEF S
<1>2. /\ t \in Seq(S) /\ Len(t) = Len(s) + 1 /\ Len(s) \in Nat
      /\ DOMAIN t = 1 .. Len(s) + 1 /\ DOMAIN s = 1 .. Len(s)
      /\ \A i \in 1 .. Len(s) : t[i] = s[i]
      /\ t[Len(s) + 1] = e
  BY <1>1
<1>3. t \in Seq(Range(t))
  BY <1>2 DEF Range
<1>4. QED
  BY <1>2, <1>3

LEMMA TailType ==
  ASSUME NEW s, s \in Seq(Range(s)), s # << >>
  PROVE  /\ Tail(s) \in Seq(Range(Tail(s)))
         /\ \A i \in DOMAIN Tail(s) : i + 1 \in DOMAIN s /\ Tail(s)[i] = s[i + 1]
         /\ 1 \in DOMAIN s /\ Head(s) = s[1]
<1> DEFINE t == Tail(s)
           S == Range(s)
<1> HIDE DEF S
<1>1. s \in Seq(S)
  BY DEF S
<1>2. /\ t \in Seq(S) /\ Len(t) = Len(s) - 1 /\ Len(s) \in Nat \ {0}
      /\ DOMAIN t = 1 .. Len(s) - 1 /\ DOMAIN s = 1 .. Len(s)
      /\ \A i \in 1 .. Len(s) - 1 : t[i] = s[i + 1]
      /\ Head(s) = s[1]
  BY <1>1
<1> HIDE DEF t
<1>3. Len(t) \in Nat /\ DOMAIN t = 1 .. Len(t) /\ t = [i \in 1 .. Len(t) |-> t[i]]
  BY <1>2
<1>4. \A i \in 1 .. Len(t) : t[i] \in Range(t)
  BY <1>3 DEF Range
<1>5. t \in Seq(Range(t))
  BY <1>3, <1>4
<1>6. QED
  BY <1>2, <1>5 DEF t

-----------------------------------------------------------------------------
(* What a step does to the queue of requests *)

Exports(s) == {i \in DOMAIN s : IsExport(s[i])}

\* The queue stays, loses its first request, or gets an import or, from Convert, an export at
\* its end.
NoNewExport ==
  \A i \in Exports(requests') : \E j \in Exports(requests) : requests'[i] = requests[j]

\* A step that neither converts nor answers an export: no export is added; what is on the page
\* is touched when it changes under an export; and the report is dropped with it.
Keeps ==
  /\ TypeOK' /\ NoNewExport
  /\ Exporting => touched' \/ (touched' = touched /\ imported' = imported /\ edits' = edits /\ target' = target)
  /\ touched => touched'
  /\ \/ shown' = Nothing
     \/ phase' # "editing"
     \/ imported' = Nothing
     \/ /\ shown' = shown /\ imported' = imported /\ edits' = edits /\ target' = target
        /\ phase = "editing"

LEMMA QueueKept ==
  ASSUME TypeOK, UNCHANGED requests
  PROVE  TypeOK' /\ NoNewExport
BY DEF TypeOK, NoNewExport, Exports

LEMMA QueueGetsImport ==
  ASSUME TypeOK, NEW q, ~ IsExport(q), requests' = Append(requests, q)
  PROVE  TypeOK' /\ NoNewExport
<1>1. TypeOK'
  BY AppendType DEF TypeOK
<1>2. ASSUME NEW i \in Exports(requests')
      PROVE  i \in Exports(requests) /\ requests'[i] = requests[i]
  BY <1>2, AppendType DEF TypeOK, Exports
<1>3. QED
  BY <1>1, <1>2 DEF NoNewExport

LEMMA QueueLosesHead ==
  ASSUME TypeOK, requests # << >>, requests' = Tail(requests)
  PROVE  TypeOK' /\ NoNewExport
<1>1. TypeOK'
  BY TailType DEF TypeOK
<1>2. ASSUME NEW i \in Exports(requests')
      PROVE  i + 1 \in Exports(requests) /\ requests'[i] = requests[i + 1]
  BY <1>2, TailType DEF TypeOK, Exports
<1>3. QED
  BY <1>1, <1>2 DEF NoNewExport

\* Every edit of the editor is an Edit, which drops the report.
LEMMA EditKeeps ==
  ASSUME TypeOK, NEW e, Edit(e)
  PROVE  Keeps
BY QueueKept DEF Edit, Change, Keeps, picks

LEMMA EditorKeeps ==
  ASSUME TypeOK, SetTitle \/ SetKind \/ SetRename \/ SetDateRange \/ ToggleRemove
  PROVE  Keeps
<1>1. CASE SetTitle
  BY <1>1, EditKeeps DEF SetTitle
<1>2. CASE SetKind
  BY <1>2, EditKeeps DEF SetKind
<1>3. CASE SetRename
  BY <1>3, EditKeeps DEF SetRename
<1>4. CASE SetDateRange
  BY <1>4, EditKeeps DEF SetDateRange
<1>5. CASE ToggleRemove
  BY <1>5, EditKeeps DEF ToggleRemove
<1>6. QED
  BY <1>1, <1>2, <1>3, <1>4, <1>5

\* All that the page and the worker do, but asking for a conversion and answering it.
LEMMA OthersKeep ==
  ASSUME TypeOK, [Next]_vars, ~ Convert, ~ AnswerExport
  PROVE  Keeps
<1>1. ASSUME NEW f, SetFile(f) PROVE Keeps
  BY <1>1, QueueKept DEF SetFile, Change, Keeps
<1>2. ASSUME NEW s, SetSource(s) PROVE Keeps
  BY <1>2, QueueKept DEF SetSource, Change, Keeps, doc
<1>3. ASSUME NEW t, SetTarget(t) PROVE Keeps
  BY <1>3, QueueKept DEF SetTarget, Change, Keeps, doc
<1>4. CASE Import
  BY <1>4, QueueKept DEF Import, Keeps, picks, doc
<1>5. ASSUME NEW r, ReadFile(r) PROVE Keeps
  <2>1. TypeOK' /\ NoNewExport
    BY <1>5, QueueGetsImport DEF ReadFile, IsExport
  <2>2. QED
    BY <1>5, <2>1 DEF ReadFile, Keeps, picks, doc
<1>6. ASSUME NEW r, ReadFails(r) PROVE Keeps
  BY <1>6, QueueKept DEF ReadFails, Keeps, picks, doc
<1>7. CASE AnswerImport
  <2>1. TypeOK' /\ NoNewExport
    BY <1>7, QueueLosesHead DEF AnswerImport
  <2>2. UNCHANGED target
    BY <1>7 DEF AnswerImport, picks
  <2>3. CASE touched' = (touched \/ Exporting) /\ shown' = Nothing
    BY <2>1, <2>3 DEF Keeps
  <2>4. CASE phase' = "error" /\ UNCHANGED <<doc, shown, touched>>
    BY <2>1, <2>2, <2>4 DEF Keeps, doc
  <2>5. QED
    BY <1>7, <2>3, <2>4 DEF AnswerImport
<1>8. CASE ResetEdits
  BY <1>8, QueueKept DEF ResetEdits, Keeps, picks
<1>9. CASE Reset
  BY <1>9, QueueKept DEF Reset, Keeps
<1>10. CASE UNCHANGED vars
  BY <1>10, QueueKept DEF vars, Keeps
<1>11. QED
  BY <1>1, <1>2, <1>3, <1>4, <1>5, <1>6, <1>7, <1>8, <1>9, <1>10, EditorKeeps DEF Next

-----------------------------------------------------------------------------
(* The invariant *)

LEMMA FreshInit == Init => Fresh
<1> SUFFICES ASSUME Init PROVE Fresh
  OBVIOUS
<1>1. requests = << >> /\ shown = Nothing /\ DOMAIN requests = {}
  BY DEF Init
<1>2. TypeOK
  BY <1>1 DEF TypeOK
<1>3. QED
  BY <1>1, <1>2 DEF Fresh, AnswerIsExport, PendingIsCurrent, ReportIsCurrent

LEMMA KeepsFresh ==
  ASSUME Fresh, Keeps
  PROVE  Fresh'
<1> USE DEF Fresh, Keeps
<1>1. AnswerIsExport'
  BY DEF AnswerIsExport, NoNewExport, Exports
<1>2. PendingIsCurrent'
  <2> SUFFICES ASSUME ~ touched', NEW i \in Exports(requests')
               PROVE  /\ imported' # Nothing
                      /\ requests'[i].conversation = ApplyEdits(imported'[1], edits')
                      /\ requests'[i].target = target'
    BY DEF PendingIsCurrent, Exports
  <2>1. PICK j \in Exports(requests) : requests'[i] = requests[j]
    BY DEF NoNewExport
  <2>2. Exporting
    BY <2>1 DEF Exporting, Exports, IsExport
  <2>3. ~ touched /\ UNCHANGED <<imported, edits, target>>
    BY <2>2
  <2>4. QED
    BY <2>1, <2>3 DEF PendingIsCurrent, Exports
<1>3. ReportIsCurrent'
  BY DEF ReportIsCurrent
<1>4. QED
  BY <1>1, <1>2, <1>3

\* The request that Convert makes carries what is on the page, which it is busy over: nothing
\* is shown until an answer comes.
LEMMA ConvertFresh ==
  ASSUME Fresh, Convert
  PROVE  Fresh'
<1> DEFINE c == ApplyEdits(imported[1], edits)
           q == [action |-> "export", target |-> target, conversation |-> c,
                 answer |-> ExportConversation(c, target)]
<1>1. /\ imported # Nothing /\ phase' = "exporting"
      /\ requests' = Append(requests, q)
      /\ touched' = (touched /\ Exporting)
      /\ UNCHANGED <<imported, edits, target>>
  BY DEF Convert, picks, doc
<1>2. /\ q.target = target /\ q.conversation = c
      /\ q.answer = ExportConversation(q.conversation, q.target)
  OBVIOUS
<1> HIDE DEF q
<1>3. TypeOK'
  BY <1>1, AppendType DEF Fresh, TypeOK
<1>4. \A i \in DOMAIN requests' : (i \in DOMAIN requests /\ requests'[i] = requests[i]) \/ requests'[i] = q
  BY <1>1, AppendType DEF Fresh, TypeOK
<1>5. AnswerIsExport'
  BY <1>2, <1>4 DEF Fresh, AnswerIsExport
<1>6. PendingIsCurrent'
  <2> SUFFICES ASSUME ~ touched', NEW i \in DOMAIN requests', IsExport(requests'[i])
               PROVE  requests'[i].conversation = c /\ requests'[i].target = target
    BY <1>1 DEF PendingIsCurrent
  <2>1. CASE requests'[i] = q
    BY <2>1, <1>2
  <2>2. CASE i \in DOMAIN requests /\ requests'[i] = requests[i]
    <3>1. Exporting
      BY <2>2 DEF Exporting, IsExport
    <3>2. ~ touched
      BY <3>1, <1>1
    <3>3. QED
      BY <2>2, <3>2 DEF Fresh, PendingIsCurrent
  <2>3. QED
    BY <1>4, <2>1, <2>2
<1>7. ReportIsCurrent'
  BY <1>1 DEF ReportIsCurrent
<1>8. QED
  BY <1>3, <1>5, <1>6, <1>7 DEF Fresh

\* The answer is shown: unless touched, it is that of what is on the page.
LEMMA AnswerFresh ==
  ASSUME Fresh, AnswerExport
  PROVE  Fresh'
<1>1. /\ requests # << >> /\ IsExport(Head(requests)) /\ requests' = Tail(requests)
      /\ shown' = <<Head(requests).answer>>
      /\ UNCHANGED <<imported, edits, target, touched>>
  BY DEF AnswerExport, IsExport, picks, doc
<1>2. TypeOK' /\ NoNewExport
  BY <1>1, QueueLosesHead DEF Fresh
<1>3. AnswerIsExport' /\ PendingIsCurrent'
  BY <1>1, <1>2 DEF Fresh, AnswerIsExport, PendingIsCurrent, NoNewExport, Exports
<1>4. ReportIsCurrent'
  <2> DEFINE q == Head(requests)
  <2>1. 1 \in DOMAIN requests /\ q = requests[1]
    BY <1>1, TailType DEF Fresh, TypeOK
  <2>2. q.answer = ExportConversation(q.conversation, q.target)
    BY <1>1, <2>1 DEF Fresh, AnswerIsExport
  <2>3. ~ touched => q.conversation = ApplyEdits(imported[1], edits) /\ q.target = target
    BY <1>1, <2>1 DEF Fresh, PendingIsCurrent
  <2>4. shown'[1] = q.answer
    BY <1>1
  <2>5. QED
    BY <1>1, <2>2, <2>3, <2>4 DEF ReportIsCurrent
<1>5. QED
  BY <1>2, <1>3, <1>4 DEF Fresh

LEMMA FreshNext == Fresh /\ [Next]_vars => Fresh'
BY OthersKeep, KeepsFresh, ConvertFresh, AnswerFresh DEF Fresh

\* The artifact and the fidelity report on the page are those of the conversation, the edits and
\* the target on the page, whatever was imported, edited, retargeted and converted again on the
\* way, unless one of these changed while a conversion ran (features/converter/store.ts,
\* Converter.tsx).
THEOREM ReportCurrent == Spec => []ReportIsCurrent
<1>1. Fresh => ReportIsCurrent
  BY DEF Fresh
<1>2. QED
  BY FreshInit, FreshNext, <1>1, PTL DEF Spec

-----------------------------------------------------------------------------
(* Numbers *)

LEMMA LeastElement ==
  ASSUME NEW S \in SUBSET Nat, S # {}
  PROVE  \E x \in S : \A y \in S : x <= y
<1>. DEFINE less == OpToRel(<, Nat)
<1>1. \E x \in S : \A y \in S : <<y, x>> \notin less
  <2>1. IsWellFoundedOn(less, Nat)
    BY NatLessThanWellFounded
  <2>. HIDE DEF less
  <2>. QED
    BY <2>1, WFMin
<1>2. \A x, y \in S : <<y, x>> \notin less => x <= y
  BY DEF OpToRel
<1>. QED
  BY <1>1, <1>2

\* Induction over the natural numbers: the least number that is missing has a predecessor.
LEMMA Induction ==
  ASSUME NEW S \in SUBSET Nat, 0 \in S, \A n \in S : n + 1 \in S
  PROVE  S = Nat
<1>. SUFFICES ASSUME Nat \ S # {} PROVE FALSE
  OBVIOUS
<1>1. PICK m \in Nat \ S : \A k \in Nat \ S : m <= k
  BY LeastElement
<1>2. m - 1 \in S
  BY <1>1
<1>. QED
  BY <1>1, <1>2

-----------------------------------------------------------------------------
(* Times *)

LEMMA FormattedIs ==
  ASSUME NEW ts \in Nat
  PROVE  LET s == FormatWhatsAppTimestamp(ts)
         IN s.date[1] \in 1 .. 31 /\ s.date[2] \in 1 .. 12 /\ ToEpoch(s, "dmy") = ts
<1>. DEFINE day == ts \div 24
            h == ts % 24
            q == day \div 372
            r == day % 372
            a == r \div 31
            b == day % 31
<1>1. day \in Nat /\ h \in 0 .. 23 /\ ts = 24 * day + h
  OBVIOUS
<1>2. q \in Nat /\ r \in 0 .. 371 /\ day = 372 * q + r
  BY <1>1
<1>3. a \in 0 .. 11 /\ b \in 0 .. 30 /\ r = 31 * a + b
  BY <1>1, <1>2
<1>4. FormatWhatsAppTimestamp(ts) = [date |-> <<1 + b, 1 + a, 1970 + q>>, hour |-> h, half |-> None]
  BY DEF FormatWhatsAppTimestamp
<1>. HIDE DEF day, h, q, r, a, b
<1>5. ToEpoch([date |-> <<1 + b, 1 + a, 1970 + q>>, hour |-> h, half |-> None], "dmy")
        = ((q * 12 + a) * 31 + b) * 24 + h
  BY <1>1, <1>2, <1>3 DEF ToEpoch, Hours, None
<1>6. ((q * 12 + a) * 31 + b) * 24 + h = ts
  BY <1>1, <1>2, <1>3
<1>. QED
  BY <1>1, <1>2, <1>3, <1>4, <1>5, <1>6

\* The times of a WhatsApp export are read back as they were: its dates, day first, cannot be
\* taken for dates with the month or the year first, however many there are (exporters/whatsapp.ts
\* formatTimestamp; importers/whatsapp.ts detectDateOrder and toEpoch).
THEOREM TimesReadBack ==
  ASSUME NEW times \in Seq(Nat)
  PROVE  LET stamps == [k \in DOMAIN times |-> FormatWhatsAppTimestamp(times[k])]
             order  == DetectDateOrder([k \in DOMAIN stamps |-> stamps[k].date])
         IN \A k \in DOMAIN times : ToEpoch(stamps[k], order) = times[k]
<1>. DEFINE stamps == [k \in DOMAIN times |-> FormatWhatsAppTimestamp(times[k])]
            dates == [k \in DOMAIN stamps |-> stamps[k].date]
            dmy == {i \in DOMAIN dates \ {} : dates[i][1] > 12}
<1>1. \A k \in DOMAIN times : /\ stamps[k].date[1] \in 1 .. 31 /\ stamps[k].date[2] \in 1 .. 12
                             /\ ToEpoch(stamps[k], "dmy") = times[k]
  <2>. SUFFICES ASSUME NEW k \in DOMAIN times
                PROVE  /\ stamps[k].date[1] \in 1 .. 31 /\ stamps[k].date[2] \in 1 .. 12
                       /\ ToEpoch(stamps[k], "dmy") = times[k]
    OBVIOUS
  <2>1. times[k] \in Nat /\ stamps[k] = FormatWhatsAppTimestamp(times[k])
    OBVIOUS
  <2>. HIDE DEF stamps
  <2>. QED
    BY <2>1, FormattedIs
<1>2. DOMAIN dates = DOMAIN times /\ DOMAIN dates = 1 .. Len(dates) /\ Len(dates) \in Nat
      /\ \A i \in DOMAIN dates : dates[i] = stamps[i].date
  OBVIOUS
<1>. HIDE DEF stamps, dates
<1>4. {i \in DOMAIN dates : dates[i][1] > 31} = {} /\ {i \in DOMAIN dates \ ({} \cup dmy) : dates[i][2] > 12} = {}
  <2>1. ASSUME NEW i \in DOMAIN dates PROVE ~ dates[i][1] > 31 /\ ~ dates[i][2] > 12
    <3>1. dates[i] = stamps[i].date /\ stamps[i].date[1] \in 1 .. 31 /\ stamps[i].date[2] \in 1 .. 12
      BY <1>1, <1>2
    <3>2. dates[i][1] \in 1 .. 31 /\ dates[i][2] \in 1 .. 12
      BY <3>1, Zenon
    <3>3. (\A z \in 1 .. 31 : ~ z > 31) /\ (\A z \in 1 .. 12 : ~ z > 12)
      OBVIOUS
    <3>. QED
      BY <3>2, <3>3, Zenon
  <2>. QED
    BY <2>1
<1>5. Cardinality({}) = 0 /\ Cardinality(dmy) \in Nat
  <2>1. IsFiniteSet(1 .. Len(dates))
    BY <1>2, FS_Interval
  <2>2. IsFiniteSet(dmy)
    BY <1>2, <2>1, FS_Subset
  <2>. QED
    BY <2>2, FS_EmptySet, FS_CardinalityType
<1>. HIDE DEF dmy
<1>6. DetectDateOrder(dates) = "dmy"
  <2>1. ~ (2 * Cardinality({}) > Len(dates)) /\ ~ (Cardinality({}) > Cardinality(dmy))
    BY <1>2, <1>5
  <2>. QED
    BY <1>4, <2>1, Zenon DEF DetectDateOrder, dmy
<1>. QED
  BY <1>1, <1>6 DEF stamps, dates

-----------------------------------------------------------------------------
(* Sets of numbers in order, and texts put together *)

\* What is smaller than x in S.
Below(S, x) == {k \in S : k < x}
Rank(S, x) == Cardinality(Below(S, x))

LEMMA BelowIs ==
  ASSUME NEW S, NEW x
  PROVE  /\ Below(S, x) \subseteq S
         /\ \A k \in S : k \in Below(S, x) <=> k < x
         /\ IsFiniteSet(S) => IsFiniteSet(Below(S, x)) /\ Rank(S, x) \in Nat
<1>1. Below(S, x) \subseteq S /\ \A k \in S : k \in Below(S, x) <=> k < x
  BY DEF Below
<1>2. IsFiniteSet(S) => IsFiniteSet(Below(S, x))
  BY <1>1, FS_Subset
<1>. QED
  BY <1>1, <1>2, FS_CardinalityType DEF Rank

LEMMA RanksGrow ==
  ASSUME NEW S, IsFiniteSet(S), \A k \in S : k \in Int, NEW x \in S, NEW y \in S, x < y
  PROVE  Rank(S, x) < Rank(S, y)
<1>1. x \in Int /\ y \in Int
  OBVIOUS
<1>2. Below(S, x) \subseteq Below(S, y)
  <2>. SUFFICES ASSUME NEW k \in Below(S, x) PROVE k \in Below(S, y)
    OBVIOUS
  <2>1. k \in S /\ k \in Int
    BY BelowIs
  <2>2. k < x
    BY <2>1, BelowIs
  <2>3. k < y
    BY <1>1, <2>1, <2>2
  <2>. QED
    BY <2>1, <2>3, BelowIs
<1>3. x \in Below(S, y) /\ x \notin Below(S, x)
  BY <1>1, BelowIs
<1>4. IsFiniteSet(Below(S, x)) /\ IsFiniteSet(Below(S, y)) /\ Rank(S, x) \in Nat /\ Rank(S, y) \in Nat
  BY BelowIs
<1>5. Cardinality(Below(S, x) \cup {x}) = Rank(S, x) + 1
  BY <1>3, <1>4, FS_AddElement DEF Rank
<1>6. Cardinality(Below(S, x) \cup {x}) <= Rank(S, y)
  <2>1. Below(S, x) \cup {x} \subseteq Below(S, y)
    BY <1>2, <1>3
  <2>. QED
    BY <1>4, <2>1, FS_Subset DEF Rank
<1>. QED
  BY <1>4, <1>5, <1>6

LEMMA RanksDiffer ==
  ASSUME NEW S, IsFiniteSet(S), \A k \in S : k \in Int, NEW x \in S, NEW y \in S, Rank(S, x) = Rank(S, y)
  PROVE  x = y
<1>1. x \in Int /\ y \in Int /\ Rank(S, x) \in Nat
  BY BelowIs
<1>2. CASE x < y
  <2>1. Rank(S, x) < Rank(S, y)
    BY <1>2, RanksGrow
  <2>. QED
    BY <1>1, <2>1
<1>3. CASE y < x
  <2>1. Rank(S, y) < Rank(S, x)
    BY <1>3, RanksGrow
  <2>. QED
    BY <1>1, <2>1
<1>. QED
  BY <1>1, <1>2, <1>3

LEMMA RankBound ==
  ASSUME NEW S, IsFiniteSet(S), \A k \in S : k \in Int, NEW x \in S
  PROVE  Rank(S, x) \in 0 .. Cardinality(S) - 1
<1>1. x \in Int
  OBVIOUS
<1>2. Below(S, x) \subseteq S \ {x}
  BY <1>1, BelowIs
<1>3. IsFiniteSet(S \ {x}) /\ Cardinality(S \ {x}) = Cardinality(S) - 1
  BY FS_RemoveElement
<1>4. Rank(S, x) <= Cardinality(S) - 1
  BY <1>2, <1>3, FS_Subset DEF Rank
<1>5. Rank(S, x) \in Nat /\ Cardinality(S) \in Nat
  BY BelowIs, FS_CardinalityType
<1>. QED
  BY <1>4, <1>5

LEMMA RankReached ==
  ASSUME NEW S, IsFiniteSet(S), \A k \in S : k \in Int, NEW i \in 0 .. Cardinality(S) - 1
  PROVE  \E x \in S : Rank(S, x) = i
<1>. DEFINE T == 0 .. Cardinality(S) - 1
            f == [x \in S |-> Rank(S, x)]
<1>1. f \in [S -> T]
  BY RankBound
<1>2. f \in Injection(S, T)
  BY <1>1, RanksDiffer DEF Injection, IsInjective
<1>3. IsFiniteSet(T) /\ Cardinality(T) = Cardinality(S)
  BY FS_CardinalityType, FS_Interval
<1>4. f \in Surjection(S, T)
  BY <1>2, <1>3, FS_Injection
<1>. QED
  BY <1>4 DEF Surjection

\* A finite set of numbers in order: each of them once, and ever larger.
LEMMA SortedIs ==
  ASSUME NEW S, IsFiniteSet(S), \A k \in S : k \in Int
  PROVE  /\ Cardinality(S) \in Nat
         /\ Sorted(S) \in [1 .. Cardinality(S) -> S]
         /\ \A i \in 1 .. Cardinality(S) : Rank(S, Sorted(S)[i]) = i - 1
<1>1. Cardinality(S) \in Nat
  BY FS_CardinalityType
<1>2. Sorted(S) = [i \in 1 .. Cardinality(S) |-> CHOOSE x \in S : Rank(S, x) = i - 1]
  BY DEF Sorted, Rank, Below
<1>3. ASSUME NEW i \in 1 .. Cardinality(S) PROVE Sorted(S)[i] \in S /\ Rank(S, Sorted(S)[i]) = i - 1
  <2>1. Sorted(S)[i] = CHOOSE x \in S : Rank(S, x) = i - 1
    BY <1>2
  <2>2. \E x \in S : Rank(S, x) = i - 1
    BY <1>1, RankReached
  <2>. QED
    BY <2>1, <2>2, Zenon
<1>. QED
  BY <1>1, <1>2, <1>3

LEMMA SortedEnds ==
  ASSUME NEW n \in Nat, NEW S, S \subseteq 0 .. n, 0 \in S, n \in S
  PROVE  LET p == Sorted(S)  N == Cardinality(S)
         IN /\ N \in Nat \ {0} /\ p \in [1 .. N -> S] /\ p[1] = 0 /\ p[N] = n
            /\ \A i \in 1 .. N - 1 : p[i] < p[i + 1]
<1>. DEFINE N == Cardinality(S)
            p == Sorted(S)
<1>1. IsFiniteSet(S) /\ (\A k \in S : k \in Int) /\ N \in Nat \ {0}
  <2>1. IsFiniteSet(0 .. n)
    BY FS_Interval
  <2>2. IsFiniteSet(S)
    BY <2>1, FS_Subset
  <2>3. N # 0
    BY <2>2, FS_EmptySet
  <2>. QED
    BY <2>2, <2>3, FS_CardinalityType
<1>2. p \in [1 .. N -> S] /\ \A i \in 1 .. N : Rank(S, p[i]) = i - 1
  BY <1>1, SortedIs
<1>. HIDE DEF p
<1>3. p[1] = 0
  <2>1. Below(S, 0) = {}
    <3>. SUFFICES ASSUME NEW k \in Below(S, 0) PROVE FALSE
      OBVIOUS
    <3>1. k \in S /\ k < 0
      BY BelowIs
    <3>. QED
      BY <3>1
  <2>2. Rank(S, 0) = 0
    BY <2>1, FS_EmptySet DEF Rank
  <2>3. p[1] \in S /\ Rank(S, p[1]) = 0
    BY <1>1, <1>2
  <2>. QED
    BY <1>1, <2>2, <2>3, RanksDiffer
<1>4. p[N] = n
  <2>1. Below(S, n) = S \ {n}
    <3>1. \A k \in S : k \in Below(S, n) <=> k < n
      BY BelowIs
    <3>2. \A k \in S : k < n <=> k # n
      OBVIOUS
    <3>3. Below(S, n) \subseteq S
      BY BelowIs
    <3>. QED
      BY <3>1, <3>2, <3>3
  <2>2. Rank(S, n) = N - 1
    BY <1>1, <2>1, FS_RemoveElement DEF Rank
  <2>3. p[N] \in S /\ Rank(S, p[N]) = N - 1
    BY <1>1, <1>2
  <2>. QED
    BY <1>1, <2>2, <2>3, RanksDiffer
<1>5. ASSUME NEW i \in 1 .. N - 1 PROVE p[i] < p[i + 1]
  <2>1. i \in 1 .. N /\ i + 1 \in 1 .. N /\ (i + 1) - 1 = i
    BY <1>1
  <2>2. p[i] \in S /\ Rank(S, p[i]) = i - 1
    BY <1>2, <2>1
  <2>3. p[i + 1] \in S /\ Rank(S, p[i + 1]) = i
    BY <1>2, <2>1
  <2>4. p[i] \in Int /\ p[i + 1] \in Int
    BY <1>1, <2>2, <2>3
  <2>5. ~ p[i + 1] < p[i]
    <3>. SUFFICES ASSUME p[i + 1] < p[i] PROVE FALSE
      OBVIOUS
    <3>1. Rank(S, p[i + 1]) < Rank(S, p[i])
      BY <1>1, <2>2, <2>3, RanksGrow
    <3>. QED
      BY <2>1, <2>2, <2>3, <3>1
  <2>6. p[i] # p[i + 1]
    BY <2>1, <2>2, <2>3
  <2>. QED
    BY <2>4, <2>5, <2>6
<1>. QED
  BY <1>1, <1>2, <1>3, <1>4, <1>5 DEF p

\* A text cut at ever larger places, from its beginning to its end, and put together again.
LEMMA FlattenCuts ==
  ASSUME NEW C, NEW t \in Seq(C), NEW M \in Nat, NEW p \in [1 .. M + 1 -> 0 .. Len(t)],
         p[1] = 0, p[M + 1] = Len(t), \A i \in 1 .. M : p[i] <= p[i + 1]
  PROVE  FlattenSeq([i \in 1 .. M |-> SubSeq(t, p[i] + 1, p[i + 1])]) = t
<1>. DEFINE seqs == [i \in 1 .. M |-> SubSeq(t, p[i] + 1, p[i + 1])]
            f == [i \in 1 .. M |-> SubSeq(t, 1, p[i + 1])]
            Flat(g) == g = [i \in 1 .. Len(seqs) |-> IF i = 1 THEN seqs[i] ELSE g[i - 1] \o seqs[i]]
<1>1. Len(seqs) = M
  OBVIOUS
<1>2. CASE M = 0
  <2>1. t = << >>
    BY <1>2
  <2>2. seqs = << >>
    BY <1>2
  <2>3. FlattenSeq(seqs) = seqs
    BY <1>1, <1>2 DEF FlattenSeq
  <2>. QED
    BY <2>1, <2>2, <2>3
<1>3. CASE M # 0
  <2>1. FlattenSeq(seqs) = (CHOOSE g : Flat(g))[M]
    BY <1>1, <1>3, Zenon DEF FlattenSeq
  <2>2. ASSUME NEW i \in 1 .. M PROVE /\ p[i] \in 0 .. Len(t) /\ p[i + 1] \in p[i] .. Len(t)
                                      /\ seqs[i] = SubSeq(t, p[i] + 1, p[i + 1])
    <3>1. i \in 1 .. M + 1 /\ i + 1 \in 1 .. M + 1 /\ Len(t) \in Nat
      OBVIOUS
    <3>2. p[i] \in 0 .. Len(t) /\ p[i + 1] \in 0 .. Len(t) /\ p[i] <= p[i + 1]
      BY <3>1
    <3>3. p[i + 1] \in p[i] .. Len(t)
      BY <3>1, <3>2
    <3>. QED
      BY <3>2, <3>3
  <2>. HIDE DEF seqs
  <2>3. ASSUME NEW i \in 1 .. M, i # 1 PROVE f[i] = f[i - 1] \o seqs[i]
    <3>1. f[i] = SubSeq(t, 1, p[i + 1]) /\ f[i - 1] = SubSeq(t, 1, p[i])
      <4>1. i - 1 \in 1 .. M /\ (i - 1) + 1 = i
        BY <2>3
      <4>2. f[i - 1] = SubSeq(t, 1, p[(i - 1) + 1])
        BY <4>1
      <4>. QED
        BY <4>1, <4>2
    <3>2. Len(t) \in Nat
      OBVIOUS
    <3>3. 1 \in 1 .. Len(t) + 1 /\ p[i] \in 1 - 1 .. Len(t) /\ p[i + 1] \in p[i] .. Len(t)
      BY <2>2, <3>2
    <3>4. SubSeq(t, 1, p[i]) \o SubSeq(t, p[i] + 1, p[i + 1]) = SubSeq(t, 1, p[i + 1])
      BY <3>3, ConcatAdjacentSubSeq
    <3>. QED
      BY <2>2, <3>1, <3>4
  <2>4. f[1] = seqs[1]
    <3>1. 1 \in 1 .. M /\ p[1] + 1 = 1
      BY <1>3
    <3>. QED
      BY <2>2, <3>1
  <2>5. Flat(f)
    <3>. DEFINE h == [i \in 1 .. Len(seqs) |-> IF i = 1 THEN seqs[i] ELSE f[i - 1] \o seqs[i]]
    <3>1. DOMAIN h = 1 .. M /\ DOMAIN f = 1 .. M
      BY <1>1
    <3>2. ASSUME NEW i \in 1 .. M PROVE h[i] = f[i]
      BY <1>1, <2>3, <2>4
    <3>3. h = [i \in 1 .. M |-> h[i]] /\ f = [i \in 1 .. M |-> f[i]]
      BY <1>1
    <3>. HIDE DEF h, f
    <3>4. h = f
      BY <3>2, <3>3
    <3>. QED
      BY <3>4 DEF h
  <2>6. \E g : Flat(g)
    BY <2>5
  <2>. DEFINE g == CHOOSE g : Flat(g)
  <2>7. Flat(g) /\ FlattenSeq(seqs) = g[M]
    BY <2>1, <2>6
  <2>. HIDE DEF g
  <2>8. ASSUME NEW i \in 1 .. M PROVE g[i] = IF i = 1 THEN seqs[i] ELSE g[i - 1] \o seqs[i]
    BY <1>1, <2>7
  <2>. HIDE DEF f
  <2>. DEFINE Q == {k \in Nat : k \in 1 .. M => g[k] = f[k]}
  <2>9. 0 \in Q
    OBVIOUS
  <2>10. ASSUME NEW k \in Nat, k \in Q PROVE k + 1 \in Q
    <3>. SUFFICES ASSUME k + 1 \in 1 .. M PROVE g[k + 1] = f[k + 1]
      OBVIOUS
    <3>1. CASE k = 0
      BY <2>4, <2>8, <3>1
    <3>2. CASE k # 0
      <4>1. k \in 1 .. M /\ (k + 1) - 1 = k /\ k + 1 # 1
        BY <3>2
      <4>2. g[k] = f[k]
        BY <2>10, <4>1
      <4>3. g[k + 1] = g[k] \o seqs[k + 1]
        BY <2>8, <4>1
      <4>4. f[k + 1] = f[k] \o seqs[k + 1]
        BY <2>3, <4>1
      <4>. QED
        BY <4>2, <4>3, <4>4
    <3>. QED
      BY <3>1, <3>2
  <2>11. Nat \subseteq Q
    <3>1. Q \in SUBSET Nat
      OBVIOUS
    <3>. HIDE DEF Q
    <3>2. \A k \in Q : k + 1 \in Q
      BY <2>10, <3>1
    <3>. QED
      BY <2>9, <3>1, <3>2, Induction
  <2>12. g[M] = f[M]
    BY <1>3, <2>11
  <2>13. f[M] = t
    <3>1. f[M] = SubSeq(t, 1, Len(t))
      BY <1>3 DEF f
    <3>. QED
      BY <3>1, SubSeqFull
  <2>. QED
    BY <2>7, <2>12, <2>13 DEF seqs
<1>. QED
  BY <1>2, <1>3

\* Rich texts over an alphabet.
RichTexts(Char, Types) ==
  [text : Seq(Char), entities : Seq([type : Types, offset : Nat, length : Nat])]

LEMMA MinOfTwo ==
  ASSUME NEW m \in Nat, NEW n \in Nat
  PROVE  Min({m, n}) \in 0 .. m
<1>1. \E x \in {m, n} : \A y \in {m, n} : x <= y
  OBVIOUS
<1>2. Min({m, n}) \in {m, n} /\ \A y \in {m, n} : Min({m, n}) <= y
  BY <1>1 DEF Min
<1>. QED
  BY <1>2

\* The places at which a text with entities is cut.
LEMMA BoundsAre ==
  ASSUME NEW Char, NEW Types, NEW rt \in RichTexts(Char, Types)
  PROVE  /\ rt.text \in Seq(Char) /\ Len(rt.text) \in Nat
         /\ Bounds(rt) \subseteq 0 .. Len(rt.text) /\ 0 \in Bounds(rt) /\ Len(rt.text) \in Bounds(rt)
<1>1. rt.text \in Seq(Char) /\ Len(rt.text) \in Nat
  BY DEF RichTexts
<1>2. ASSUME NEW e \in Range(rt.entities) PROVE e.offset \in Nat /\ e.length \in Nat
  <2>1. rt.entities \in Seq([type : Types, offset : Nat, length : Nat])
    BY DEF RichTexts
  <2>2. PICK i \in DOMAIN rt.entities : e = rt.entities[i]
    BY DEF Range
  <2>3. i \in 1 .. Len(rt.entities)
    BY <2>1, <2>2, LenProperties
  <2>4. e \in [type : Types, offset : Nat, length : Nat]
    BY <2>1, <2>2, <2>3, ElementOfSeq
  <2>. QED
    BY <2>4
<1>3. ASSUME NEW k \in Nat PROVE Clamp(rt, k) \in 0 .. Len(rt.text)
  BY <1>1, MinOfTwo DEF Clamp
<1>4. ASSUME NEW e \in Range(rt.entities)
      PROVE  {Clamp(rt, e.offset), Clamp(rt, e.offset + e.length)} \subseteq 0 .. Len(rt.text)
  <2>1. e.offset \in Nat /\ e.offset + e.length \in Nat
    BY <1>2
  <2>. QED
    BY <1>3, <2>1
<1>5. UNION {{Clamp(rt, e.offset), Clamp(rt, e.offset + e.length)} : e \in Range(rt.entities)} \subseteq 0 .. Len(rt.text)
  BY <1>4
<1>. QED
  BY <1>1, <1>5 DEF Bounds

\* The segments of a rich text are its text, cut.
LEMMA SegmentsCut ==
  ASSUME NEW Char, NEW Types, NEW rt \in RichTexts(Char, Types)
  PROVE  LET segs == Segments(rt)
         IN /\ segs = [i \in 1 .. Len(segs) |-> segs[i]] /\ Len(segs) \in Nat /\ DOMAIN segs = 1 .. Len(segs)
            /\ FlattenSeq([i \in DOMAIN segs |-> segs[i].text]) = rt.text
<1>. DEFINE segs == Segments(rt)
            t == rt.text
            n == Len(t)
<1>1. t \in Seq(Char) /\ n \in Nat
      /\ Bounds(rt) \subseteq 0 .. n /\ 0 \in Bounds(rt) /\ n \in Bounds(rt)
  BY BoundsAre
<1>2. ASSUME NEW M \in Nat, NEW p \in [1 .. M + 1 -> 0 .. n], p[1] = 0, p[M + 1] = n,
             \A i \in 1 .. M : p[i] <= p[i + 1],
             DOMAIN segs = 1 .. M, segs = [i \in 1 .. M |-> segs[i]],
             \A i \in 1 .. M : segs[i].text = SubSeq(t, p[i] + 1, p[i + 1])
      PROVE  /\ segs = [i \in 1 .. Len(segs) |-> segs[i]] /\ Len(segs) \in Nat /\ DOMAIN segs = 1 .. Len(segs)
             /\ FlattenSeq([i \in DOMAIN segs |-> segs[i].text]) = t
  <2>. HIDE DEF segs, t, n
  <2>1. Len(segs) = M
    BY <1>2
  <2>2. [i \in DOMAIN segs |-> segs[i].text] = [i \in 1 .. M |-> SubSeq(t, p[i] + 1, p[i + 1])]
    BY <1>2
  <2>3. FlattenSeq([i \in 1 .. M |-> SubSeq(t, p[i] + 1, p[i + 1])]) = t
    BY <1>1, <1>2, FlattenCuts DEF n
  <2>. QED
    BY <1>2, <2>1, <2>2, <2>3
<1>3. CASE rt.entities = << >> /\ t = << >>
  <2>1. segs = << >>
    BY <1>3 DEF Segments
  <2>2. FlattenSeq(<< >>) = << >>
    BY DEF FlattenSeq
  <2>. QED
    BY <1>3, <2>1, <2>2
<1>4. CASE rt.entities = << >> /\ t # << >>
  <2>. DEFINE p == [i \in 1 .. 2 |-> IF i = 1 THEN 0 ELSE n]
  <2>1. segs = <<[text |-> t, types |-> << >>]>>
    BY <1>4 DEF Segments
  <2>2. SubSeq(t, 1, n) = t
    BY <1>1, SubSeqFull
  <2>. HIDE DEF segs, n
  <2>3. DOMAIN segs = 1 .. 1 /\ segs = [i \in 1 .. 1 |-> segs[i]] /\ segs[1].text = t
    BY <2>1
  <2>4. p \in [1 .. 1 + 1 -> 0 .. n] /\ p[1] = 0 /\ p[1 + 1] = n
    BY <1>1
  <2>. HIDE DEF p
  <2>5. \A i \in 1 .. 1 : p[i] <= p[i + 1] /\ segs[i].text = SubSeq(t, p[i] + 1, p[i + 1])
    <3>1. segs[1].text = SubSeq(t, p[1] + 1, p[1 + 1]) /\ p[1] <= p[1 + 1]
      BY <1>1, <2>2, <2>3, <2>4
    <3>. QED
      BY <3>1
  <2>6. 1 \in Nat
    OBVIOUS
  <2>7. /\ segs = [i \in 1 .. Len(segs) |-> segs[i]] /\ Len(segs) \in Nat /\ DOMAIN segs = 1 .. Len(segs)
       /\ FlattenSeq([i \in DOMAIN segs |-> segs[i].text]) = t
    BY <1>2, <2>3, <2>4, <2>5, <2>6
  <2>. QED
    BY <2>7 DEF segs
<1>5. CASE rt.entities # << >>
  <2>. DEFINE p == Sorted(Bounds(rt))
              N == Cardinality(Bounds(rt))
              M == N - 1
  <2>1. N \in Nat \ {0} /\ p \in [1 .. N -> Bounds(rt)] /\ p[1] = 0 /\ p[N] = n
        /\ \A i \in 1 .. N - 1 : p[i] < p[i + 1]
    BY <1>1, SortedEnds
  <2>2. Len(p) = N
    <3>. HIDE DEF p, N
    <3>. QED
      BY <2>1
  <2>3. segs = [i \in 1 .. N - 1 |->
                  LET on == Active(rt, p[i], p[i + 1])
                  IN [text |-> SubSeq(t, p[i] + 1, p[i + 1]), types |-> [k \in DOMAIN on |-> on[k].type]]]
    BY <1>5, <2>2 DEF Segments
  <2>. HIDE DEF p, N, segs, n
  <2>4. M \in Nat /\ M + 1 = N
    BY <2>1
  <2>. HIDE DEF M
  <2>5. p \in [1 .. M + 1 -> 0 .. n] /\ p[1] = 0 /\ p[M + 1] = n
    BY <1>1, <2>1, <2>4
  <2>6. ASSUME NEW i \in 1 .. M PROVE p[i] <= p[i + 1]
    <3>1. p[i] \in 0 .. n /\ p[i + 1] \in 0 .. n
      BY <2>4, <2>5
    <3>2. p[i] < p[i + 1]
      BY <2>1 DEF M
    <3>. QED
      BY <1>1, <3>1, <3>2
  <2>7. DOMAIN segs = 1 .. M /\ segs = [i \in 1 .. M |-> segs[i]]
        /\ \A i \in 1 .. M : segs[i].text = SubSeq(t, p[i] + 1, p[i + 1])
    BY <2>3 DEF M
  <2>8. /\ segs = [i \in 1 .. Len(segs) |-> segs[i]] /\ Len(segs) \in Nat /\ DOMAIN segs = 1 .. Len(segs)
       /\ FlattenSeq([i \in DOMAIN segs |-> segs[i].text]) = t
    BY <1>2, <2>4, <2>5, <2>6, <2>7
  <2>. QED
    BY <2>8 DEF segs
<1>. QED
  BY <1>3, <1>4, <1>5

\* A rich text that goes through a Telegram export keeps its text, whatever its entities and
\* however they overlap: the segments are the text cut at ever larger places, and the importer
\* puts the parts together again (richtext.ts segments; exporters/telegram.ts buildText;
\* importers/telegram.ts buildRichText).
THEOREM TextSurvivesTelegram ==
  ASSUME NEW Char, NEW Types, NEW rt \in RichTexts(Char, Types)
  PROVE  BuildRichText(BuildText(rt)).text = rt.text
<1>. DEFINE parts == BuildText(rt)
<1>1. DOMAIN parts = DOMAIN Segments(rt) /\ \A i \in DOMAIN parts : parts[i].text = Segments(rt)[i].text
  BY DEF BuildText
<1>. HIDE DEF parts
<1>2. [i \in DOMAIN parts |-> parts[i].text] = [i \in DOMAIN Segments(rt) |-> Segments(rt)[i].text]
  BY <1>1
<1>3. BuildRichText(parts).text = FlattenSeq([i \in DOMAIN parts |-> parts[i].text])
  BY Zenon DEF BuildRichText, Rich
<1>4. FlattenSeq([i \in DOMAIN Segments(rt) |-> Segments(rt)[i].text]) = rt.text
  BY SegmentsCut
<1>. QED
  BY <1>2, <1>3, <1>4 DEF parts

-----------------------------------------------------------------------------
(* Messages that go through a Telegram export *)

\* The kinds of file that Telegram tells apart; another kind comes back as "file".
TgKinds == {"image", "video", "voice", "audio", "gif", "sticker", "file"}

\* Messages as the importers build them: ids from 1, at most one file.
Messages(Char, Types, Names) ==
  [id : Nat \ {0}, ts : Nat, senderId : Names,
   kind : {"text", "media", "sticker", "service", "system", "poll", "location", "contact"},
   content : RichTexts(Char, Types),
   attachments : {<< >>} \cup {<<a>> : a \in [kind : TgKinds, file : Names]},
   replyToId : Nat, forwardedFrom : Names, edited : BOOLEAN, reactions : Seq(Names)]

IsService(m) == m.kind \in {"service", "system"}

\* What the export says of a file.
TgFile(a) ==
  LET ref == IF a.file = None THEN FilePlaceholder ELSE a.file
  IN IF a.kind = "image" THEN Media(TRUE, ref, None, None) ELSE Media(FALSE, ref, TgMediaType(a.kind), None)

LEMMA ExportedFields ==
  ASSUME NEW c, NEW i
  PROVE  LET m == c.messages[i]  e == ExportMessage(c, i)
         IN /\ e.id = i /\ e.ts = m.ts /\ e.text = BuildText(m.content) /\ e.extra = None
            /\ e.type = "service" <=> IsService(m)
            /\ e.reply = TgPosition(c, m.replyToId) /\ e.forwarded = m.forwardedFrom
            /\ e.edited = m.edited /\ e.reactions = m.reactions
            /\ m.attachments = << >> => e.media = NoMedia
            /\ m.attachments # << >> => e.media = TgFile(Head(m.attachments))
  BY DEF ExportMessage, TgMessage, IsService, TgFile

LEMMA ImportedFields ==
  ASSUME NEW e, NEW i, e.id # 0, e.extra = None
  PROVE  LET n == ImportMessage(e, i)  said == BuildRichText(e.text)
         IN /\ n.id = e.id /\ n.ts = e.ts
            /\ n.content = (IF said = NoText /\ e.type = "service" THEN Rich(ServiceText, << >>) ELSE said)
            /\ n.attachments = BuildAttachment(e.media)
            /\ n.replyToId = e.reply /\ n.forwardedFrom = e.forwarded
            /\ n.edited = e.edited /\ n.reactions = e.reactions
  BY DEF ImportMessage, Bare

\* What comes back of a message.
LEMMA ReadBack ==
  ASSUME NEW c, NEW i, i # 0
  PROVE  LET m == c.messages[i]
             n == ImportMessage(ExportMessage(c, i), i)
             said == BuildRichText(BuildText(m.content))
         IN /\ n.id = i /\ n.ts = m.ts /\ n.replyToId = TgPosition(c, m.replyToId)
            /\ n.content = (IF said = NoText /\ IsService(m) THEN Rich(ServiceText, << >>) ELSE said)
            /\ m.attachments = << >> => n.attachments = BuildAttachment(NoMedia)
            /\ m.attachments # << >> => n.attachments = BuildAttachment(TgFile(Head(m.attachments)))
            /\ n.reactions = m.reactions /\ n.forwardedFrom = m.forwardedFrom /\ n.edited = m.edited
<1>. DEFINE m == c.messages[i]
            e == ExportMessage(c, i)
            n == ImportMessage(e, i)
            said == BuildRichText(BuildText(m.content))
<1>1. e.id = i /\ e.extra = None /\ (e.type = "service" <=> IsService(m))
  BY ExportedFields
<1>2. /\ e.ts = m.ts /\ e.text = BuildText(m.content) /\ e.reply = TgPosition(c, m.replyToId)
      /\ e.forwarded = m.forwardedFrom /\ e.edited = m.edited /\ e.reactions = m.reactions
  BY ExportedFields
<1>3. (m.attachments = << >> => e.media = NoMedia) /\ (m.attachments # << >> => e.media = TgFile(Head(m.attachments)))
  BY ExportedFields
<1>. HIDE DEF e, m
<1>4. n.id = e.id /\ n.ts = e.ts /\ n.replyToId = e.reply /\ n.attachments = BuildAttachment(e.media)
  BY <1>1, ImportedFields
<1>5. n.forwardedFrom = e.forwarded /\ n.edited = e.edited /\ n.reactions = e.reactions
  BY <1>1, ImportedFields
<1>6. n.content = IF said = NoText /\ IsService(m) THEN Rich(ServiceText, << >>) ELSE said
  BY <1>1, <1>2, ImportedFields
<1>. HIDE DEF n, said
<1>7. /\ n.id = i /\ n.ts = m.ts /\ n.replyToId = TgPosition(c, m.replyToId)
      /\ n.content = (IF said = NoText /\ IsService(m) THEN Rich(ServiceText, << >>) ELSE said)
      /\ m.attachments = << >> => n.attachments = BuildAttachment(NoMedia)
      /\ m.attachments # << >> => n.attachments = BuildAttachment(TgFile(Head(m.attachments)))
      /\ n.reactions = m.reactions /\ n.forwardedFrom = m.forwardedFrom /\ n.edited = m.edited
  BY <1>1, <1>2, <1>3, <1>4, <1>5, <1>6
<1>. QED
  BY <1>7, Zenon DEF n, said, e, m

LEMMA FileKept ==
  ASSUME NEW a, a.kind \in TgKinds
  PROVE  Len(BuildAttachment(TgFile(a))) = 1 /\ BuildAttachment(TgFile(a))[1].kind = a.kind
<1>. DEFINE ref == IF a.file = None THEN FilePlaceholder ELSE a.file
            kind == a.kind
            media == TgFile(a)
<1>1. ref # None
  BY DEF FilePlaceholder, None
<1>. HIDE DEF ref
<1>2. media.ref = ref /\ (media.photo <=> kind = "image")
      /\ (kind # "image" => media.type = TgMediaType(kind)) /\ media.mime = None
  BY DEF Media, TgFile, ref
<1>. HIDE DEF media, kind
<1>3. TgMediaKind(media) = kind
  BY <1>2 DEF TgMediaKind, TgMediaType, TgKinds, None, kind
<1>4. BuildAttachment(media) = <<[kind |-> TgMediaKind(media), file |-> ref]>>
  BY <1>1, <1>2 DEF BuildAttachment, Attachment
<1>5. Len(BuildAttachment(media)) = 1 /\ BuildAttachment(media)[1].kind = kind
  BY <1>3, <1>4
<1>. QED
  BY <1>5 DEF media, kind

LEMMA GreatestElement ==
  ASSUME NEW n \in Nat, NEW S, S \subseteq 1 .. n, S # {}
  PROVE  Max(S) \in S
<1>. DEFINE T == {k \in Nat : k <= n /\ n - k \in S}
<1>1. \A x \in S : x \in 1 .. n
  OBVIOUS
<1>2. PICK s \in S : TRUE
  OBVIOUS
<1>3. s \in 1 .. n /\ n - s \in Nat /\ n - s <= n /\ n - (n - s) = s
  BY <1>1
<1>4. n - s \in T
  BY <1>2, <1>3
<1>5. PICK k \in T : \A l \in T : k <= l
  <2>1. T \in SUBSET Nat /\ T # {}
    BY <1>4
  <2>. QED
    BY <2>1, LeastElement
<1>6. ASSUME NEW y \in S PROVE n - k >= y
  <2>1. y \in 1 .. n /\ n - y \in Nat /\ n - y <= n /\ n - (n - y) = y
    BY <1>1
  <2>2. n - y \in T
    BY <2>1
  <2>3. k <= n - y
    BY <1>5, <2>2
  <2>. QED
    BY <1>5, <2>1, <2>3
<1>7. n - k \in S
  BY <1>5
<1>. QED
  BY <1>6, <1>7 DEF Max

LEMMA PositionIs ==
  ASSUME NEW c, NEW M, c.messages \in Seq(M), NEW id
  PROVE  TgPosition(c, id) \in 0 .. Len(c.messages)
<1>. DEFINE at == {i \in DOMAIN c.messages : c.messages[i].id = id}
<1>1. Len(c.messages) \in Nat /\ at \subseteq 1 .. Len(c.messages)
  BY LenProperties
<1>2. TgPosition(c, id) = IF at = {} THEN 0 ELSE Max(at)
  BY DEF TgPosition
<1>. HIDE DEF at
<1>3. at # {} => Max(at) \in at
  BY <1>1, GreatestElement
<1>4. at # {} => Max(at) \in 1 .. Len(c.messages)
  BY <1>1, <1>3, Zenon
<1>5. CASE at = {}
  BY <1>1, <1>2, <1>5
<1>6. CASE at # {}
  <2>1. TgPosition(c, id) = Max(at)
    BY <1>2, <1>6
  <2>. QED
    BY <1>1, <1>4, <1>6, <2>1
<1>. QED
  BY <1>5, <1>6

\* Where the ids are the positions, the position of an id is the id.
LEMMA PositionOfPosition ==
  ASSUME NEW d, NEW n \in Nat, DOMAIN d.messages = 1 .. n, \A i \in 1 .. n : d.messages[i].id = i,
         NEW k \in 0 .. n
  PROVE  TgPosition(d, k) = k
<1>. DEFINE at == {i \in DOMAIN d.messages : d.messages[i].id = k}
<1>1. TgPosition(d, k) = IF at = {} THEN 0 ELSE Max(at)
  BY DEF TgPosition
<1>2. at = IF k = 0 THEN {} ELSE {k}
  OBVIOUS
<1>3. k # 0 => Max({k}) \in {k}
  BY GreatestElement
<1>. QED
  BY <1>1, <1>2, <1>3

\* A chat exported to Telegram and imported again has the same messages: the time, the text (a
\* service message without one gets one), the message it answers, the kind of its file, the
\* reactions, the forward and edit marks (exporters/telegram.ts against importers/telegram.ts).
THEOREM SurvivesTelegramExport ==
  ASSUME NEW Char, NEW Types, NEW Names, NEW c, c.messages \in Seq(Messages(Char, Types, Names))
  PROVE  LET d == ParseTelegram(ExportTelegram(c))
         IN /\ Len(d.messages) = Len(c.messages)
            /\ \A i \in DOMAIN c.messages :
                 LET m == c.messages[i]  n == d.messages[i]
                 IN /\ n.ts = m.ts
                    /\ ~ IsService(m) \/ m.content.text # << >> => n.content.text = m.content.text
                    /\ TgPosition(d, n.replyToId) = TgPosition(c, m.replyToId)
                    /\ Len(n.attachments) = Len(m.attachments)
                    /\ m.attachments # << >> => n.attachments[1].kind = m.attachments[1].kind
                    /\ n.reactions = m.reactions /\ n.forwardedFrom = m.forwardedFrom /\ n.edited = m.edited
<1>. DEFINE d == ParseTelegram(ExportTelegram(c))
            N == Len(c.messages)
<1>1. N \in Nat /\ DOMAIN c.messages = 1 .. N
  BY LenProperties
<1>2. d.messages = [i \in 1 .. N |-> ImportMessage(ExportMessage(c, i), i)]
  <2>1. ExportTelegram(c).messages = [i \in 1 .. N |-> ExportMessage(c, i)]
    BY <1>1 DEF ExportTelegram
  <2>. DEFINE ms == ExportTelegram(c).messages
  <2>2. d.messages = [i \in DOMAIN ms |-> ImportMessage(ms[i], i)]
    BY DEF ParseTelegram, Conversation
  <2>. QED
    BY <2>1, <2>2
<1>. HIDE DEF d
<1>3. ASSUME NEW i \in 1 .. N
      PROVE  LET m == c.messages[i]  n == d.messages[i]  said == BuildRichText(BuildText(m.content))
             IN /\ n.id = i /\ n.ts = m.ts /\ n.replyToId = TgPosition(c, m.replyToId)
                /\ n.content = (IF said = NoText /\ IsService(m) THEN Rich(ServiceText, << >>) ELSE said)
                /\ m.attachments = << >> => n.attachments = BuildAttachment(NoMedia)
                /\ m.attachments # << >> => n.attachments = BuildAttachment(TgFile(Head(m.attachments)))
                /\ n.reactions = m.reactions /\ n.forwardedFrom = m.forwardedFrom /\ n.edited = m.edited
  <2>1. d.messages[i] = ImportMessage(ExportMessage(c, i), i)
    BY <1>2
  <2>2. i # 0
    BY <1>1
  <2>. QED
    BY <2>1, <2>2, ReadBack
<1>4. DOMAIN d.messages = 1 .. N /\ Len(d.messages) = N /\ \A i \in 1 .. N : d.messages[i].id = i
  <2>1. DOMAIN d.messages = 1 .. N /\ Len(d.messages) = N
    BY <1>1, <1>2
  <2>. QED
    BY <1>3, <2>1
<1>5. ASSUME NEW i \in 1 .. N
      PROVE  ~ IsService(c.messages[i]) \/ c.messages[i].content.text # << >>
               => d.messages[i].content.text = c.messages[i].content.text
  <2>. DEFINE rt == c.messages[i].content
              said == BuildRichText(BuildText(rt))
  <2>1. c.messages[i] \in Messages(Char, Types, Names)
    BY ElementOfSeq
  <2>2. rt \in RichTexts(Char, Types)
    BY <2>1 DEF Messages
  <2>3. said.text = rt.text
    BY <2>2, TextSurvivesTelegram
  <2>4. d.messages[i].content = IF said = NoText /\ IsService(c.messages[i]) THEN Rich(ServiceText, << >>) ELSE said
    BY <1>3
  <2>5. NoText.text = << >>
    BY DEF NoText, Rich
  <2>. HIDE DEF rt, said
  <2>. QED
    BY <2>3, <2>4, <2>5 DEF rt
<1>6. ASSUME NEW i \in 1 .. N
      PROVE  TgPosition(d, d.messages[i].replyToId) = TgPosition(c, c.messages[i].replyToId)
  <2>1. TgPosition(c, c.messages[i].replyToId) \in 0 .. N
    BY PositionIs
  <2>2. d.messages[i].replyToId = TgPosition(c, c.messages[i].replyToId)
    BY <1>3
  <2>. QED
    BY <1>1, <1>4, <2>1, <2>2, PositionOfPosition
<1>7. ASSUME NEW i \in 1 .. N
      PROVE  LET m == c.messages[i]  n == d.messages[i]
             IN /\ Len(n.attachments) = Len(m.attachments)
                /\ m.attachments # << >> => n.attachments[1].kind = m.attachments[1].kind
  <2>. DEFINE m == c.messages[i]
              n == d.messages[i]
  <2>1. m \in Messages(Char, Types, Names)
    BY ElementOfSeq
  <2>2. m.attachments \in {<< >>} \cup {<<a>> : a \in [kind : TgKinds, file : Names]}
    BY <2>1 DEF Messages
  <2>3. (m.attachments = << >> => n.attachments = BuildAttachment(NoMedia))
        /\ (m.attachments # << >> => n.attachments = BuildAttachment(TgFile(Head(m.attachments))))
    BY <1>3
  <2>5. BuildAttachment(NoMedia) = << >>
    BY DEF BuildAttachment, NoMedia, Media, None
  <2>. HIDE DEF m, n
  <2>6. CASE m.attachments = << >>
    BY <2>3, <2>5, <2>6 DEF m, n
  <2>7. CASE m.attachments # << >>
    <3>1. PICK a \in [kind : TgKinds, file : Names] : m.attachments = <<a>>
      BY <2>2, <2>7
    <3>2. a.kind \in TgKinds /\ Head(m.attachments) = a /\ m.attachments[1] = a /\ Len(m.attachments) = 1
      BY <3>1
    <3>3. Len(BuildAttachment(TgFile(a))) = 1 /\ BuildAttachment(TgFile(a))[1].kind = a.kind
      BY <3>2, FileKept
    <3>4. n.attachments = BuildAttachment(TgFile(a))
      BY <2>3, <2>7, <3>2
    <3>. QED
      BY <2>7, <3>2, <3>3, <3>4 DEF m, n
  <2>. QED
    BY <2>6, <2>7
<1>. QED
  BY <1>1, <1>3, <1>4, <1>5, <1>6, <1>7 DEF d
=============================================================================
