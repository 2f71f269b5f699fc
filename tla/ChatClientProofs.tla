-------------------------- MODULE ChatClientProofs --------------------------
(***************************************************************************)
(* What the client keeps of what it has decrypted and of what it lists,    *)
(* for any number of messages, drafts, runs of loadHistory, lost           *)
(* connections and closed tabs.                                            *)
(***************************************************************************)
EXTENDS ChatClient, SequenceTheorems, TLAPS

State == {"none", "decrypt", "failed", "again", "plain", "stored", "ok", "bad"}
Frame == [t : {"message", "deleted"}, seq : Seq1] \cup [t : {"delivered"}, seq : Seq1, id : Draft]
History == [at : {"idle", "stored", "list", "loop", "ingest"}, seen : SUBSET Seq1,
            next : 0 .. MaxLog + 1, last : 0 .. MaxLog, skip : SUBSET Seq1]

LogType ==
  /\ log \in Seq({"peer", "me"}) /\ Len(log) \in 0 .. MaxLog
  /\ gone \subseteq Seq1
  /\ wire \in Seq(Frame) /\ outbox \in Seq(Draft)

PageType ==
  /\ cache \subseteq Seq1 /\ cursor \in 0 .. MaxLog
  /\ queue \in Seq(Ingest \cup Draft)
  /\ task \in [Ingest -> State]
  /\ hist \in History
  /\ hist.at \in {"list", "loop", "ingest"} => hist.next \in Nat \ {0}
  /\ hist.at = "ingest" => hist.next \in Seq1

\* The server relays a message once, and a `deleted' after it; a message is ingested live when
\* its one frame is taken.
RelayedOnce ==
  /\ \A k \in DOMAIN wire : wire[k].seq <= Len(log)
  /\ \A j, k \in DOMAIN wire :
       wire[j].t = "message" /\ wire[k].t = "message" /\ wire[j].seq = wire[k].seq => j = k
  /\ \A k \in DOMAIN wire : wire[k].t = "message" => task[<<"live", wire[k].seq>>] = "none"
  /\ \A n \in Seq1 : task[<<"live", n>>] # "none" => n <= Len(log)

DeletedIsGone == \A k \in DOMAIN wire : wire[k].t = "deleted" => wire[k].seq \in gone

\* loadHistory ingests one message at a time, and only while the page is loaded.
OneIngest ==
  /\ \A n \in Seq1 : task[<<"history", n>>] # "none" => hist.at = "ingest" /\ hist.next = n
  /\ ~ tab => hist.at = "idle"

\* An ingest that waits for the worker has one request in the queue.
AskedOnce ==
  /\ \A k \in DOMAIN queue : queue[k] \in Ingest => task[queue[k]] \in {"decrypt", "again"}
  /\ \A j, k \in DOMAIN queue : queue[j] \in Ingest /\ queue[j] = queue[k] => j = k

\* What an ingest is about to list, and what loadHistory has read, was stored.
StoredFirst ==
  /\ \A i \in Ingest : task[i] = "stored" => i[2] \in cache \cup gone
  /\ hist.seen \subseteq cache \cup gone
  /\ shown \subseteq cache \cup gone

IInv == LogType /\ PageType /\ RelayedOnce /\ DeletedIsGone /\ OneIngest /\ AskedOnce /\ StoredFirst /\ SpentIsKept

-----------------------------------------------------------------------------
(* Sequences *)

LEMMA Inserted ==
  ASSUME NEW S, NEW s \in Seq(S), NEW k \in 1 .. Len(s) + 1, NEW e \in S
  PROVE  /\ InsertAt(s, k, e) \in Seq(S)
         /\ \A j \in DOMAIN InsertAt(s, k, e) :
              \/ j = k /\ InsertAt(s, k, e)[j] = e
              \/ j < k /\ j \in DOMAIN s /\ InsertAt(s, k, e)[j] = s[j]
              \/ j > k /\ j - 1 \in DOMAIN s /\ InsertAt(s, k, e)[j] = s[j - 1]
<1> DEFINE a == SubSeq(s, 1, k - 1)
           b == SubSeq(s, k, Len(s))
           t == InsertAt(s, k, e)
<1>1. a \in Seq(S) /\ Len(a) = k - 1 /\ \A j \in 1 .. k - 1 : a[j] = s[j]
  OBVIOUS
<1>2. b \in Seq(S) /\ Len(b) = Len(s) - k + 1 /\ \A j \in 1 .. Len(s) - k + 1 : b[j] = s[k + j - 1]
  OBVIOUS
<1>3. t = (a \o <<e>>) \o b
  BY DEF InsertAt
<1> HIDE DEF a, b, t
<1> DEFINE c == a \o <<e>>
<1>4. c \in Seq(S) /\ Len(c) = k /\ \A j \in 1 .. k : c[j] = IF j < k THEN s[j] ELSE e
  <2>1. <<e>> \in Seq(S) /\ Len(<<e>>) = 1 /\ <<e>>[1] = e
    OBVIOUS
  <2>2. c \in Seq(S) /\ Len(c) = (k - 1) + 1
        /\ \A j \in 1 .. (k - 1) + 1 : c[j] = IF j <= k - 1 THEN a[j] ELSE <<e>>[j - (k - 1)]
    BY <1>1, <2>1, ConcatProperties
  <2>3. QED
    BY <1>1, <2>1, <2>2
<1> HIDE DEF c
<1>5. t \in Seq(S) /\ Len(t) = Len(s) + 1
      /\ \A j \in 1 .. Len(s) + 1 : t[j] = IF j < k THEN s[j] ELSE IF j = k THEN e ELSE s[j - 1]
  <2>1. t = c \o b
    BY <1>3 DEF c
  <2>2. t \in Seq(S) /\ Len(t) = Len(c) + Len(b)
        /\ \A j \in 1 .. Len(c) + Len(b) : t[j] = IF j <= Len(c) THEN c[j] ELSE b[j - Len(c)]
    BY <1>2, <1>4, <2>1, ConcatProperties
  <2>3. Len(s) \in Nat /\ k \in Nat /\ Len(c) + Len(b) = Len(s) + 1
    BY <1>2, <1>4
  <2>4. ASSUME NEW j \in 1 .. Len(s) + 1
        PROVE  t[j] = IF j < k THEN s[j] ELSE IF j = k THEN e ELSE s[j - 1]
    <3>1. CASE j <= k
      BY <3>1, <2>2, <2>3, <1>4
    <3>2. CASE j > k
      <4>1. t[j] = b[j - k] /\ j - k \in 1 .. Len(s) - k + 1
        BY <3>2, <2>2, <2>3, <1>4
      <4>2. b[j - k] = s[k + (j - k) - 1] /\ k + (j - k) - 1 = j - 1
        BY <4>1, <2>3, <1>2
      <4>3. QED
        BY <3>2, <4>1, <4>2
    <3>3. QED
      BY <3>1, <3>2, <2>3
  <2>5. QED
    BY <2>2, <2>3, <2>4
<1>6. DOMAIN t = 1 .. Len(s) + 1 /\ DOMAIN s = 1 .. Len(s)
  BY <1>5
<1>7. QED
  BY <1>5, <1>6 DEF t

\* A request is answered: those behind it move up.
LEMMA TailOf ==
  ASSUME NEW S, NEW s \in Seq(S), s # << >>
  PROVE  /\ Tail(s) \in Seq(S)
         /\ 1 \in DOMAIN s /\ Head(s) = s[1] /\ Head(s) \in S
         /\ \A j \in DOMAIN Tail(s) : j + 1 \in DOMAIN s /\ j + 1 # 1 /\ j \in Nat /\ Tail(s)[j] = s[j + 1]
<1>1. Len(s) \in Nat \ {0} /\ Len(Tail(s)) = Len(s) - 1 /\ Tail(s) \in Seq(S) /\ DOMAIN s = 1 .. Len(s)
  OBVIOUS
<1>2. DOMAIN Tail(s) = 1 .. Len(s) - 1
  BY <1>1
<1>3. QED
  BY <1>1, <1>2

LEMMA Appended ==
  ASSUME NEW S, NEW s \in Seq(S), NEW e \in S
  PROVE  /\ Append(s, e) \in Seq(S)
         /\ \A j \in DOMAIN Append(s, e) :
              \/ j = Len(s) + 1 /\ Append(s, e)[j] = e
              \/ j \in DOMAIN s /\ Append(s, e)[j] = s[j] /\ j # Len(s) + 1
  OBVIOUS

-----------------------------------------------------------------------------
(* Types *)

LEMMA Indexes ==
  /\ Ingest = {<<o, n>> : o \in Origin, n \in Seq1}
  /\ \A n \in Seq1 : <<"live", n>> \in Ingest /\ <<"history", n>> \in Ingest
  /\ \A n, m \in Seq1 : <<"live", n>> # <<"history", m>>
  /\ \A i \in Ingest : i[2] \in Seq1 /\ (i = <<"live", i[2]>> \/ i = <<"history", i[2]>>)
  /\ \A i \in Ingest : i \notin Draft
BY DraftAssumption DEF Ingest, Origin

LEMMA IdleType == NoHistory \in History /\ NoHistory.at = "idle" /\ NoHistory.seen = {}
BY BoundAssumption DEF NoHistory, History

LEMMA StartType ==
  ASSUME cache \subseteq Seq1
  PROVE  StartHistory \in History /\ StartHistory.at = "stored" /\ StartHistory.seen = cache
BY IdleType DEF StartHistory, History

LEMMA LogTypeNext ==
  ASSUME LogType, PageType, [Next]_vars
  PROVE  LogType'
<1> USE BoundAssumption DEF LogType, server, net, page, stored, ghost
<1>1. CASE PostMessage
  <2>1. PICK from \in From : log' = Append(log, from)
    BY <1>1 DEF PostMessage
  <2>2. log' \in Seq({"peer", "me"}) /\ Len(log') = Len(log) + 1 /\ Len(log') <= MaxLog
    BY <1>1, <2>1, FromAssumption DEF PostMessage
  <2>3. wire' \in Seq(Frame)
    <3> DEFINE e == [t |-> "message", seq |-> Len(log) + 1]
    <3>1. e \in Frame
      BY <2>2 DEF Frame, Seq1
    <3> HIDE DEF e
    <3>2. CASE open
      <4>1. PICK k \in 1 .. Len(wire) + 1 : wire' = InsertAt(wire, k, e)
        BY <1>1, <3>2 DEF PostMessage, e
      <4>2. QED
        BY <3>1, <4>1, Inserted
    <3>3. QED
      BY <1>1, <3>2 DEF PostMessage
  <2>4. QED
    BY <1>1, <2>2, <2>3 DEF PostMessage
<1>2. ASSUME NEW n \in Seq1, DeleteForAll(n)
      PROVE  LogType'
  <2>1. [t |-> "deleted", seq |-> n] \in Frame
    BY DEF Frame
  <2>2. QED
    BY <1>2, <2>1 DEF DeleteForAll, Push
<1>3. CASE TakeSend
  <2>1. log' \in Seq({"peer", "me"}) /\ Len(log') = Len(log) + 1 /\ Len(log') <= MaxLog
    BY <1>3 DEF TakeSend
  <2>2. outbox' \in Seq(Draft) /\ Head(outbox) \in Draft
    BY <1>3 DEF TakeSend
  <2>3. [t |-> "delivered", seq |-> Len(log) + 1, id |-> Head(outbox)] \in Frame
    BY <2>1, <2>2 DEF Frame, Seq1
  <2>4. wire' \in Seq(Frame)
    BY <1>3, <2>3 DEF TakeSend, Push
  <2>5. QED
    BY <1>3, <2>1, <2>2, <2>4 DEF TakeSend
<1>4. CASE OpenTab \/ LoadAgain \/ Reconnect \/ Drop \/ CloseTab
  <2>1. UNCHANGED <<log, gone>>
    BY <1>4 DEF OpenTab, LoadAgain, Reconnect, Drop, CloseTab
  <2>2. UNCHANGED <<wire, outbox>> \/ (wire' = << >> /\ outbox' = << >>)
    <3> HIDE DEF LogType
    <3>1. QED
      BY <1>4 DEF OpenTab, LoadAgain, Reconnect, Drop, CloseTab
  <2>3. << >> \in Seq(Frame) /\ << >> \in Seq(Draft)
    OBVIOUS
  <2>4. wire' \in Seq(Frame) /\ outbox' \in Seq(Draft)
    BY <2>2, <2>3
  <2>5. QED
    BY <2>1, <2>4
<1>5. ASSUME NEW d \in Draft, Write(d) \/ WsSend(d)
      PROVE  LogType'
  <2>1. CASE Write(d)
    BY <2>1 DEF Write
  <2>2. CASE WsSend(d)
    <3>1. UNCHANGED <<log, gone, wire>> /\ (outbox' = outbox \/ outbox' = Append(outbox, d))
      BY <2>2 DEF WsSend
    <3>2. outbox \in Seq(Draft)
      OBVIOUS
    <3>3. outbox' \in Seq(Draft)
      <4> HIDE DEF LogType
      <4>1. QED
        BY <3>1, <3>2, Appended
    <3>4. QED
      BY <3>1, <3>3
  <2>3. QED
    BY <1>5, <2>1, <2>2
<1>6. CASE WorkerDecrypt \/ WorkerEncrypt \/ ShowStored \/ GetList \/ NextInHistory \/ Ingested \/ EndHistory
  <2>1. UNCHANGED <<log, gone, wire, outbox>>
    <3> HIDE DEF LogType
    <3>1. QED
      BY <1>6 DEF WorkerDecrypt, WorkerEncrypt, ShowStored, GetList, NextInHistory, Ingested, EndHistory
  <2>2. QED
    BY <2>1
<1>7. CASE OnMessage \/ OnDeleted \/ OnDelivered
  <2>1. wire # << >> /\ wire' = Tail(wire)
    BY <1>7 DEF OnMessage, OnDeleted, OnDelivered, NextFrame
  <2>2. wire' \in Seq(Frame)
    BY <2>1, TailOf
  <2>3. QED
    BY <1>7, <2>2 DEF OnMessage, OnDeleted, OnDelivered
<1>8. ASSUME NEW i \in Ingest, StorePlain(i) \/ Show(i) \/ Retry(i)
      PROVE  LogType'
  BY <1>8 DEF StorePlain, Show, Retry
<1>9. CASE UNCHANGED vars
  BY <1>9 DEF vars
<1>10. QED
  BY <1>1, <1>2, <1>3, <1>4, <1>5, <1>6, <1>7, <1>8, <1>9 DEF Next, Resume

\* The frame at hand is of a message the server has.
LEMMA FrameType ==
  ASSUME LogType, wire # << >>
  PROVE  Head(wire).seq \in Seq1
<1>1. Head(wire) \in Frame
  BY TailOf DEF LogType
<1>2. QED
  BY <1>1 DEF Frame

LEMMA PostType ==
  ASSUME PageType, NEW r \in Ingest \cup Draft, Post(r)
  PROVE  queue' \in Seq(Ingest \cup Draft)
BY DEF PageType, Post

LEMMA HeadType ==
  ASSUME PageType, queue # << >>, queue' = Tail(queue)
  PROVE  queue' \in Seq(Ingest \cup Draft)
BY TailOf DEF PageType

LEMMA EndType ==
  ASSUME NEW i \in Ingest
  PROVE  End(i, "ok") \in State /\ End(i, "bad") \in State
BY DEF End, State

LEMMA PageTypeNext ==
  ASSUME LogType, PageType, [Next]_vars
  PROVE  PageType'
<1> USE BoundAssumption DEF server, net, page, stored, ghost
<1>1. CASE PostMessage \/ TakeSend \/ Reconnect \/ Drop
  BY <1>1 DEF PageType, PostMessage, TakeSend, Reconnect, Drop
<1>2. ASSUME NEW n \in Seq1, DeleteForAll(n)
      PROVE  PageType'
  BY <1>2 DEF PageType, DeleteForAll
<1>3. CASE OpenTab \/ LoadAgain
  <2>1. StartHistory \in History /\ StartHistory.at = "stored"
    BY StartType DEF PageType
  <2>2. hist' = StartHistory /\ UNCHANGED <<cache, cursor, queue, task>>
    BY <1>3 DEF OpenTab, LoadAgain
  <2>3. QED
    BY <2>1, <2>2 DEF PageType
<1>4. CASE CloseTab
  <2>1. NoHistory \in History /\ NoHistory.at = "idle"
    BY IdleType
  <2>2. task' \in [Ingest -> State]
    BY <1>4 DEF CloseTab, State
  <2>3. QED
    BY <1>4, <2>1, <2>2 DEF PageType, CloseTab
<1>5. CASE WorkerDecrypt
  <2>1. queue' \in Seq(Ingest \cup Draft)
    BY <1>5, HeadType DEF WorkerDecrypt
  <2>2. task' \in [Ingest -> State]
    BY <1>5, EndType DEF WorkerDecrypt, PageType, State
  <2>3. QED
    BY <1>5, <2>1, <2>2 DEF PageType, WorkerDecrypt
<1>6. CASE WorkerEncrypt
  BY <1>6, HeadType DEF PageType, WorkerEncrypt
<1>7. CASE OnMessage
  <2>1. Head(wire).seq \in Seq1
    BY <1>7, FrameType DEF OnMessage, NextFrame
  <2> DEFINE n == Head(wire).seq
  <2> HIDE DEF n
  <2>2. CASE log[n] = "me"
    BY <1>7, <2>1, <2>2 DEF OnMessage, PageType, n, Seq1
  <2>3. CASE log[n] # "me"
    <3>1. task' = [task EXCEPT ![<<"live", n>>] = "decrypt"] /\ Post(<<"live", n>>)
      BY <1>7, <2>3 DEF OnMessage, n
    <3>2. <<"live", n>> \in Ingest
      BY <2>1, Indexes DEF n
    <3>3. queue' \in Seq(Ingest \cup Draft)
      BY <3>1, <3>2, PostType
    <3>4. QED
      BY <1>7, <2>3, <3>1, <3>3 DEF OnMessage, PageType, State, n
  <2>4. QED
    BY <2>2, <2>3
<1>8. CASE OnDeleted \/ OnDelivered
  <2>1. Head(wire).seq \in Seq1
    BY <1>8, FrameType DEF OnDeleted, OnDelivered, NextFrame
  <2>2. QED
    BY <1>8, <2>1 DEF PageType, OnDeleted, OnDelivered
<1>9. ASSUME NEW i \in Ingest, StorePlain(i) \/ Show(i)
      PROVE  PageType'
  <2>1. i[2] \in 0 .. MaxLog /\ i[2] \in Seq1
    BY Indexes DEF Seq1
  <2>2. task' \in [Ingest -> State]
    BY <1>9, EndType DEF PageType, StorePlain, Show, State
  <2>3. QED
    BY <1>9, <2>1, <2>2 DEF PageType, StorePlain, Show
<1>10. ASSUME NEW i \in Ingest, Retry(i)
       PROVE  PageType'
  <2>1. queue' \in Seq(Ingest \cup Draft)
    BY <1>10, PostType DEF Retry
  <2>2. QED
    BY <1>10, <2>1 DEF PageType, Retry, State
<1>11. CASE ShowStored
  <2>1. cursor + 1 \in 0 .. MaxLog + 1 /\ cursor + 1 \in Nat \ {0}
    BY DEF PageType
  <2>2. hist' \in History /\ hist'.at = "list" /\ hist'.next = cursor + 1
    BY <1>11, <2>1 DEF ShowStored, PageType, History
  <2>3. QED
    BY <1>11, <2>1, <2>2 DEF PageType, ShowStored
<1>12. CASE GetList
  <2>1. hist' \in History /\ (hist'.at = "idle" \/ (hist'.at = "loop" /\ hist'.next = hist.next))
    <3>1. CASE hist' = NoHistory
      BY <3>1, IdleType
    <3>2. CASE hist' = [hist EXCEPT !.at = "loop", !.last = Len(log), !.skip = gone]
      BY <3>2 DEF PageType, LogType, History
    <3>3. QED
      BY <1>12, <3>1, <3>2 DEF GetList
  <2>2. QED
    BY <1>12, <2>1 DEF PageType, GetList
<1>13. CASE NextInHistory
  <2> DEFINE n == hist.next
  <2>1. n \in Seq1 /\ n \in Nat \ {0} /\ n + 1 \in 0 .. MaxLog + 1 /\ n + 1 \in Nat \ {0} /\ n \in 0 .. MaxLog
    BY <1>13 DEF NextInHistory, PageType, History, Seq1
  <2>2. <<"history", n>> \in Ingest
    BY <2>1, Indexes
  <2>3. CASE log[n] = "me" \/ n \in hist.skip
    <3>1. hist' = [hist EXCEPT !.next = n + 1] /\ hist.at = "loop"
      BY <1>13, <2>3 DEF NextInHistory
    <3>2. hist' \in History /\ hist'.at = "loop" /\ hist'.next = n + 1
      BY <2>1, <3>1 DEF PageType, History
    <3>3. QED
      BY <1>13, <2>1, <2>3, <3>2 DEF PageType, NextInHistory
  <2>4. CASE ~ (log[n] = "me" \/ n \in hist.skip)
    <3>1. hist' = [hist EXCEPT !.at = "ingest"] /\ task' = [task EXCEPT ![<<"history", n>>] = "decrypt"]
          /\ Post(<<"history", n>>) /\ UNCHANGED <<cursor, cache>>
      BY <1>13, <2>4 DEF NextInHistory
    <3>2. hist' \in History /\ hist'.at = "ingest" /\ hist'.next = n
      BY <2>1, <3>1 DEF PageType, History
    <3>3. queue' \in Seq(Ingest \cup Draft)
      BY <2>2, <3>1, PostType
    <3>4. task' \in [Ingest -> State]
      BY <2>2, <3>1 DEF PageType, State
    <3>5. cache' \subseteq Seq1 /\ cursor' \in 0 .. MaxLog
      BY <3>1 DEF PageType
    <3>6. QED
      BY <2>1, <3>2, <3>3, <3>4, <3>5 DEF PageType
  <2>5. QED
    BY <2>3, <2>4
<1>14. CASE Ingested
  <2> DEFINE n == hist.next
             i == <<"history", n>>
  <2>1. n \in Seq1 /\ n + 1 \in 0 .. MaxLog + 1 /\ n + 1 \in Nat \ {0}
    BY <1>14 DEF Ingested, PageType, Seq1
  <2>2. hist' \in History /\ (hist'.at = "idle" \/ (hist'.at = "loop" /\ hist'.next = n + 1))
    <3>1. CASE hist' = NoHistory
      BY <3>1, IdleType
    <3>2. CASE hist' = [hist EXCEPT !.at = "loop", !.next = n + 1]
      BY <3>2, <2>1 DEF PageType, History
    <3>3. QED
      BY <1>14, <3>1, <3>2 DEF Ingested
  <2>3. task' \in [Ingest -> State]
    BY <1>14 DEF Ingested, PageType, State
  <2>4. QED
    BY <1>14, <2>1, <2>2, <2>3 DEF PageType, Ingested
<1>15. CASE EndHistory
  <2>1. NoHistory \in History /\ NoHistory.at = "idle"
    BY IdleType
  <2>2. QED
    BY <1>15, <2>1 DEF PageType, EndHistory
<1>16. ASSUME NEW d \in Draft, Write(d) \/ WsSend(d)
       PROVE  PageType'
  <2>1. queue' \in Seq(Ingest \cup Draft)
    <3>1. CASE Write(d)
      BY <3>1, PostType DEF Write
    <3>2. CASE WsSend(d)
      BY <3>2 DEF WsSend, PageType
    <3>3. QED
      BY <1>16, <3>1, <3>2
  <2>2. UNCHANGED <<cache, cursor, task, hist>>
    BY <1>16 DEF Write, WsSend
  <2>3. QED
    BY <2>1, <2>2 DEF PageType
<1>17. CASE UNCHANGED vars
  BY <1>17 DEF PageType, vars
<1>18. QED
  BY <1>1, <1>2, <1>3, <1>4, <1>5, <1>6, <1>7, <1>8, <1>9, <1>10, <1>11, <1>12, <1>13, <1>14, <1>15,
     <1>16, <1>17 DEF Next, Resume

-----------------------------------------------------------------------------
(* Which steps touch what *)

WireStep ==
  \/ PostMessage \/ TakeSend \/ \E n \in Seq1 : DeleteForAll(n)
  \/ /\ UNCHANGED <<log, gone>>
     /\ \/ UNCHANGED wire
        \/ wire' = << >>
        \/ wire # << >> /\ wire' = Tail(wire)

TaskStep ==
  \/ UNCHANGED task
  \/ CloseTab \/ WorkerDecrypt \/ OnMessage \/ NextInHistory \/ Ingested
  \/ \E i \in Ingest : StorePlain(i) \/ Show(i) \/ Retry(i)

QueueStep ==
  \/ UNCHANGED queue
  \/ CloseTab \/ WorkerDecrypt \/ WorkerEncrypt \/ OnMessage \/ NextInHistory
  \/ \E i \in Ingest : Retry(i)
  \/ \E d \in Draft : Write(d)

HistStep ==
  \/ UNCHANGED <<hist, tab>>
  \/ OpenTab \/ CloseTab \/ Ingested \/ NextInHistory
  \/ UNCHANGED tab /\ (LoadAgain \/ ShowStored \/ GetList \/ EndHistory)

LEMMA Steps ==
  ASSUME [Next]_vars
  PROVE  WireStep /\ TaskStep /\ QueueStep /\ HistStep
<1> USE DEF server, net, page, stored, ghost
<1>1. CASE PostMessage \/ TakeSend
  BY <1>1 DEF PostMessage, TakeSend, WireStep, TaskStep, QueueStep, HistStep
<1>2. ASSUME NEW n \in Seq1, DeleteForAll(n)
      PROVE  WireStep /\ TaskStep /\ QueueStep /\ HistStep
  <2>1. WireStep
    BY <1>2 DEF WireStep
  <2>2. UNCHANGED <<task, queue, hist, tab>>
    BY <1>2 DEF DeleteForAll
  <2>3. QED
    BY <2>1, <2>2 DEF TaskStep, QueueStep, HistStep
<1>3. CASE OpenTab \/ LoadAgain \/ Reconnect
  <2>1. UNCHANGED <<log, gone, wire, task, queue>> /\ HistStep
    BY <1>3 DEF OpenTab, LoadAgain, Reconnect, HistStep
  <2>2. QED
    BY <2>1 DEF WireStep, TaskStep, QueueStep
<1>4. CASE Drop
  <2>1. UNCHANGED <<log, gone, task, queue, hist, tab>> /\ wire' = << >>
    BY <1>4 DEF Drop
  <2>2. QED
    BY <2>1 DEF WireStep, TaskStep, QueueStep, HistStep
<1>5. CASE CloseTab
  <2>1. UNCHANGED <<log, gone>> /\ wire' = << >>
    BY <1>5 DEF CloseTab
  <2>2. QED
    BY <1>5, <2>1 DEF WireStep, TaskStep, QueueStep, HistStep
<1>6. ASSUME NEW d \in Draft, Write(d) \/ WsSend(d)
      PROVE  WireStep /\ TaskStep /\ QueueStep /\ HistStep
  <2>1. UNCHANGED <<log, gone, wire, task, hist, tab>> /\ (UNCHANGED queue \/ Write(d))
    BY <1>6 DEF Write, WsSend
  <2>2. QED
    BY <2>1 DEF WireStep, TaskStep, QueueStep, HistStep
<1>7. CASE WorkerDecrypt \/ WorkerEncrypt
  <2>1. UNCHANGED <<log, gone, wire, hist, tab>> /\ (UNCHANGED task \/ WorkerDecrypt)
    BY <1>7 DEF WorkerDecrypt, WorkerEncrypt
  <2>2. QED
    BY <1>7, <2>1 DEF WireStep, TaskStep, QueueStep, HistStep
<1>8. CASE OnMessage \/ OnDeleted \/ OnDelivered
  <2>1. UNCHANGED <<log, gone, hist, tab>> /\ wire # << >> /\ wire' = Tail(wire)
    BY <1>8 DEF OnMessage, OnDeleted, OnDelivered, NextFrame
  <2>2. OnMessage \/ UNCHANGED <<task, queue>>
    BY <1>8 DEF OnDeleted, OnDelivered
  <2>3. QED
    BY <2>1, <2>2 DEF WireStep, TaskStep, QueueStep, HistStep
<1>9. ASSUME NEW i \in Ingest, StorePlain(i) \/ Show(i) \/ Retry(i)
      PROVE  WireStep /\ TaskStep /\ QueueStep /\ HistStep
  <2>1. UNCHANGED <<log, gone, wire, hist, tab>> /\ (UNCHANGED queue \/ Retry(i))
    BY <1>9 DEF StorePlain, Show, Retry
  <2>2. QED
    BY <1>9, <2>1 DEF WireStep, TaskStep, QueueStep, HistStep
<1>10. CASE ShowStored \/ GetList \/ EndHistory
  <2>1. UNCHANGED <<log, gone, wire, task, queue, tab>>
    BY <1>10 DEF ShowStored, GetList, EndHistory
  <2>2. QED
    BY <1>10, <2>1 DEF WireStep, TaskStep, QueueStep, HistStep
<1>11. CASE NextInHistory
  <2>1. UNCHANGED <<log, gone, wire, tab>>
    BY <1>11 DEF NextInHistory
  <2>2. QED
    BY <1>11, <2>1 DEF WireStep, TaskStep, QueueStep, HistStep
<1>12. CASE Ingested
  <2>1. UNCHANGED <<log, gone, wire, queue, tab>>
    BY <1>12 DEF Ingested
  <2>2. QED
    BY <1>12, <2>1 DEF WireStep, TaskStep, QueueStep, HistStep
<1>13. CASE UNCHANGED vars
  BY <1>13 DEF vars, WireStep, TaskStep, QueueStep, HistStep
<1>14. QED
  BY <1>1, <1>2, <1>3, <1>4, <1>5, <1>6, <1>7, <1>8, <1>9, <1>10, <1>11, <1>12, <1>13 DEF Next, Resume

\* OnMessage ingests a message that has no ingest yet, and NextInHistory too; or they move
\* the cursor only.
Begins(i) ==
  task[i] = "none" /\ task' = [task EXCEPT ![i] = "decrypt"] /\ queue' = Append(queue, i)

LEMMA OnMessageBegins ==
  ASSUME LogType, PageType, RelayedOnce, OnMessage
  PROVE  /\ wire # << >> /\ wire' = Tail(wire) /\ 1 \in DOMAIN wire /\ wire[1].t = "message"
         /\ wire[1].seq \in Seq1
         /\ Begins(<<"live", wire[1].seq>>) \/ UNCHANGED <<task, queue>>
         /\ UNCHANGED <<log, gone, spent, cache, hist, shown, torn, tab>>
<1>1. wire # << >> /\ wire' = Tail(wire) /\ Head(wire).t = "message"
  BY DEF OnMessage, NextFrame
<1>2. Head(wire) = wire[1] /\ 1 \in DOMAIN wire /\ wire[1].seq \in Seq1
  BY <1>1, TailOf, FrameType DEF LogType
<1>3. task[<<"live", wire[1].seq>>] = "none"
  BY <1>1, <1>2 DEF RelayedOnce
<1>4. Begins(<<"live", wire[1].seq>>) \/ UNCHANGED <<task, queue>>
  BY <1>2, <1>3 DEF OnMessage, Begins, Post
<1>5. QED
  BY <1>1, <1>2, <1>4 DEF OnMessage, server, page, ghost

LEMMA NextBegins ==
  ASSUME PageType, OneIngest, NextInHistory
  PROVE  /\ hist.at = "loop" /\ hist.next \in Seq1
         /\ \/ Begins(<<"history", hist.next>>) /\ hist'.at = "ingest" /\ hist'.next = hist.next
            \/ UNCHANGED <<task, queue>>
         /\ UNCHANGED <<log, gone, wire, spent, cache, shown, torn, tab>>
         /\ hist'.seen = hist.seen
<1>1. hist.at = "loop" /\ hist.next \in Seq1
  BY BoundAssumption DEF NextInHistory, PageType, History, Seq1
<1>2. task[<<"history", hist.next>>] = "none"
  BY <1>1 DEF OneIngest
<1>3. CASE log[hist.next] = "me" \/ hist.next \in hist.skip
  BY <1>1, <1>3 DEF NextInHistory, server, net, page, ghost, PageType, History
<1>4. CASE ~ (log[hist.next] = "me" \/ hist.next \in hist.skip)
  <2>1. hist' = [hist EXCEPT !.at = "ingest"] /\ task' = [task EXCEPT ![<<"history", hist.next>>] = "decrypt"]
        /\ Post(<<"history", hist.next>>)
    BY <1>4 DEF NextInHistory
  <2>2. hist'.at = "ingest" /\ hist'.next = hist.next /\ hist'.seen = hist.seen
    BY <2>1 DEF PageType, History
  <2>3. Begins(<<"history", hist.next>>)
    BY <1>2, <2>1 DEF Begins, Post
  <2>4. QED
    BY <1>1, <2>2, <2>3 DEF NextInHistory, server, net, page, ghost
<1>5. QED
  BY <1>3, <1>4

LEMMA TakesFrame ==
  ASSUME LogType, NEW t, NextFrame(t)
  PROVE  /\ wire # << >> /\ wire' = Tail(wire) /\ 1 \in DOMAIN wire
         /\ Head(wire) = wire[1] /\ wire[1].t = t /\ wire[1].seq \in Seq1
<1>1. wire # << >> /\ wire' = Tail(wire) /\ Head(wire).t = t
  BY DEF NextFrame
<1>2. QED
  BY <1>1, FrameType, TailOf DEF LogType

\* The worker decrypts a message once; what it answers, a running ingest awaits.
LEMMA DecryptMoves ==
  ASSUME PageType, AskedOnce, WorkerDecrypt, NEW i, i = Head(queue)
  PROVE  /\ queue # << >> /\ queue' = Tail(queue) /\ 1 \in DOMAIN queue /\ queue[1] = i
         /\ i \in Ingest /\ task[i] \in {"decrypt", "again"}
         /\ \A j \in Ingest : j # i => task'[j] = task[j]
         /\ task'[i] \in {"failed", "none", "bad", "plain"}
         /\ \/ i[2] \in spent /\ UNCHANGED spent
            \/ spent' = spent \cup {i[2]} /\ task'[i] = "plain"
         /\ UNCHANGED <<cache, gone, torn, shown, hist>>
<1>1. queue # << >> /\ queue' = Tail(queue) /\ i \in Ingest
  BY DEF WorkerDecrypt
<1>2. 1 \in DOMAIN queue /\ queue[1] = i
  BY <1>1, TailOf DEF PageType
<1>3. task[i] \in {"decrypt", "again"}
  BY <1>1, <1>2 DEF AskedOnce
<1>4. UNCHANGED <<cache, gone, torn, shown, hist>>
  BY DEF WorkerDecrypt, server, page, ghost
<1>5. CASE i[2] \in spent
  <2>1. task' = [task EXCEPT ![i] = IF @ = "decrypt" THEN "failed" ELSE End(i, "bad")] /\ UNCHANGED spent
    BY <1>5 DEF WorkerDecrypt
  <2>2. End(i, "bad") \in {"bad", "none"}
    BY DEF End
  <2>3. task'[i] \in {"failed", "none", "bad"} /\ \A j \in Ingest : j # i => task'[j] = task[j]
    BY <1>1, <2>1, <2>2 DEF PageType
  <2>4. QED
    BY <1>1, <1>2, <1>3, <1>4, <1>5, <2>1, <2>3
<1>6. CASE i[2] \notin spent
  <2>1. task' = [task EXCEPT ![i] = "plain"] /\ spent' = spent \cup {i[2]}
    BY <1>6 DEF WorkerDecrypt
  <2>2. task'[i] = "plain" /\ \A j \in Ingest : j # i => task'[j] = task[j]
    BY <1>1, <2>1 DEF PageType
  <2>3. QED
    BY <1>1, <1>2, <1>3, <1>4, <2>1, <2>2
<1>7. QED
  BY <1>5, <1>6

LEMMA Calm ==
  ASSUME PageType, AskedOnce, TaskStep, ~ OnMessage, ~ NextInHistory
  PROVE  \A i \in Ingest : task[i] = "none" => task'[i] = "none"
<1> SUFFICES ASSUME NEW i \in Ingest, task[i] = "none"
             PROVE  task'[i] = "none"
  OBVIOUS
<1>1. CASE UNCHANGED task
  BY <1>1
<1>2. CASE CloseTab
  BY <1>2 DEF CloseTab
<1>3. CASE WorkerDecrypt
  BY <1>3, DecryptMoves
<1>4. CASE Ingested
  BY <1>4 DEF Ingested, PageType
<1>5. ASSUME NEW j \in Ingest, StorePlain(j) \/ Show(j) \/ Retry(j)
      PROVE  task'[i] = "none"
  BY <1>5 DEF StorePlain, Show, Retry, PageType
<1>6. QED
  BY <1>1, <1>2, <1>3, <1>4, <1>5 DEF TaskStep

-----------------------------------------------------------------------------
(* RelayedOnce *)

\* The first frame is taken, or all are lost; no ingest of a live frame begins.
LEMMA RelayedOnceLoses ==
  ASSUME LogType, RelayedOnce, UNCHANGED log,
         UNCHANGED wire \/ wire' = << >> \/ (wire # << >> /\ wire' = Tail(wire)),
         \A n \in Seq1 : task[<<"live", n>>] = "none" => task'[<<"live", n>>] = "none"
  PROVE  RelayedOnce'
<1>1. PICK d \in {0, 1} : \A k \in DOMAIN wire' : k \in Nat /\ k + d \in DOMAIN wire /\ wire'[k] = wire[k + d]
  <2>1. CASE UNCHANGED wire
    <3>1. \A k \in DOMAIN wire' : k \in Nat /\ k + 0 \in DOMAIN wire /\ wire'[k] = wire[k + 0]
      BY <2>1 DEF LogType
    <3>2. QED
      BY <3>1
  <2>2. CASE wire # << >> /\ wire' = Tail(wire)
    BY <2>2, TailOf DEF LogType
  <2>3. CASE wire' = << >>
    BY <2>3
  <2>4. QED
    BY <2>1, <2>2, <2>3
<1>2. \A k \in DOMAIN wire : wire[k].seq \in Seq1
  BY DEF LogType, Frame
<1>3. \A j, k \in DOMAIN wire' : j + d = k + d => j = k
  BY <1>1
<1>4. \A j, k \in DOMAIN wire' :
        wire'[j].t = "message" /\ wire'[k].t = "message" /\ wire'[j].seq = wire'[k].seq => j = k
  <2> SUFFICES ASSUME NEW j \in DOMAIN wire', NEW k \in DOMAIN wire',
                      wire'[j].t = "message", wire'[k].t = "message", wire'[j].seq = wire'[k].seq
               PROVE  j = k
    OBVIOUS
  <2>1. j + d = k + d
    BY <1>1 DEF RelayedOnce
  <2>2. QED
    BY <2>1, <1>3
<1>5. QED
  BY <1>1, <1>2, <1>4 DEF RelayedOnce

\* A frame gets on the wire: not a second `message' with its seq, and no task has begun for it.
LEMMA RelayedOnceGains ==
  ASSUME LogType, RelayedOnce, Len(log') \in Nat, Len(log) <= Len(log'), UNCHANGED task,
         NEW f \in Frame, f.seq <= Len(log'), f.t = "message" => f.seq > Len(log),
         NEW k \in Nat, wire' \in Seq(Frame),
         \A j \in DOMAIN wire' :
           \/ j = k /\ wire'[j] = f
           \/ j < k /\ j \in DOMAIN wire /\ wire'[j] = wire[j]
           \/ j > k /\ j - 1 \in DOMAIN wire /\ wire'[j] = wire[j - 1]
  PROVE  RelayedOnce'
<1>1. \A j \in DOMAIN wire : wire[j].seq \in Seq1 /\ j \in Nat
  BY DEF LogType, Frame
<1>2. f.seq \in Seq1
  BY DEF Frame
<1>3. Len(log) \in Nat /\ \A n \in Seq1 : n \in Nat
  BY DEF LogType, Seq1
<1>4. \A j \in DOMAIN wire' : wire'[j].seq <= Len(log')
  BY <1>1, <1>3 DEF RelayedOnce
<1>5. \A j \in DOMAIN wire' : wire'[j].t = "message" => task[<<"live", wire'[j].seq>>] = "none"
  BY <1>1, <1>2, <1>3 DEF RelayedOnce
<1>6. \A i, j \in DOMAIN wire' :
        wire'[i].t = "message" /\ wire'[j].t = "message" /\ wire'[i].seq = wire'[j].seq => i = j
  <2> SUFFICES ASSUME NEW i \in DOMAIN wire', NEW j \in DOMAIN wire',
                      wire'[i].t = "message", wire'[j].t = "message", wire'[i].seq = wire'[j].seq
               PROVE  i = j
    OBVIOUS
  <2>1. \A h \in DOMAIN wire : wire[h].seq # f.seq \/ f.t # "message"
    BY <1>1, <1>2, <1>3 DEF RelayedOnce
  <2>2. CASE i = k \/ j = k
    BY <2>1, <2>2
  <2>3. CASE i # k /\ j # k
    <3>1. i \in Nat /\ j \in Nat
      OBVIOUS
    <3>2. PICK g \in DOMAIN wire : wire'[i] = wire[g] /\ g = IF i < k THEN i ELSE i - 1
      BY <2>3, <3>1
    <3>3. PICK h \in DOMAIN wire : wire'[j] = wire[h] /\ h = IF j < k THEN j ELSE j - 1
      BY <2>3, <3>1
    <3>4. g = h
      BY <3>2, <3>3 DEF RelayedOnce
    <3>5. QED
      BY <2>3, <3>1, <3>2, <3>3, <3>4
  <2>4. QED
    BY <2>2, <2>3
<1>7. \A n \in Seq1 : task[<<"live", n>>] # "none" => n <= Len(log')
  BY <1>3 DEF RelayedOnce
<1>8. QED
  BY <1>4, <1>5, <1>6, <1>7 DEF RelayedOnce

LEMMA RelayedOnceNext ==
  ASSUME LogType, PageType, AskedOnce, RelayedOnce, OneIngest, [Next]_vars
  PROVE  RelayedOnce'
<1>1. LogType'
  BY LogTypeNext
<1>2. CASE PostMessage
  <2> DEFINE f == [t |-> "message", seq |-> Len(log) + 1]
  <2>1. Len(log) \in Nat /\ Len(log') = Len(log) + 1 /\ UNCHANGED task
    BY <1>2 DEF PostMessage, LogType
  <2>2. f \in Frame /\ f.seq = Len(log) + 1 /\ f.t = "message"
    BY <1>2, BoundAssumption DEF PostMessage, LogType, Frame, Seq1
  <2> HIDE DEF f
  <2>3. CASE open
    <3>1. PICK k \in 1 .. Len(wire) + 1 : wire' = InsertAt(wire, k, f)
      BY <1>2, <2>3 DEF PostMessage, f
    <3>2. wire \in Seq(Frame) /\ wire' \in Seq(Frame) /\ k \in Nat
      BY <1>1 DEF LogType
    <3>3. \A j \in DOMAIN InsertAt(wire, k, f) :
           \/ j = k /\ InsertAt(wire, k, f)[j] = f
           \/ j < k /\ j \in DOMAIN wire /\ InsertAt(wire, k, f)[j] = wire[j]
           \/ j > k /\ j - 1 \in DOMAIN wire /\ InsertAt(wire, k, f)[j] = wire[j - 1]
      BY <2>2, <3>2, Inserted
    <3>4. f.seq <= Len(log') /\ f.seq > Len(log) /\ Len(log) <= Len(log') /\ Len(log') \in Nat
      BY <2>1, <2>2
    <3>5. QED
      BY <2>1, <2>2, <3>1, <3>2, <3>3, <3>4, RelayedOnceGains
  <2>4. CASE ~ open
    <3>1. UNCHANGED wire
      BY <1>2, <2>4 DEF PostMessage
    <3>2. QED
      BY <2>1, <3>1 DEF RelayedOnce, LogType, Frame, Seq1
  <2>5. QED
    BY <2>3, <2>4
<1>3. ASSUME NEW f \in Frame, Push(f), f.t # "message", f.seq <= Len(log'),
             Len(log) <= Len(log'), UNCHANGED task
      PROVE  RelayedOnce'
  <2>1. Len(log) \in Nat /\ Len(log') \in Nat /\ wire' \in Seq(Frame) /\ Len(wire) \in Nat
    BY <1>1 DEF LogType
  <2>2. \A j \in DOMAIN wire' :
          \/ j = Len(wire) + 1 /\ wire'[j] = f
          \/ j \in DOMAIN wire /\ wire'[j] = wire[j] /\ j < Len(wire) + 1
    BY <1>3 DEF Push, LogType
  <2>3. QED
    BY <1>3, <2>1, <2>2, RelayedOnceGains
<1>4. CASE TakeSend
  <2> DEFINE f == [t |-> "delivered", seq |-> Len(log) + 1, id |-> Head(outbox)]
  <2>1. Len(log) \in Nat /\ Len(log') = Len(log) + 1 /\ UNCHANGED task /\ Push(f)
    BY <1>4 DEF TakeSend, LogType
  <2>2. f \in Frame /\ f.seq = Len(log) + 1 /\ f.t # "message"
    BY <1>4, BoundAssumption DEF TakeSend, LogType, Frame, Seq1
  <2> HIDE DEF f
  <2>3. QED
    BY <1>3, <2>1, <2>2
<1>5. ASSUME NEW n \in Seq1, DeleteForAll(n)
      PROVE  RelayedOnce'
  <2> DEFINE f == [t |-> "deleted", seq |-> n]
  <2>1. f \in Frame /\ f.seq = n /\ f.t # "message"
    BY DEF Frame
  <2>2. n <= Len(log) /\ UNCHANGED <<log, task>> /\ Push(f) /\ Len(log) \in Nat
    BY <1>5 DEF DeleteForAll, LogType
  <2> HIDE DEF f
  <2>3. QED
    BY <1>3, <2>1, <2>2
<1>6. CASE OnMessage
  <2>1. CASE UNCHANGED task
    BY <1>6, <2>1, OnMessageBegins, RelayedOnceLoses
  <2>2. CASE Begins(<<"live", wire[1].seq>>)
    <3> DEFINE n == wire[1].seq
    <3>1. /\ wire # << >> /\ wire' = Tail(wire) /\ 1 \in DOMAIN wire /\ wire[1].t = "message"
          /\ n \in Seq1 /\ UNCHANGED log
      BY <1>6, OnMessageBegins
    <3>2. task' = [task EXCEPT ![<<"live", n>>] = "decrypt"]
      BY <2>2 DEF Begins
    <3>3. \A m \in Seq1 : m # n => task'[<<"live", m>>] = task[<<"live", m>>]
      BY <3>2, <3>1, Indexes DEF PageType
    <3>4. \A k \in DOMAIN wire' : /\ k \in Nat /\ k + 1 \in DOMAIN wire /\ k + 1 # 1
                                  /\ wire'[k] = wire[k + 1] /\ wire[k + 1].seq \in Seq1
      BY <3>1, TailOf DEF LogType, Frame
    <3>5. \A k \in DOMAIN wire' : wire'[k].t = "message" => wire'[k].seq # n
      BY <3>1, <3>4 DEF RelayedOnce
    <3> HIDE DEF n
    <3>6. \A k \in DOMAIN wire' : wire'[k].t = "message" => task'[<<"live", wire'[k].seq>>] = "none"
      BY <3>3, <3>4, <3>5 DEF RelayedOnce
    <3>7. \A k \in DOMAIN wire' : wire'[k].seq <= Len(log')
      BY <3>1, <3>4 DEF RelayedOnce
    <3>8. n <= Len(log)
      BY <3>1 DEF RelayedOnce, n
    <3>9. \A m \in Seq1 : task'[<<"live", m>>] # "none" => m <= Len(log')
      BY <3>1, <3>3, <3>8 DEF RelayedOnce
    <3>10. \A j, k \in DOMAIN wire' :
             wire'[j].t = "message" /\ wire'[k].t = "message" /\ wire'[j].seq = wire'[k].seq => j = k
      <4> SUFFICES ASSUME NEW j \in DOMAIN wire', NEW k \in DOMAIN wire',
                          wire'[j].t = "message", wire'[k].t = "message", wire'[j].seq = wire'[k].seq
                   PROVE  j = k
        OBVIOUS
      <4>1. j + 1 = k + 1
        BY <3>4 DEF RelayedOnce
      <4>2. QED
        BY <3>4, <4>1
    <3>11. QED
      BY <3>6, <3>7, <3>9, <3>10 DEF RelayedOnce
  <2>3. QED
    BY <1>6, <2>1, <2>2, OnMessageBegins
<1>7. CASE NextInHistory
  <2>1. \A n \in Seq1 : task[<<"live", n>>] = "none" => task'[<<"live", n>>] = "none"
    BY <1>7, NextBegins, Indexes DEF Begins, PageType
  <2>2. QED
    BY <1>7, <2>1, NextBegins, RelayedOnceLoses
<1>8. CASE ~ OnMessage /\ ~ NextInHistory /\ UNCHANGED log
           /\ (UNCHANGED wire \/ wire' = << >> \/ (wire # << >> /\ wire' = Tail(wire)))
  <2>1. \A n \in Seq1 : task[<<"live", n>>] = "none" => task'[<<"live", n>>] = "none"
    BY <1>8, Steps, Calm, Indexes
  <2>2. QED
    BY <1>8, <2>1, RelayedOnceLoses
<1>9. QED
  BY <1>2, <1>4, <1>5, <1>6, <1>7, <1>8, Steps DEF WireStep

-----------------------------------------------------------------------------
(* DeletedIsGone, OneIngest, AskedOnce *)

LEMMA DeletedIsGoneNext ==
  ASSUME LogType, DeletedIsGone, [Next]_vars
  PROVE  DeletedIsGone' /\ gone \subseteq gone'
<1>1. ASSUME gone \subseteq gone',
             \A k \in DOMAIN wire' : \/ \E j \in DOMAIN wire : wire'[k] = wire[j]
                                     \/ wire'[k].t # "deleted"
                                     \/ wire'[k].seq \in gone'
      PROVE  DeletedIsGone' /\ gone \subseteq gone'
  BY <1>1 DEF DeletedIsGone
<1>2. CASE PostMessage
  <2> DEFINE f == [t |-> "message", seq |-> Len(log) + 1]
  <2>1. f \in Frame /\ f.t # "deleted"
    BY <1>2, BoundAssumption DEF PostMessage, LogType, Frame, Seq1
  <2> HIDE DEF f
  <2>2. UNCHANGED gone /\ (UNCHANGED wire \/ \E k \in 1 .. Len(wire) + 1 : wire' = InsertAt(wire, k, f))
    BY <1>2 DEF PostMessage, f
  <2>3. \A k \in DOMAIN wire' : wire'[k] = f \/ \E j \in DOMAIN wire : wire'[k] = wire[j]
    <3>1. wire \in Seq(Frame)
      BY DEF LogType
    <3>2. ASSUME NEW k \in 1 .. Len(wire) + 1, wire' = InsertAt(wire, k, f)
          PROVE  \A i \in DOMAIN wire' : wire'[i] = f \/ \E j \in DOMAIN wire : wire'[i] = wire[j]
      <4>1. \A j \in DOMAIN InsertAt(wire, k, f) :
              \/ j = k /\ InsertAt(wire, k, f)[j] = f
              \/ j < k /\ j \in DOMAIN wire /\ InsertAt(wire, k, f)[j] = wire[j]
              \/ j > k /\ j - 1 \in DOMAIN wire /\ InsertAt(wire, k, f)[j] = wire[j - 1]
        BY <2>1, <3>1, Inserted
      <4>2. QED
        BY <3>2, <4>1
    <3>3. QED
      BY <2>2, <3>2
  <2>4. QED
    BY <1>1, <2>1, <2>2, <2>3
<1>3. ASSUME NEW f, Push(f), gone \subseteq gone', f.t # "deleted" \/ f.seq \in gone', f \in Frame
      PROVE  DeletedIsGone' /\ gone \subseteq gone'
  <2>1. \A k \in DOMAIN wire' : wire'[k] = f \/ \E j \in DOMAIN wire : wire'[k] = wire[j]
    BY <1>3, Appended DEF Push, LogType
  <2>2. QED
    BY <1>1, <1>3, <2>1
<1>4. CASE TakeSend
  <2> DEFINE f == [t |-> "delivered", seq |-> Len(log) + 1, id |-> Head(outbox)]
  <2>1. f \in Frame /\ f.t # "deleted"
    BY <1>4, BoundAssumption DEF TakeSend, LogType, Frame, Seq1
  <2>2. Push(f) /\ UNCHANGED gone
    BY <1>4 DEF TakeSend
  <2> HIDE DEF f
  <2>3. QED
    BY <1>3, <2>1, <2>2
<1>5. ASSUME NEW n \in Seq1, DeleteForAll(n)
      PROVE  DeletedIsGone' /\ gone \subseteq gone'
  <2> DEFINE f == [t |-> "deleted", seq |-> n]
  <2>1. f \in Frame /\ f.seq = n
    BY DEF Frame
  <2>2. Push(f) /\ gone' = gone \cup {n}
    BY <1>5 DEF DeleteForAll
  <2> HIDE DEF f
  <2>3. QED
    BY <1>3, <2>1, <2>2
<1>6. CASE UNCHANGED gone /\ (UNCHANGED wire \/ wire' = << >> \/ (wire # << >> /\ wire' = Tail(wire)))
  <2>1. \A k \in DOMAIN wire' : \E j \in DOMAIN wire : wire'[k] = wire[j]
    <3>1. CASE wire # << >> /\ wire' = Tail(wire)
      <4>1. \A k \in DOMAIN wire' : k + 1 \in DOMAIN wire /\ wire'[k] = wire[k + 1]
        BY <3>1, TailOf DEF LogType
      <4>2. QED
        BY <4>1
    <3>2. CASE UNCHANGED wire \/ wire' = << >>
      BY <3>2
    <3>3. QED
      BY <1>6, <3>1, <3>2
  <2>2. QED
    BY <1>1, <1>6, <2>1
<1>7. QED
  BY <1>2, <1>4, <1>5, <1>6, Steps DEF WireStep

LEMMA OneIngestNext ==
  ASSUME LogType, PageType, RelayedOnce, OneIngest, AskedOnce, [Next]_vars
  PROVE  OneIngest'
<1>1. CASE OnMessage
  <2>1. \A n \in Seq1 : task'[<<"history", n>>] = task[<<"history", n>>]
    BY <1>1, OnMessageBegins, Indexes DEF Begins, PageType
  <2>2. QED
    BY <1>1, <2>1, OnMessageBegins DEF OneIngest
<1>2. CASE NextInHistory
  <2>1. CASE UNCHANGED task
    BY <1>2, <2>1, NextBegins DEF OneIngest
  <2>2. CASE Begins(<<"history", hist.next>>) /\ hist'.at = "ingest" /\ hist'.next = hist.next
    <3>1. \A n \in Seq1 : n # hist.next => task'[<<"history", n>>] = task[<<"history", n>>]
      BY <1>2, <2>2, NextBegins, Indexes DEF Begins, PageType
    <3>2. QED
      BY <1>2, <2>2, <3>1, NextBegins DEF OneIngest
  <2>3. tab' = tab /\ (tab \/ hist.at = "idle")
    BY <1>2, NextBegins DEF OneIngest
  <2>4. QED
    BY <1>2, <2>1, <2>2, NextBegins
<1>3. CASE CloseTab
  BY <1>3, IdleType, Indexes DEF CloseTab, OneIngest
<1>4. CASE Ingested
  <2>1. hist.at = "ingest" /\ hist.next \in Seq1 /\ UNCHANGED tab
        /\ task' = [task EXCEPT ![<<"history", hist.next>>] = "none"]
    BY <1>4 DEF Ingested, PageType, page
  <2>2. \A n \in Seq1 : task'[<<"history", n>>] = "none"
    BY <2>1, Indexes DEF OneIngest, PageType
  <2>3. QED
    BY <2>1, <2>2 DEF OneIngest
<1>5. CASE ~ OnMessage /\ ~ NextInHistory /\ ~ CloseTab /\ ~ Ingested
  <2>1. \A n \in Seq1 : task[<<"history", n>>] = "none" => task'[<<"history", n>>] = "none"
    BY <1>5, Steps, Calm, Indexes
  <2>2. CASE UNCHANGED <<hist, tab>>
    BY <2>1, <2>2 DEF OneIngest
  <2>3. CASE OpenTab
    <3>1. tab' /\ hist.at # "ingest"
      BY <2>3 DEF OpenTab, OneIngest
    <3>2. QED
      BY <2>1, <3>1 DEF OneIngest
  <2>4. CASE UNCHANGED tab /\ (LoadAgain \/ ShowStored \/ GetList \/ EndHistory)
    <3>1. hist.at # "ingest" /\ (tab \/ hist'.at = "idle")
      <4>1. CASE LoadAgain
        BY <4>1 DEF LoadAgain
      <4>2. CASE ~ LoadAgain
        BY <2>4, <4>2 DEF ShowStored, GetList, EndHistory, OneIngest
      <4>3. QED
        BY <4>1, <4>2
    <3>2. QED
      BY <2>1, <2>4, <3>1 DEF OneIngest
  <2>5. QED
    BY <1>5, <2>2, <2>3, <2>4, Steps DEF HistStep
<1>6. QED
  BY <1>1, <1>2, <1>3, <1>4, <1>5

\* An ingest that is not waiting asks the worker.
LEMMA AskedOnceGains ==
  ASSUME PageType, AskedOnce, NEW i \in Ingest, task[i] \notin {"decrypt", "again"},
         queue' = Append(queue, i), NEW s \in {"decrypt", "again"}, task' = [task EXCEPT ![i] = s]
  PROVE  AskedOnce'
<1>1. task'[i] = s /\ \A j \in Ingest : j # i => task'[j] = task[j]
  BY DEF PageType
<1>2. \A k \in DOMAIN queue' : \/ k = Len(queue) + 1 /\ queue'[k] = i
                               \/ k \in DOMAIN queue /\ queue'[k] = queue[k] /\ k # Len(queue) + 1
  BY Appended DEF PageType
<1>3. \A k \in DOMAIN queue : queue[k] # i
  BY DEF AskedOnce
<1>4. QED
  BY <1>1, <1>2, <1>3 DEF AskedOnce

LEMMA AskedOnceNext ==
  ASSUME LogType, PageType, RelayedOnce, OneIngest, AskedOnce, [Next]_vars
  PROVE  AskedOnce'
<1>1. CASE OnMessage
  <2>1. CASE UNCHANGED <<task, queue>>
    BY <2>1 DEF AskedOnce
  <2>2. CASE Begins(<<"live", wire[1].seq>>)
    <3>1. <<"live", wire[1].seq>> \in Ingest
      BY <1>1, OnMessageBegins, Indexes
    <3>2. QED
      BY <2>2, <3>1, AskedOnceGains DEF Begins
  <2>3. QED
    BY <1>1, <2>1, <2>2, OnMessageBegins
<1>2. CASE NextInHistory
  <2>1. CASE UNCHANGED <<task, queue>>
    BY <2>1 DEF AskedOnce
  <2>2. CASE Begins(<<"history", hist.next>>)
    <3>1. <<"history", hist.next>> \in Ingest
      BY <1>2, NextBegins, Indexes
    <3>2. QED
      BY <2>2, <3>1, AskedOnceGains DEF Begins
  <2>3. QED
    BY <1>2, <2>1, <2>2, NextBegins
<1>3. ASSUME NEW i \in Ingest, Retry(i)
      PROVE  AskedOnce'
  BY <1>3, AskedOnceGains DEF Retry, Post
<1>4. CASE CloseTab
  BY <1>4 DEF CloseTab, AskedOnce
<1>5. CASE WorkerDecrypt
  <2> DEFINE i == Head(queue)
  <2>1. /\ queue # << >> /\ queue' = Tail(queue) /\ 1 \in DOMAIN queue /\ queue[1] = i
        /\ i \in Ingest /\ \A j \in Ingest : j # i => task'[j] = task[j]
    BY <1>5, DecryptMoves
  <2> HIDE DEF i
  <2>2. \A k \in DOMAIN queue' : k + 1 \in DOMAIN queue /\ k + 1 # 1 /\ k \in Nat /\ queue'[k] = queue[k + 1]
    BY <2>1, TailOf DEF PageType
  <2>3. \A k \in DOMAIN queue' : queue'[k] # i
    BY <2>1, <2>2 DEF AskedOnce
  <2>4. \A k \in DOMAIN queue' : queue'[k] \in Ingest => task'[queue'[k]] \in {"decrypt", "again"}
    BY <2>1, <2>2, <2>3 DEF AskedOnce
  <2>5. ASSUME NEW j \in DOMAIN queue', NEW k \in DOMAIN queue', queue'[j] \in Ingest, queue'[j] = queue'[k]
        PROVE  j = k
    <3>1. j + 1 = k + 1
      BY <2>2, <2>5 DEF AskedOnce
    <3>2. QED
      BY <2>2, <3>1
  <2>6. QED
    BY <2>4, <2>5 DEF AskedOnce
<1>6. ASSUME UNCHANGED queue \/ (queue # << >> /\ queue' = Tail(queue))
                \/ (\E d \in Draft : queue' = Append(queue, d)),
             \A i \in Ingest : task[i] \in {"decrypt", "again"} => task'[i] = task[i]
      PROVE  AskedOnce'
  <2>1. CASE UNCHANGED queue
    BY <1>6, <2>1 DEF AskedOnce
  <2>2. CASE queue # << >> /\ queue' = Tail(queue)
    <3>1. \A k \in DOMAIN queue' : k + 1 \in DOMAIN queue /\ k \in Nat /\ queue'[k] = queue[k + 1]
      BY <2>2, TailOf DEF PageType
    <3>2. ASSUME NEW j \in DOMAIN queue', NEW k \in DOMAIN queue', queue'[j] \in Ingest, queue'[j] = queue'[k]
          PROVE  j = k
      <4>1. j + 1 = k + 1
        BY <3>1, <3>2 DEF AskedOnce
      <4>2. QED
        BY <3>1, <4>1
    <3>3. QED
      BY <1>6, <3>1, <3>2 DEF AskedOnce
  <2>3. ASSUME NEW d \in Draft, queue' = Append(queue, d)
        PROVE  AskedOnce'
    <3>1. \A k \in DOMAIN queue' : queue'[k] = d \/ (k \in DOMAIN queue /\ queue'[k] = queue[k])
      BY <2>3, Appended DEF PageType
    <3>2. d \notin Ingest
      BY Indexes
    <3>3. QED
      BY <1>6, <3>1, <3>2 DEF AskedOnce
  <2>4. QED
    BY <1>6, <2>1, <2>2, <2>3
<1>7. CASE WorkerEncrypt \/ \E d \in Draft : Write(d)
  <2>1. UNCHANGED task
    BY <1>7 DEF WorkerEncrypt, Write
  <2>2. (queue # << >> /\ queue' = Tail(queue)) \/ (\E d \in Draft : queue' = Append(queue, d))
    BY <1>7 DEF WorkerEncrypt, Write, Post
  <2>3. QED
    BY <1>6, <2>1, <2>2
<1>8. CASE UNCHANGED queue /\ ~ OnMessage /\ ~ NextInHistory /\ ~ CloseTab /\ ~ WorkerDecrypt
           /\ ~ \E i \in Ingest : Retry(i)
  <2>1. CASE UNCHANGED task
    BY <1>6, <1>8, <2>1
  <2>2. CASE Ingested
    <3>1. \A i \in Ingest : task[i] \in {"decrypt", "again"} => task'[i] = task[i]
      BY <2>2 DEF Ingested, PageType
    <3>2. QED
      BY <1>6, <1>8, <3>1
  <2>3. ASSUME NEW j \in Ingest, StorePlain(j) \/ Show(j)
        PROVE  AskedOnce'
    <3>1. \A i \in Ingest : task[i] \in {"decrypt", "again"} => task'[i] = task[i]
      BY <2>3 DEF StorePlain, Show, PageType
    <3>2. QED
      BY <1>6, <1>8, <3>1
  <2>4. QED
    BY <1>8, <2>1, <2>2, <2>3, Steps DEF TaskStep
<1>9. QED
  BY <1>1, <1>2, <1>3, <1>4, <1>5, <1>7, <1>8, Steps DEF QueueStep

-----------------------------------------------------------------------------
(* StoredFirst and SpentIsKept *)

\* The stored plaintexts stay, but for those of messages deleted for everyone.
LEMMA CacheStays ==
  ASSUME LogType, PageType, DeletedIsGone, [Next]_vars
  PROVE  cache \cup gone \subseteq cache' \cup gone'
<1> USE DEF server, net, page, stored, ghost
<1>1. gone \subseteq gone'
  BY DeletedIsGoneNext
<1>2. cache \subseteq cache' \cup gone
  <2>1. CASE OnDeleted
    <3>1. Head(wire).seq \in gone
      BY <2>1, TakesFrame DEF OnDeleted, DeletedIsGone
    <3>2. QED
      BY <2>1, <3>1 DEF OnDeleted
  <2>2. CASE PostMessage \/ TakeSend \/ OpenTab \/ LoadAgain \/ Reconnect \/ Drop \/ CloseTab
    BY <2>2 DEF PostMessage, TakeSend, OpenTab, LoadAgain, Reconnect, Drop, CloseTab
  <2>3. ASSUME NEW n \in Seq1, DeleteForAll(n)
        PROVE  cache \subseteq cache'
    BY <2>3 DEF DeleteForAll
  <2>4. ASSUME NEW d \in Draft, Write(d) \/ WsSend(d)
        PROVE  cache \subseteq cache'
    BY <2>4 DEF Write, WsSend
  <2>5. CASE WorkerDecrypt \/ WorkerEncrypt \/ OnMessage \/ OnDelivered
    BY <2>5 DEF WorkerDecrypt, WorkerEncrypt, OnMessage, OnDelivered
  <2>6. ASSUME NEW i \in Ingest, StorePlain(i) \/ Show(i) \/ Retry(i)
        PROVE  cache \subseteq cache'
    BY <2>6 DEF StorePlain, Show, Retry
  <2>7. CASE ShowStored \/ GetList \/ NextInHistory \/ Ingested \/ EndHistory
    BY <2>7 DEF ShowStored, GetList, NextInHistory, Ingested, EndHistory
  <2>8. CASE UNCHANGED vars
    BY <2>8 DEF vars
  <2>9. QED
    BY <2>1, <2>2, <2>3, <2>4, <2>5, <2>6, <2>7, <2>8 DEF Next, Resume
<1>3. QED
  BY <1>1, <1>2

\* A step that lists or reads back nothing.
LEMMA StoredFirstKept ==
  ASSUME StoredFirst, cache \cup gone \subseteq cache' \cup gone',
         \A i \in Ingest : task'[i] = "stored" => task[i] = "stored" \/ i[2] \in cache',
         hist'.seen \subseteq hist.seen \cup cache', shown' \subseteq shown \cup cache'
  PROVE  StoredFirst'
BY DEF StoredFirst

LEMMA StoredFirstNext ==
  ASSUME LogType, PageType, RelayedOnce, DeletedIsGone, OneIngest, AskedOnce, StoredFirst, [Next]_vars
  PROVE  StoredFirst'
<1> USE DEF server, net, page, stored, ghost
<1>1. cache \cup gone \subseteq cache' \cup gone'
  BY CacheStays
<1>2. CASE PostMessage \/ TakeSend \/ Reconnect \/ Drop \/ WorkerEncrypt
  <2>1. UNCHANGED <<task, hist, shown>>
    BY <1>2 DEF PostMessage, TakeSend, Reconnect, Drop, WorkerEncrypt
  <2>2. QED
    BY <1>1, <2>1, StoredFirstKept
<1>3. ASSUME NEW n \in Seq1, DeleteForAll(n)
      PROVE  StoredFirst'
  <2>1. UNCHANGED <<task, hist, shown>>
    BY <1>3 DEF DeleteForAll
  <2>2. QED
    BY <1>1, <2>1, StoredFirstKept
<1>4. ASSUME NEW d \in Draft, Write(d) \/ WsSend(d)
      PROVE  StoredFirst'
  <2>1. UNCHANGED <<task, hist, shown>>
    BY <1>4 DEF Write, WsSend
  <2>2. QED
    BY <1>1, <2>1, StoredFirstKept
<1>5. CASE OpenTab \/ LoadAgain
  <2>1. UNCHANGED <<task, shown, cache>> /\ hist' = StartHistory
    BY <1>5 DEF OpenTab, LoadAgain
  <2>2. hist'.seen = cache
    BY <2>1, StartType DEF PageType
  <2>3. QED
    BY <1>1, <2>1, <2>2, StoredFirstKept
<1>6. CASE CloseTab
  <2>1. hist'.seen = {} /\ shown' = {} /\ \A i \in Ingest : task'[i] = "none"
    BY <1>6, IdleType DEF CloseTab
  <2>2. QED
    BY <1>1, <2>1, StoredFirstKept
<1>7. CASE WorkerDecrypt
  BY <1>1, <1>7, DecryptMoves, StoredFirstKept
<1>8. CASE OnMessage
  <2>1. UNCHANGED <<hist, shown>>
    BY <1>8, OnMessageBegins
  <2>2. \A i \in Ingest : task'[i] = "stored" => task[i] = "stored"
    BY <1>8, OnMessageBegins DEF Begins, PageType
  <2>3. QED
    BY <1>1, <2>1, <2>2, StoredFirstKept
<1>9. CASE OnDeleted \/ OnDelivered
  <2>1. UNCHANGED <<task, hist>> /\ shown' \subseteq shown \cup cache'
    BY <1>9 DEF OnDeleted, OnDelivered
  <2>2. QED
    BY <1>1, <2>1, StoredFirstKept
<1>10. ASSUME NEW i \in Ingest, StorePlain(i)
       PROVE  StoredFirst'
  <2>1. UNCHANGED <<hist, shown>> /\ i[2] \in cache'
    BY <1>10 DEF StorePlain
  <2>2. \A j \in Ingest : j # i => task'[j] = task[j]
    BY <1>10 DEF StorePlain, PageType
  <2>3. QED
    BY <1>1, <2>1, <2>2, StoredFirstKept
<1>11. ASSUME NEW i \in Ingest, Show(i)
       PROVE  StoredFirst'
  <2>1. UNCHANGED <<hist, cache>> /\ shown' = shown \cup {i[2]} /\ task[i] = "stored"
    BY <1>11 DEF Show
  <2>2. \A j \in Ingest : task'[j] = "stored" => task[j] = "stored"
    BY <1>11 DEF Show, PageType
  <2>3. i[2] \in cache \cup gone
    BY <2>1 DEF StoredFirst
  <2>4. QED
    BY <1>1, <2>1, <2>2, <2>3 DEF StoredFirst
<1>12. ASSUME NEW i \in Ingest, Retry(i)
       PROVE  StoredFirst'
  <2>1. UNCHANGED <<hist, shown>> /\ \A j \in Ingest : task'[j] = "stored" => task[j] = "stored"
    BY <1>12 DEF Retry, PageType
  <2>2. QED
    BY <1>1, <2>1, StoredFirstKept
<1>13. CASE ShowStored
  <2>1. UNCHANGED task /\ shown' = hist.seen /\ hist'.seen = {}
    BY <1>13 DEF ShowStored, PageType, History
  <2>2. QED
    BY <1>1, <2>1 DEF StoredFirst
<1>14. CASE GetList \/ EndHistory
  <2>1. UNCHANGED <<task, shown>>
    BY <1>14 DEF GetList, EndHistory
  <2>2. hist'.seen \subseteq hist.seen
    <3>1. CASE hist' = NoHistory
      BY <3>1, IdleType
    <3>2. CASE hist' = [hist EXCEPT !.at = "loop", !.last = Len(log), !.skip = gone]
      BY <3>2 DEF PageType, History
    <3>3. QED
      BY <1>14, <3>1, <3>2 DEF GetList, EndHistory
  <2>3. QED
    BY <1>1, <2>1, <2>2, StoredFirstKept
<1>15. CASE NextInHistory
  <2>1. UNCHANGED shown /\ hist'.seen = hist.seen
    BY <1>15, NextBegins
  <2>2. \A j \in Ingest : task'[j] = "stored" => task[j] = "stored"
    BY <1>15, NextBegins, Indexes DEF Begins, PageType
  <2>3. QED
    BY <1>1, <2>1, <2>2, StoredFirstKept
<1>16. CASE Ingested
  <2>1. UNCHANGED shown /\ task' = [task EXCEPT ![<<"history", hist.next>>] = "none"]
    BY <1>16 DEF Ingested
  <2>2. \A j \in Ingest : task'[j] = "stored" => task[j] = "stored"
    BY <2>1 DEF PageType
  <2>3. hist'.seen \subseteq hist.seen
    <3>1. CASE hist' = NoHistory
      BY <3>1, IdleType
    <3>2. CASE hist' = [hist EXCEPT !.at = "loop", !.next = hist.next + 1]
      BY <3>2 DEF PageType, History
    <3>3. QED
      BY <1>16, <3>1, <3>2 DEF Ingested
  <2>4. QED
    BY <1>1, <2>1, <2>2, <2>3, StoredFirstKept
<1>17. CASE UNCHANGED vars
  BY <1>17 DEF vars, StoredFirst
<1>18. QED
  BY <1>2, <1>3, <1>4, <1>5, <1>6, <1>7, <1>8, <1>9, <1>10, <1>11, <1>12, <1>13, <1>14, <1>15, <1>16,
     <1>17 DEF Next, Resume

\* Plaintext that waits to be stored goes on waiting, is stored, or the tab is closed over it.
PlainStays ==
  \A i \in Ingest : task[i] = "plain" => task'[i] = "plain" \/ i[2] \in cache' \cup torn'

LEMMA PlainKept ==
  ASSUME LogType, PageType, RelayedOnce, OneIngest, AskedOnce, [Next]_vars
  PROVE  PlainStays
<1>1. CASE UNCHANGED task
  BY <1>1 DEF PlainStays
<1>2. CASE CloseTab
  BY <1>2 DEF CloseTab, PlainStays
<1>3. CASE WorkerDecrypt
  BY <1>3, DecryptMoves DEF PlainStays
<1>4. CASE OnMessage
  BY <1>4, OnMessageBegins DEF Begins, PageType, PlainStays
<1>5. CASE NextInHistory
  BY <1>5, NextBegins DEF Begins, PageType, PlainStays
<1>6. CASE Ingested
  <2>1. task[<<"history", hist.next>>] \in {"ok", "bad"}
        /\ task' = [task EXCEPT ![<<"history", hist.next>>] = "none"]
    BY <1>6 DEF Ingested
  <2>2. QED
    BY <2>1 DEF PageType, PlainStays
<1>7. ASSUME NEW i \in Ingest, StorePlain(i)
      PROVE  PlainStays
  BY <1>7 DEF StorePlain, PageType, PlainStays
<1>8. ASSUME NEW i \in Ingest, Show(i) \/ Retry(i)
      PROVE  PlainStays
  BY <1>8 DEF Show, Retry, PageType, PlainStays
<1>9. QED
  BY <1>1, <1>2, <1>3, <1>4, <1>5, <1>6, <1>7, <1>8, Steps DEF TaskStep

LEMMA SpentGrows ==
  ASSUME PageType, AskedOnce, [Next]_vars
  PROVE  /\ torn \subseteq torn'
         /\ \A n \in spent' : n \in spent \/ \E i \in Ingest : i[2] = n /\ task'[i] = "plain"
<1> USE DEF server, net, page, stored, ghost
<1>1. CASE WorkerDecrypt
  BY <1>1, DecryptMoves
<1>2. CASE PostMessage \/ TakeSend \/ OpenTab \/ LoadAgain \/ Reconnect \/ Drop
  BY <1>2 DEF PostMessage, TakeSend, OpenTab, LoadAgain, Reconnect, Drop
<1>3. CASE CloseTab
  BY <1>3 DEF CloseTab
<1>4. ASSUME NEW n \in Seq1, DeleteForAll(n)
      PROVE  UNCHANGED <<spent, torn>>
  BY <1>4 DEF DeleteForAll
<1>5. ASSUME NEW d \in Draft, Write(d) \/ WsSend(d)
      PROVE  UNCHANGED <<spent, torn>>
  BY <1>5 DEF Write, WsSend
<1>6. CASE WorkerEncrypt \/ OnMessage \/ OnDeleted \/ OnDelivered
  BY <1>6 DEF WorkerEncrypt, OnMessage, OnDeleted, OnDelivered
<1>7. ASSUME NEW i \in Ingest, StorePlain(i) \/ Show(i) \/ Retry(i)
      PROVE  UNCHANGED <<spent, torn>>
  BY <1>7 DEF StorePlain, Show, Retry
<1>8. CASE ShowStored \/ GetList \/ NextInHistory \/ Ingested \/ EndHistory
  BY <1>8 DEF ShowStored, GetList, NextInHistory, Ingested, EndHistory
<1>9. CASE UNCHANGED vars
  BY <1>9 DEF vars
<1>10. QED
  BY <1>1, <1>2, <1>3, <1>4, <1>5, <1>6, <1>7, <1>8, <1>9 DEF Next, Resume

LEMMA SpentIsKeptNext ==
  ASSUME LogType, PageType, RelayedOnce, DeletedIsGone, OneIngest, AskedOnce, SpentIsKept, [Next]_vars
  PROVE  SpentIsKept'
<1> SUFFICES ASSUME NEW n \in spent'
             PROVE  n \in cache' \cup gone' \cup torn' \/ \E i \in Ingest : i[2] = n /\ task'[i] = "plain"
  BY DEF SpentIsKept
<1>1. CASE \E i \in Ingest : i[2] = n /\ task'[i] = "plain"
  BY <1>1
<1>2. CASE n \in spent
  <2>1. CASE n \in cache \cup gone \cup torn
    BY <2>1, CacheStays, SpentGrows
  <2>2. CASE \E i \in Ingest : i[2] = n /\ task[i] = "plain"
    BY <2>2, PlainKept DEF PlainStays
  <2>3. QED
    BY <1>2, <2>1, <2>2 DEF SpentIsKept
<1>3. QED
  BY <1>1, <1>2, SpentGrows

-----------------------------------------------------------------------------
(* The invariant *)

LEMMA IInvInit == Init => IInv
<1> SUFFICES ASSUME Init PROVE IInv
  OBVIOUS
<1>1. /\ log = << >> /\ gone = {} /\ wire = << >> /\ outbox = << >> /\ queue = << >>
      /\ spent = {} /\ cache = {} /\ cursor = 0 /\ shown = {} /\ hist = NoHistory
      /\ task = [i \in Ingest |-> "none"]
  BY DEF Init
<1>2. \A i \in Ingest : task[i] = "none"
  BY <1>1
<1>3. LogType
  BY <1>1, BoundAssumption DEF LogType
<1>4. PageType
  <2>1. task \in [Ingest -> State]
    BY <1>1 DEF State
  <2>2. cursor \in 0 .. MaxLog
    BY <1>1, BoundAssumption
  <2>3. hist \in History /\ hist.at = "idle"
    BY <1>1, IdleType
  <2>4. QED
    BY <1>1, <2>1, <2>2, <2>3 DEF PageType
<1>5. RelayedOnce /\ DeletedIsGone /\ OneIngest /\ AskedOnce
  BY <1>1, <1>2, IdleType, Indexes DEF RelayedOnce, DeletedIsGone, OneIngest, AskedOnce
<1>6. StoredFirst /\ SpentIsKept
  BY <1>1, <1>2, IdleType DEF StoredFirst, SpentIsKept
<1>7. QED
  BY <1>3, <1>4, <1>5, <1>6 DEF IInv

LEMMA IInvNext == IInv /\ [Next]_vars => IInv'
<1> SUFFICES ASSUME IInv, [Next]_vars PROVE IInv'
  OBVIOUS
<1>1. LogType /\ PageType /\ RelayedOnce /\ DeletedIsGone /\ OneIngest /\ AskedOnce /\ StoredFirst /\ SpentIsKept
  BY DEF IInv
<1>2. LogType' /\ PageType'
  BY <1>1, LogTypeNext, PageTypeNext
<1>3. RelayedOnce' /\ DeletedIsGone' /\ OneIngest' /\ AskedOnce'
  BY <1>1, RelayedOnceNext, DeletedIsGoneNext, OneIngestNext, AskedOnceNext
<1>4. StoredFirst' /\ SpentIsKept'
  BY <1>1, StoredFirstNext, SpentIsKeptNext
<1>5. QED
  BY <1>2, <1>3, <1>4 DEF IInv

LEMMA Invariance == Spec => []IInv
BY IInvInit, IInvNext, PTL DEF Spec

\* A message whose MLS key is used up is never lost: its plaintext is stored or about to be,
\* unless the message was deleted or the tab closed at that very moment (worker `decrypt' and
\* chatClient.ts ingest, whatever live frames, histories, retries and restarts interleave).
THEOREM SpentKept == Spec => []SpentIsKept
<1>1. IInv => SpentIsKept
  BY DEF IInv
<1>2. QED
  BY Invariance, <1>1, PTL

\* What the message list shows was stored first, so that a reload shows it again, unless it was
\* deleted for everyone (ingest, finalizeSent and loadHistory of chatClient.ts).
THEOREM ShownStored == Spec => []ShownIsStored
<1>1. IInv => ShownIsStored
  BY DEF IInv, StoredFirst, ShownIsStored
<1>2. QED
  BY Invariance, <1>1, PTL
=============================================================================
