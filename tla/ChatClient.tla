----------------------------- MODULE ChatClient -----------------------------
(***************************************************************************)
(* One device of one chat user and one conversation: the web client that   *)
(* receives live frames, loads the history, decrypts in its worker, and    *)
(* keeps the plaintext, the cursor and the MLS state in IndexedDB          *)
(* (apps/web/src/lib/chatClient.ts, chatDb.ts, worker/chat.worker.ts).     *)
(*                                                                         *)
(* Every frame and every loadHistory run is an async function; a           *)
(* transition is what one of them does between two awaits.  IndexedDB runs *)
(* the requests on one store in the order they were made, so a request has *)
(* its effect where it is made and its answer where it is awaited.  The    *)
(* server keeps what ChatLog shows: a message has one seq for ever, frames *)
(* of different messages may come in any order, and `deleted' comes after  *)
(* the message it is about.                                                *)
(*                                                                         *)
(* The device is a member of the MLS group already, and the group has no   *)
(* commits under way (a DM never has): MLS decrypts each message once, as  *)
(* it forgets the key, in any order.                                       *)
(*                                                                         *)
(* Bounds: MaxLog messages, the texts of Draft sent once each, MaxLoads    *)
(* runs of loadHistory, MaxDrops connections lost or tabs closed.          *)
(***************************************************************************)
EXTENDS Naturals, FiniteSets, SequencesExt

CONSTANTS
  Draft,      \* the messages this device writes
  From,       \* who else writes: "peer", and "me" for another device of this user
  MaxLog,
  MaxLoads,
  MaxDrops

ASSUME BoundAssumption == MaxLog \in Nat /\ MaxLoads \in Nat /\ MaxDrops \in Nat
ASSUME FromAssumption == From \subseteq {"peer", "me"}

VARIABLES
  log,      \* the server's messages: who sent each ("peer", or "me" from any device)
  gone,     \* the seqs deleted for everyone
  wire,     \* frames on their way to this device
  outbox,   \* `send' frames on their way to the server
  open,     \* the WebSocket is open
  tab,      \* the page is loaded
  spent,    \* IndexedDB, the group state: the messages whose key is used and forgotten
  cache,    \* IndexedDB: the seqs whose plaintext is stored
  cursor,   \* IndexedDB: the last processed seq
  queue,    \* requests posted to the worker, the first one being handled
  task,     \* the invocations of ingest
  hist,     \* the run of loadHistory
  shown,    \* the seqs in the message list
  blank,    \* the ones among them marked deleted
  pending,  \* the messages of this device listed without a seq
  draft,    \* what became of each of them
  purged,   \* history: the seqs whose `deleted' frame was handled by this page
  torn,     \* history: the seqs whose decryption a closed tab cut off
  loads, drops

server == <<log, gone>>
net == <<wire, outbox, open>>
stored == <<spent, cache, cursor>>
page == <<tab, shown, blank, pending, draft>>
ghost == <<purged, torn>>
vars == <<server, net, stored, queue, page, task, hist, ghost, loads, drops>>

\* Where an ingest ends: only a run of loadHistory looks at what became of it.
End(i, result) == IF i[1] = "history" THEN result ELSE "none"

Seq1 == 1 .. MaxLog
Origin == {"live", "history"}
Ingest == Origin \X Seq1

ASSUME DraftAssumption == Draft \cap (Seq1 \cup Ingest) = {}

NoHistory == [at |-> "idle", seen |-> {}, next |-> 0, last |-> 0, skip |-> {}]
StartHistory == [NoHistory EXCEPT !.at = "stored", !.seen = cache]

Init ==
  /\ log = << >> /\ gone = {}
  /\ wire = << >> /\ outbox = << >> /\ open = FALSE
  /\ spent = {} /\ cache = {} /\ cursor = 0
  /\ queue = << >>
  /\ task = [i \in Ingest |-> "none"]
  /\ hist = NoHistory
  /\ tab = FALSE /\ shown = {} /\ blank = {}
  /\ pending = {} /\ draft = [d \in Draft |-> "new"]
  /\ purged = {} /\ torn = {}
  /\ loads = 0 /\ drops = 0

-----------------------------------------------------------------------------
(* The server, as ChatLog has it *)

Push(f) == wire' = IF open THEN Append(wire, f) ELSE wire

\* The peer, or another device of this user, sends a message.  Its handler may relay it
\* before or after the ones that other handlers relay.
PostMessage ==
  /\ Len(log) < MaxLog
  /\ \E from \in From : log' = Append(log, from)
  /\ IF open
       THEN \E k \in 1 .. Len(wire) + 1 :
              wire' = InsertAt(wire, k, [t |-> "message", seq |-> Len(log) + 1])
       ELSE UNCHANGED wire
  /\ UNCHANGED <<gone, outbox, open, stored, queue, page, task, hist, ghost, loads, drops>>

\* This device's `send' is stored and answered.
TakeSend ==
  /\ outbox # << >> /\ Len(log) < MaxLog
  /\ log' = Append(log, "me")
  /\ outbox' = Tail(outbox)
  /\ Push([t |-> "delivered", seq |-> Len(log) + 1, id |-> Head(outbox)])
  /\ UNCHANGED <<gone, open, stored, queue, page, task, hist, ghost, loads, drops>>

\* The author deletes message n for everyone.
DeleteForAll(n) ==
  /\ n \in DOMAIN log \ gone
  /\ gone' = gone \cup {n}
  /\ Push([t |-> "deleted", seq |-> n])
  /\ UNCHANGED <<log, outbox, open, stored, queue, page, task, hist, ghost, loads, drops>>

-----------------------------------------------------------------------------
(* The page and its connection *)

\* start(): connectWs, then loadHistory.
OpenTab ==
  /\ ~ tab /\ loads < MaxLoads
  /\ tab' = TRUE /\ loads' = loads + 1
  /\ hist' = StartHistory
  /\ UNCHANGED <<server, net, stored, queue, shown, blank, pending, draft, task, ghost, drops>>

\* newChat() on this conversation loads its history again.
LoadAgain ==
  /\ tab /\ hist.at = "idle" /\ loads < MaxLoads
  /\ loads' = loads + 1
  /\ hist' = StartHistory
  /\ UNCHANGED <<server, net, stored, queue, page, task, ghost, drops>>

\* onopen, at first or 2 s after a close: nothing is loaded again.
Reconnect ==
  /\ tab /\ ~ open
  /\ open' = TRUE
  /\ UNCHANGED <<server, wire, outbox, stored, queue, page, task, hist, ghost, loads, drops>>

\* The connection is lost, with the frames on it.
Drop ==
  /\ open /\ drops < MaxDrops
  /\ drops' = drops + 1
  /\ open' = FALSE /\ wire' = << >> /\ outbox' = << >>
  /\ UNCHANGED <<server, stored, queue, page, task, hist, ghost, loads>>

\* The tab is closed: everything but IndexedDB is gone.
CloseTab ==
  /\ tab /\ drops < MaxDrops
  /\ drops' = drops + 1
  /\ tab' = FALSE /\ open' = FALSE /\ wire' = << >> /\ outbox' = << >>
  /\ queue' = << >>
  /\ task' = [i \in Ingest |-> "none"]
  /\ hist' = NoHistory
  /\ shown' = {} /\ blank' = {} /\ pending' = {}
  /\ draft' = [d \in Draft |-> IF draft[d] = "new" THEN "new" ELSE "lost"]
  /\ torn' = torn \cup {i[2] : i \in {j \in Ingest : task[j] = "plain"}}
  /\ purged' = {}
  /\ UNCHANGED <<server, stored, loads>>

-----------------------------------------------------------------------------
(* The worker: getGroup, the operation, putGroup and the answer of the first request *)

Post(r) == queue' = Append(queue, r)

\* `decrypt' fails once the key is spent.
WorkerDecrypt ==
  /\ queue # << >> /\ Head(queue) \in Ingest
  /\ LET i == Head(queue) IN
       IF i[2] \in spent
         THEN /\ task' = [task EXCEPT ![i] = IF @ = "decrypt" THEN "failed" ELSE End(i, "bad")]
              /\ UNCHANGED spent
         ELSE /\ task' = [task EXCEPT ![i] = "plain"]
              /\ spent' = spent \cup {i[2]}
  /\ queue' = Tail(queue)
  /\ UNCHANGED <<server, net, cache, cursor, page, hist, ghost, loads, drops>>

WorkerEncrypt ==
  /\ queue # << >> /\ Head(queue) \in Draft
  /\ draft' = [draft EXCEPT ![Head(queue)] = "ready"]
  /\ queue' = Tail(queue)
  /\ UNCHANGED <<server, net, stored, tab, shown, blank, pending, task, hist, ghost, loads, drops>>

-----------------------------------------------------------------------------
(* Receiving: handleFrame and ingest *)

NextFrame(t) == wire # << >> /\ Head(wire).t = t /\ wire' = Tail(wire)

\* `message': ingest starts; a message of this user only moves the cursor.
OnMessage ==
  /\ tab /\ NextFrame("message")
  /\ LET n == Head(wire).seq IN
       IF log[n] = "me"
         THEN cursor' = n /\ UNCHANGED <<task, queue>>
         ELSE /\ task' = [task EXCEPT ![<<"live", n>>] = "decrypt"]
              /\ Post(<<"live", n>>)
              /\ UNCHANGED cursor
  /\ UNCHANGED <<server, outbox, open, spent, cache, page, hist, ghost, loads, drops>>

\* `deleted': the stored plaintext goes, and the message is blanked if it is listed.
OnDeleted ==
  /\ tab /\ NextFrame("deleted")
  /\ LET n == Head(wire).seq IN
       /\ cache' = cache \ {n}
       /\ blank' = blank \cup (shown \cap {n})
       /\ purged' = purged \cup {n}
  /\ UNCHANGED <<server, outbox, open, spent, cursor, queue, tab, shown, pending, draft, task, hist, torn, loads, drops>>

\* Mutant of StorePlain: the message is listed and the cursor moved, without being stored.
StorePlainNot(i) ==
  /\ task[i] = "plain"
  /\ task' = [task EXCEPT ![i] = "stored"]
  /\ UNCHANGED <<server, net, stored, queue, page, hist, ghost, loads, drops>>

\* The worker has answered with plaintext: putMessage.
StorePlain(i) ==
  /\ task[i] = "plain"
  /\ task' = [task EXCEPT ![i] = "stored"]
  /\ cache' = cache \cup {i[2]}
  /\ UNCHANGED <<server, net, spent, cursor, queue, page, hist, ghost, loads, drops>>

\* putMessage has answered: list the message, once, and set the cursor to it.
Show(i) ==
  /\ task[i] = "stored"
  /\ task' = [task EXCEPT ![i] = End(i, "ok")]
  /\ shown' = shown \cup {i[2]}
  /\ cursor' = i[2]
  /\ UNCHANGED <<server, net, spent, cache, queue, tab, blank, pending, draft, hist, ghost, loads, drops>>

\* Decryption failed: look for welcomes, then try once more.
Retry(i) ==
  /\ task[i] = "failed"
  /\ task' = [task EXCEPT ![i] = "again"]
  /\ Post(i)
  /\ UNCHANGED <<server, net, stored, page, hist, ghost, loads, drops>>

-----------------------------------------------------------------------------
(* loadHistory *)

\* getMessages and getCursor have answered: the list is replaced by what was stored.
ShowStored ==
  /\ hist.at = "stored"
  /\ shown' = hist.seen /\ blank' = {} /\ pending' = {}
  /\ hist' = [hist EXCEPT !.at = "list", !.seen = {}, !.next = cursor + 1]
  /\ UNCHANGED <<server, net, stored, queue, tab, draft, task, ghost, loads, drops>>

\* listMessages has answered, or failed.
GetList ==
  /\ hist.at = "list"
  /\ \/ hist' = NoHistory
     \/ hist' = [hist EXCEPT !.at = "loop", !.last = Len(log), !.skip = gone]
  /\ UNCHANGED <<server, net, stored, queue, page, task, ghost, loads, drops>>

\* The next message, in order: one of this user or a deleted one only moves the cursor.
NextInHistory ==
  /\ hist.at = "loop" /\ hist.next <= hist.last
  /\ LET n == hist.next i == <<"history", n>> IN
       IF log[n] = "me" \/ n \in hist.skip
         THEN /\ cursor' = n
              /\ hist' = [hist EXCEPT !.next = n + 1]
              /\ UNCHANGED <<task, queue>>
         ELSE /\ task' = [task EXCEPT ![i] = "decrypt"]
              /\ Post(i)
              /\ hist' = [hist EXCEPT !.at = "ingest"]
              /\ UNCHANGED cursor
  /\ UNCHANGED <<server, net, spent, cache, page, ghost, loads, drops>>

\* ingest has answered: a gap stops the run.
Ingested ==
  /\ hist.at = "ingest"
  /\ LET n == hist.next i == <<"history", n>> IN
       /\ task[i] \in {"ok", "bad"}
       /\ task' = [task EXCEPT ![i] = "none"]
       /\ hist' = IF task[i] = "ok" THEN [hist EXCEPT !.at = "loop", !.next = n + 1] ELSE NoHistory
  /\ UNCHANGED <<server, net, stored, queue, page, ghost, loads, drops>>

EndHistory ==
  /\ hist.at = "loop" /\ hist.next > hist.last
  /\ hist' = NoHistory
  /\ UNCHANGED <<server, net, stored, queue, page, task, ghost, loads, drops>>

-----------------------------------------------------------------------------
(* Sending *)

\* sendMessage: the message is listed as pending and posted to the worker.
Write(d) ==
  /\ tab /\ draft[d] = "new"
  /\ draft' = [draft EXCEPT ![d] = "encrypt"]
  /\ pending' = pending \cup {d}
  /\ Post(d)
  /\ UNCHANGED <<server, net, stored, tab, shown, blank, task, hist, ghost, loads, drops>>

\* wsSend drops the frame unless the socket is open.
WsSend(d) ==
  /\ draft[d] = "ready"
  /\ draft' = [draft EXCEPT ![d] = IF open THEN "sent" ELSE "lost"]
  /\ outbox' = IF open THEN Append(outbox, d) ELSE outbox
  /\ UNCHANGED <<server, wire, open, stored, queue, tab, shown, blank, pending, task, hist, ghost, loads, drops>>

\* Mutant of OnDelivered: the message gets its seq in the list only.
OnDeliveredNotStored ==
  /\ tab /\ NextFrame("delivered")
  /\ LET n == Head(wire).seq d == Head(wire).id IN
       IF d \in pending
         THEN pending' = pending \ {d} /\ shown' = shown \cup {n}
         ELSE UNCHANGED <<pending, shown>>
  /\ UNCHANGED <<server, outbox, open, stored, queue, tab, blank, draft, task, hist, ghost, loads, drops>>

\* `delivered': finalizeSent gives the pending message, if still listed, its seq and stores it.
OnDelivered ==
  /\ tab /\ NextFrame("delivered")
  /\ LET n == Head(wire).seq d == Head(wire).id IN
       IF d \in pending
         THEN /\ pending' = pending \ {d}
              /\ shown' = shown \cup {n} /\ cache' = cache \cup {n}
         ELSE UNCHANGED <<pending, shown, cache>>
  /\ UNCHANGED <<server, outbox, open, spent, cursor, queue, tab, blank, draft, task, hist, ghost, loads, drops>>

-----------------------------------------------------------------------------

\* What the page and its worker do without being asked.
Resume ==
  \/ WorkerDecrypt \/ WorkerEncrypt
  \/ OnMessage \/ OnDeleted \/ OnDelivered
  \/ \E i \in Ingest : StorePlain(i) \/ Show(i) \/ Retry(i)
  \/ ShowStored \/ GetList \/ NextInHistory \/ Ingested \/ EndHistory
  \/ \E d \in Draft : WsSend(d)

Next ==
  \/ PostMessage
  \/ \E n \in Seq1 : DeleteForAll(n)
  \/ TakeSend
  \/ OpenTab \/ LoadAgain \/ Reconnect \/ Drop \/ CloseTab
  \/ \E d \in Draft : Write(d)
  \/ Resume

Spec == Init /\ [][Next]_vars

-----------------------------------------------------------------------------
(* Properties *)

\* MLS forgets the key of a message it has decrypted, so the plaintext is never out of
\* hand: it is stored, on its way to be, or the message was deleted -- unless the tab was
\* closed at that very moment.
SpentIsKept ==
  \A n \in spent :
    n \in cache \cup gone \cup torn \/ \E i \in Ingest : i[2] = n /\ task[i] = "plain"

\* What is listed survives a reload: it is stored too, unless it was deleted.
ShownIsStored == shown \ blank \subseteq cache \cup gone

\* "A deleted message must never be written back to the cache we just purged"
\* (chatClient.ts:400).
PurgedStaysPurged == purged \cap cache = {}

\* The cursor is the "highest server `seq' already processed" (chatDb.ts).
CursorIsHighest ==
  (\A i \in Ingest : task[i] \in {"none", "ok", "bad"}) =>
    \A n \in cache : log[n] = "peer" => n <= cursor

=============================================================================
