------------------------------ MODULE ChatLog -------------------------------
(***************************************************************************)
(* One conversation on the API server: the chat_messages table, the        *)
(* chat_members roster, and the WebSocket gateway's `send' and `delete'    *)
(* handlers (apps/api/src/chat/gateway.ts, repo.ts).                       *)
(*                                                                         *)
(* The gateway starts an async function for every frame and never waits    *)
(* for the previous one, so the handlers of one socket and of different    *)
(* sockets interleave at every await.  Each handler invocation is a        *)
(* request with a program counter; a transition of the counter is what the *)
(* handler does between two awaits.                                        *)
(*                                                                         *)
(* Bounds: the requests are the members of SendReq and DelReq, each        *)
(* handled once.  A socket opens once; a reconnect is another socket.      *)
(***************************************************************************)
EXTENDS Naturals, Sequences, FiniteSets

CONSTANTS
  User,      \* users who may be on the roster
  Owner,     \* the creator, who cannot leave
  Socket,    \* WebSocket connections
  UserOf,    \* the user each socket authenticated as
  NoSocket,  \* the `socket' of a request that has not been sent
  SendReq,   \* `send' frames (each stands for its clientId and ciphertext)
  DelReq     \* `delete' frames

ASSUME OwnerAssumption == Owner \in User
ASSUME UserOfAssumption == UserOf \in [Socket -> User]
ASSUME ReqAssumption == SendReq \cap DelReq = {} /\ NoSocket \notin Socket

Req == SendReq \cup DelReq

VARIABLES
  members,   \* chat_members of the conversation
  log,       \* chat_messages: seq -> row
  pc,        \* where the handler of each request is
  ws,        \* the socket the request arrived on
  seq,       \* `send': the seq it read, then took; `delete': the seq it names
  roster,    \* what the handler's memberIds() call returned
  up,        \* sockets in the registry whose readyState is OPEN
  inbox,     \* the frames written to each socket, in order
  witness    \* history: users on the roster at some moment since the row exists

vars == <<members, log, pc, ws, seq, roster, up, inbox, witness>>

Row == [sender : User, item : SendReq, deleted : BOOLEAN]

\* `item' is the request a frame is about: the send whose row a `message' or a
\* `delivered' carries, the request an `error' or a `deleted' answers.
Frame == [t : {"message", "delivered", "deleted", "error"}, seq : Nat, item : Req]

\* Suspended handlers: the await each one is at.
Running == {"isMember", "maxSeq", "insert", "update", "roster", "fanout"}

\* coalesce(max(seq), 0)
MaxSeq(S) == CHOOSE n \in S \cup {0} : \A m \in S : m <= n
LastSeq == MaxSeq(DOMAIN log)

SocketsOf(U) == {s \in Socket : UserOf[s] \in U}

\* The inboxes once f has been written to those sockets of S that are open.
Put(S, f) ==
  [s \in Socket |-> IF s \in S \cap up THEN Append(inbox[s], f) ELSE inbox[s]]

ErrorFrame(r) == [t |-> "error", seq |-> 0, item |-> r]

\* The messages the user of socket s can refer to: the ones a client of theirs
\* was sent, or was told had been delivered.
KnownTo(s) ==
  {n \in DOMAIN log : \E q \in SocketsOf({UserOf[s]}) : \E i \in DOMAIN inbox[q] :
     inbox[q][i].seq = n /\ inbox[q][i].t \in {"message", "delivered"}}

Init ==
  /\ members = User
  /\ log = << >>
  /\ pc = [r \in Req |-> "unsent"]
  /\ ws = [r \in Req |-> NoSocket]
  /\ seq = [r \in Req |-> 0]
  /\ roster = [r \in Req |-> {}]
  /\ up = Socket
  /\ inbox = [s \in Socket |-> << >>]
  /\ witness = << >>

-----------------------------------------------------------------------------
(* The handlers *)

\* The client writes a frame to its open socket and the gateway starts a handler.
Receive(r, s) ==
  /\ pc[r] = "unsent" /\ s \in up
  /\ pc' = [pc EXCEPT ![r] = "isMember"]
  /\ ws' = [ws EXCEPT ![r] = s]
  /\ \/ r \in SendReq /\ UNCHANGED seq
     \/ r \in DelReq /\ \E n \in KnownTo(s) : seq' = [seq EXCEPT ![r] = n]
  /\ UNCHANGED <<members, log, roster, up, inbox, witness>>

\* The handler stops with an error frame to the socket the request came from.
Refuse(r) ==
  /\ pc' = [pc EXCEPT ![r] = "refused"]
  /\ inbox' = Put({ws[r]}, ErrorFrame(r))
  /\ UNCHANGED <<members, log, ws, seq, roster, up, witness>>

CheckMember(r) ==
  /\ pc[r] = "isMember"
  /\ IF UserOf[ws[r]] \in members
       THEN /\ pc' = [pc EXCEPT ![r] = IF r \in SendReq THEN "maxSeq" ELSE "update"]
            /\ UNCHANGED <<members, log, ws, seq, roster, up, inbox, witness>>
       ELSE Refuse(r)

\* Mutant of ReadMax: the row count is not incremented.
ReadMaxSame(r) ==
  /\ pc[r] = "maxSeq"
  /\ seq' = [seq EXCEPT ![r] = LastSeq]
  /\ pc' = [pc EXCEPT ![r] = "insert"]
  /\ UNCHANGED <<members, log, ws, roster, up, inbox, witness>>

\* appendMessage, first statement of the transaction.
ReadMax(r) ==
  /\ pc[r] = "maxSeq"
  /\ seq' = [seq EXCEPT ![r] = LastSeq + 1]
  /\ pc' = [pc EXCEPT ![r] = "insert"]
  /\ UNCHANGED <<members, log, ws, roster, up, inbox, witness>>

\* The row of r is written under the seq it read, over whatever was there.
Store(r) ==
  /\ log' = [n \in DOMAIN log \cup {seq[r]} |->
              IF n = seq[r]
                THEN [sender |-> UserOf[ws[r]], item |-> r, deleted |-> FALSE]
                ELSE log[n]]
  /\ witness' = [n \in DOMAIN log \cup {seq[r]} |->
                  IF n = seq[r] THEN members ELSE witness[n]]
  /\ pc' = [pc EXCEPT ![r] = "roster"]
  /\ UNCHANGED <<members, ws, seq, roster, up>>

\* Mutant of Insert: no unique constraint on (conversation_id, seq).
InsertUnconstrained(r) == pc[r] = "insert" /\ Store(r) /\ UNCHANGED inbox

\* Mutant of Insert: the sender is told `delivered' before the relay.
InsertAcknowledges(r) ==
  /\ pc[r] = "insert"
  /\ IF seq[r] \in DOMAIN log
       THEN Refuse(r)
       ELSE Store(r) /\ inbox' = Put({ws[r]}, [t |-> "delivered", seq |-> seq[r], item |-> r])

\* appendMessage, second statement: unique (conversation_id, seq) refuses a seq
\* that another transaction has taken since.
Insert(r) ==
  /\ pc[r] = "insert"
  /\ IF seq[r] \in DOMAIN log
       THEN Refuse(r)
       ELSE Store(r) /\ UNCHANGED inbox

\* Mutant of BlankRow: the row is deleted instead of blanked.
BlankRowDrops(r) ==
  /\ pc[r] = "update" /\ seq[r] \in DOMAIN log
  /\ log' = [n \in DOMAIN log \ {seq[r]} |-> log[n]]
  /\ witness' = [n \in DOMAIN log \ {seq[r]} |-> witness[n]]
  /\ pc' = [pc EXCEPT ![r] = "roster"]
  /\ UNCHANGED <<members, ws, seq, roster, up, inbox>>

\* Mutant of BlankRow: the WHERE does not name the sender.
BlankRowOfAnyone(r) ==
  /\ pc[r] = "update" /\ seq[r] \in DOMAIN log
  /\ log' = [log EXCEPT ![seq[r]].deleted = TRUE]
  /\ pc' = [pc EXCEPT ![r] = "roster"]
  /\ UNCHANGED <<members, ws, seq, roster, up, inbox, witness>>

\* Mutant of BlankRow: the handler does not look at how many rows were updated.
BlankRowUnchecked(r) ==
  /\ pc[r] = "update"
  /\ log' = IF log[seq[r]].sender = UserOf[ws[r]]
              THEN [log EXCEPT ![seq[r]].deleted = TRUE] ELSE log
  /\ pc' = [pc EXCEPT ![r] = "roster"]
  /\ UNCHANGED <<members, ws, seq, roster, up, inbox, witness>>

\* deleteMessage: one UPDATE whose WHERE names the sender and deleted_at IS NULL.
BlankRow(r) ==
  /\ pc[r] = "update"
  /\ IF /\ seq[r] \in DOMAIN log
        /\ log[seq[r]].sender = UserOf[ws[r]]
        /\ ~ log[seq[r]].deleted
       THEN /\ log' = [log EXCEPT ![seq[r]].deleted = TRUE]
            /\ pc' = [pc EXCEPT ![r] = "roster"]
            /\ UNCHANGED <<members, ws, seq, roster, up, inbox, witness>>
       ELSE Refuse(r)

\* memberIds: the snapshot the loop that follows iterates over.
ReadRoster(r) ==
  /\ pc[r] = "roster"
  /\ roster' = [roster EXCEPT ![r] = members]
  /\ pc' = [pc EXCEPT ![r] = "fanout"]
  /\ UNCHANGED <<members, log, ws, seq, up, inbox, witness>>

\* Mutant of Relay: the message goes to every socket the server knows.
RelayToAll(r) ==
  /\ pc[r] = "fanout" /\ r \in SendReq
  /\ inbox' = Put(Socket, [t |-> "message", seq |-> seq[r], item |-> r])
  /\ pc' = [pc EXCEPT ![r] = "done"]
  /\ UNCHANGED <<members, log, ws, seq, roster, up, witness>>

\* Mutant of Relay: only members are told `delivered'.
RelayAcksMembers(r) ==
  /\ pc[r] = "fanout" /\ r \in SendReq
  /\ inbox' = [s \in Socket |->
       IF s = ws[r]
         THEN Put(SocketsOf(roster[r]), [t |-> "delivered", seq |-> seq[r], item |-> r])[s]
         ELSE Put(SocketsOf(roster[r]), [t |-> "message", seq |-> seq[r], item |-> r])[s]]
  /\ pc' = [pc EXCEPT ![r] = "done"]
  /\ UNCHANGED <<members, log, ws, seq, roster, up, witness>>

\* `message' to every member's sockets but the sender's, then `delivered' to that one.
Relay(r) ==
  /\ pc[r] = "fanout" /\ r \in SendReq
  /\ inbox' = [s \in Socket |->
       IF s = ws[r]
         THEN Put({s}, [t |-> "delivered", seq |-> seq[r], item |-> r])[s]
         ELSE Put(SocketsOf(roster[r]), [t |-> "message", seq |-> seq[r], item |-> r])[s]]
  /\ pc' = [pc EXCEPT ![r] = "done"]
  /\ UNCHANGED <<members, log, ws, seq, roster, up, witness>>

\* `deleted' to every member's sockets.
RelayDeleted(r) ==
  /\ pc[r] = "fanout" /\ r \in DelReq
  /\ inbox' = Put(SocketsOf(roster[r]), [t |-> "deleted", seq |-> seq[r], item |-> r])
  /\ pc' = [pc EXCEPT ![r] = "done"]
  /\ UNCHANGED <<members, log, ws, seq, roster, up, witness>>

\* A frame over the rate limit or malformed, or a database call that throws: every
\* await of the handler but the last is inside its try.  A row already stored stays.
Fail(r) == pc[r] \in Running \ {"fanout"} /\ Refuse(r)

-----------------------------------------------------------------------------
(* The rest of the server *)

\* POST /conversations/:id/members, by the owner.
AddMember(u) ==
  /\ u \notin members
  /\ members' = members \cup {u}
  /\ witness' = [n \in DOMAIN witness |-> witness[n] \cup {u}]
  /\ UNCHANGED <<log, pc, ws, seq, roster, up, inbox>>

\* DELETE /conversations/:id/members/:userId, by the owner or by u, never the owner's own.
RemoveMember(u) ==
  /\ u \in members \ {Owner}
  /\ members' = members \ {u}
  /\ UNCHANGED <<log, pc, ws, seq, roster, up, inbox, witness>>

\* A socket leaves OPEN: the client goes, the heartbeat or the connection cap ends it.
Close(s) ==
  /\ s \in up
  /\ up' = up \ {s}
  /\ UNCHANGED <<members, log, pc, ws, seq, roster, inbox, witness>>

\* The process restarts: sockets and handlers are gone, the tables are not.
Restart ==
  /\ up # {} \/ \E r \in Req : pc[r] \in Running
  /\ up' = {}
  /\ pc' = [r \in Req |-> IF pc[r] \in Running THEN "lost" ELSE pc[r]]
  /\ UNCHANGED <<members, log, ws, seq, roster, inbox, witness>>

Step(r) ==
  \/ CheckMember(r) \/ ReadMax(r) \/ Insert(r) \/ BlankRow(r)
  \/ ReadRoster(r) \/ Relay(r) \/ RelayDeleted(r)

Next ==
  \/ \E r \in Req : Step(r) \/ Fail(r) \/ \E s \in Socket : Receive(r, s)
  \/ \E u \in User : AddMember(u) \/ RemoveMember(u)
  \/ \E s \in Socket : Close(s)
  \/ Restart

Spec == Init /\ [][Next]_vars

\* Node resumes a suspended handler once the query it awaits is answered.
FairSpec == Spec /\ \A r \in Req : WF_vars(Step(r))

-----------------------------------------------------------------------------
(* Properties *)

TypeOK ==
  /\ members \subseteq User
  /\ DOMAIN log \subseteq Nat \ {0} /\ LastSeq \in Nat
  /\ log = [n \in DOMAIN log |-> log[n]]
  /\ \A n \in DOMAIN log : log[n] \in Row
  /\ pc \in [Req -> Running \cup {"unsent", "refused", "done", "lost"}]
  /\ ws \in [Req -> Socket \cup {NoSocket}]
  /\ seq \in [Req -> Nat]
  /\ roster \in [Req -> SUBSET User]
  /\ up \subseteq Socket
  /\ inbox \in [Socket -> Seq(Frame)]
  /\ witness = [n \in DOMAIN log |-> witness[n]]
  /\ \A n \in DOMAIN log : witness[n] \in SUBSET User

\* The seqs of a conversation are 1, 2, ... with no hole, although the next one is
\* computed by a read that another transaction may overtake, and although messages
\* are deleted: deleting keeps the row so that replies can still name it.
SeqsContiguous == DOMAIN log = 1 .. LastSeq

\* Whatever a socket is told about a seq is what the table holds for it: the same
\* message for every socket, and none before it is durable.
FramesMatchLog ==
  \A s \in Socket : \A i \in DOMAIN inbox[s] :
    inbox[s][i].t \in {"message", "delivered"} =>
      /\ inbox[s][i].seq \in DOMAIN log
      /\ log[inbox[s][i].seq].item = inbox[s][i].item

\* A message reaches only users who were on the roster at some moment since it was
\* stored: somebody removed before it was sent, and not added back, never gets it.
RelayOnlyToWitnesses ==
  \A s \in Socket : \A i \in DOMAIN inbox[s] :
    inbox[s][i].t = "message" => UserOf[s] \in witness[inbox[s][i].seq]

\* No socket is sent a message after the notice that it was deleted: the client would
\* show again, and cache again, what it has just purged.
MessageBeforeDeleted ==
  \A s \in Socket : \A i, j \in DOMAIN inbox[s] :
    (inbox[s][i].t = "deleted" /\ inbox[s][j].t = "message"
       /\ inbox[s][i].seq = inbox[s][j].seq)
    => j < i

\* A message is blank only because its author asked: no other member's `delete'
\* blanks it, whatever they race with.
DeletedByAuthor ==
  \A n \in DOMAIN log : log[n].deleted =>
    \E r \in DelReq : seq[r] = n /\ ws[r] \in SocketsOf({log[n].sender})

\* The `deleted' notice goes out only for a message whose body is gone from the table.
DeletedNoticeIsTrue ==
  \A s \in Socket : \A i \in DOMAIN inbox[s] :
    inbox[s][i].t = "deleted" => log[inbox[s][i].seq].deleted

\* A send whose socket stays open is answered, by `delivered' or by `error', even when
\* its user leaves the roster meanwhile.
Answered(r) ==
  \E i \in DOMAIN inbox[ws[r]] :
    inbox[ws[r]][i].item = r /\ inbox[ws[r]][i].t \in {"delivered", "error"}
EverySendAnswered ==
  \A r \in SendReq : (pc[r] = "isMember") ~> (ws[r] \notin up \/ Answered(r))

\* The conversation as its readers see it (module OrderedLog).
MessagesShown(s) == {inbox[s][i].seq : i \in {j \in DOMAIN inbox[s] : inbox[s][j].t = "message"}}

Ordered == INSTANCE OrderedLog WITH
  Author <- User, Item <- SendReq, Reader <- Socket,
  entries <- log, shown <- [s \in Socket |-> MessagesShown(s)]

OrderedSpec == Ordered!Spec

=============================================================================
