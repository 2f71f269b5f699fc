--------------------------- MODULE ChatLogProofs ----------------------------
(***************************************************************************)
(* Proofs about ChatLog for every set of users, sockets and requests.      *)
(*                                                                         *)
(* IInv strengthens the invariants TLC checks with what a suspended        *)
(* handler remembers: which statement comes next, the seq it has read or   *)
(* taken, the roster it has fetched.                                       *)
(***************************************************************************)
EXTENDS ChatLog, TLAPS

\* What the local variables of the handler of r say about the tables.
SendMemory(r) ==
  /\ pc[r] \in {"maxSeq", "insert"} => r \in SendReq
  /\ pc[r] = "insert" => seq[r] \in 1 .. LastSeq + 1
  /\ r \in SendReq /\ pc[r] \in {"roster", "fanout"} =>
       seq[r] \in DOMAIN log /\ log[seq[r]].item = r
  /\ r \in SendReq /\ pc[r] = "fanout" => roster[r] \subseteq witness[seq[r]]

DeleteMemory(r) ==
  /\ pc[r] = "update" => r \in DelReq
  /\ r \in DelReq /\ pc[r] \in {"roster", "fanout"} =>
       /\ seq[r] \in DOMAIN log
       /\ log[seq[r]].deleted
       /\ ws[r] \in SocketsOf({log[seq[r]].sender})

Memory ==
  \A r \in Req :
    /\ pc[r] # "unsent" => ws[r] \in Socket
    /\ SendMemory(r)
    /\ DeleteMemory(r)

\* Whoever is on the roster now has been on it since every row exists.
MembersWitness == \A n \in DOMAIN log : members \subseteq witness[n]

IInv ==
  /\ TypeOK
  /\ SeqsContiguous
  /\ Memory
  /\ MembersWitness
  /\ FramesMatchLog
  /\ RelayOnlyToWitnesses

-----------------------------------------------------------------------------
(* Lemmas about the operators *)

\* The largest of 1 .. n is n: the seq appendMessage computes when there is no hole.
LEMMA MaxOfInterval ==
  ASSUME NEW n \in Nat
  PROVE  MaxSeq(1 .. n) = n
<1>1. n \in (1 .. n) \cup {0} /\ \A m \in 1 .. n : m <= n
  OBVIOUS
<1>2. \A k \in (1 .. n) \cup {0} : (\A m \in 1 .. n : m <= k) => k = n
  OBVIOUS
<1>. QED
  BY <1>1, <1>2 DEF MaxSeq


\* Writing a frame keeps the inboxes sequences of frames.
LEMMA PutType ==
  ASSUME TypeOK, NEW S, NEW f \in Frame
  PROVE  Put(S, f) \in [Socket -> Seq(Frame)]
  BY DEF TypeOK, Put

\* What an inbox holds after a write: what it held, or the frame written, which is
\* then in an inbox of S.
LEMMA PutFrames ==
  ASSUME TypeOK, NEW S, NEW f \in Frame, NEW s \in Socket, NEW i \in DOMAIN Put(S, f)[s]
  PROVE  \/ i \in DOMAIN inbox[s] /\ Put(S, f)[s][i] = inbox[s][i]
         \/ s \in S /\ s \in up /\ Put(S, f)[s][i] = f
<1>1. inbox[s] \in Seq(Frame)
  BY DEF TypeOK
<1>2. CASE s \in S \cap up
  <2>1. Put(S, f)[s] = Append(inbox[s], f)
    BY <1>2 DEF Put
  <2>. QED
    BY <1>1, <1>2, <2>1
<1>3. CASE s \notin S \cap up
  BY <1>3 DEF Put
<1>. QED
  BY <1>2, <1>3

\* An error frame is a frame, whatever request it answers.
LEMMA ErrorIsFrame ==
  ASSUME NEW r \in Req
  PROVE  ErrorFrame(r) \in Frame /\ ErrorFrame(r).t = "error"
  BY DEF ErrorFrame, Frame

-----------------------------------------------------------------------------
(* The invariant *)

\* The invariant holds when the server starts with an empty conversation.
LEMMA InitIInv == Init => IInv
<1>. SUFFICES ASSUME Init PROVE IInv
  OBVIOUS
<1>1. LastSeq = 0 /\ DOMAIN log = 1 .. 0
  <2>1. DOMAIN log = 1 .. 0
    BY DEF Init
  <2>. QED
    BY <2>1, MaxOfInterval DEF LastSeq
<1>2. TypeOK
  BY <1>1, OwnerAssumption DEF Init, TypeOK, Req
<1>3. SeqsContiguous
  BY <1>1 DEF SeqsContiguous
<1>4. Memory
  BY DEF Init, Memory, SendMemory, DeleteMemory
<1>5. FramesMatchLog /\ RelayOnlyToWitnesses /\ MembersWitness
  BY DEF Init, FramesMatchLog, RelayOnlyToWitnesses, MembersWitness
<1>. QED
  BY <1>2, <1>3, <1>4, <1>5 DEF IInv

\* A handler that stops with an error frame leaves the tables and the other handlers alone.
LEMMA RefuseStep ==
  ASSUME IInv, NEW r \in Req, pc[r] \in Running, Refuse(r)
  PROVE  IInv'
<1>. USE DEF IInv
<1>1. LastSeq' = LastSeq
  BY DEF Refuse, LastSeq
<1>2. ErrorFrame(r) \in Frame /\ ErrorFrame(r).t = "error"
  BY ErrorIsFrame
<1>3. TypeOK'
  BY <1>1, <1>2, PutType DEF TypeOK, Refuse
<1>4. SeqsContiguous'
  BY <1>1 DEF SeqsContiguous, Refuse
<1>5. Memory'
  BY <1>1 DEF Memory, SendMemory, DeleteMemory, Refuse, TypeOK, Running
<1>6. ASSUME NEW s \in Socket, NEW i \in DOMAIN inbox'[s]
      PROVE  \/ i \in DOMAIN inbox[s] /\ inbox'[s][i] = inbox[s][i]
             \/ inbox'[s][i].t = "error"
  BY <1>2, PutFrames DEF Refuse
<1>7. FramesMatchLog'
  BY <1>6 DEF FramesMatchLog, Refuse
<1>8. RelayOnlyToWitnesses'
  BY <1>6 DEF RelayOnlyToWitnesses, Refuse
<1>9. MembersWitness'
  BY DEF MembersWitness, Refuse
<1>. QED
  BY <1>3, <1>4, <1>5, <1>7, <1>8, <1>9

\* Insert is the step the invariant is about: the seq read earlier is at most the next
\* one, so a seq that is not taken is exactly the next one.
LEMMA InsertStep ==
  ASSUME IInv, NEW r \in Req, Insert(r), seq[r] \notin DOMAIN log
  PROVE  /\ IInv'
         /\ seq[r] = LastSeq + 1
<1>. USE DEF IInv
<1>1. /\ pc[r] = "insert" /\ r \in SendReq /\ ws[r] \in Socket
      /\ seq[r] \in 1 .. LastSeq + 1
  BY DEF Insert, Store, Memory, SendMemory
<1>2. LastSeq \in Nat /\ DOMAIN log = 1 .. LastSeq
  BY DEF TypeOK, SeqsContiguous
<1>3. seq[r] = LastSeq + 1
  BY <1>1, <1>2
<1>4. DOMAIN log' = 1 .. LastSeq + 1
  <2>1. DOMAIN log' = DOMAIN log \cup {seq[r]}
    BY DEF Insert, Store
  <2>. QED
    BY <1>2, <1>3, <2>1
<1>5. LastSeq' = LastSeq + 1
  BY <1>2, <1>4, MaxOfInterval DEF LastSeq
<1>6. /\ \A n \in DOMAIN log : log'[n] = log[n] /\ witness'[n] = witness[n]
      /\ log'[seq[r]] = [sender |-> UserOf[ws[r]], item |-> r, deleted |-> FALSE]
      /\ witness'[seq[r]] = members
  BY <1>2, <1>3 DEF Insert, Store
<1>7. TypeOK'
  <2>1. log'[seq[r]] \in Row
    BY <1>1, <1>6, UserOfAssumption DEF Row
  <2>2. \A n \in DOMAIN log' : log'[n] \in Row /\ witness'[n] \in SUBSET User
    <3>1. \A n \in DOMAIN log' : n \in DOMAIN log \/ n = seq[r]
      BY DEF Insert, Store
    <3>2. \A n \in DOMAIN log : log'[n] \in Row /\ witness'[n] \in SUBSET User
      BY <1>6 DEF TypeOK
    <3>3. witness'[seq[r]] \in SUBSET User
      BY <1>6 DEF TypeOK
    <3>. QED
      BY <2>1, <3>1, <3>2, <3>3
  <2>3. log' = [n \in DOMAIN log' |-> log'[n]] /\ witness' = [n \in DOMAIN log' |-> witness'[n]]
    BY DEF Insert, Store
  <2>4. DOMAIN log' \subseteq Nat \ {0} /\ LastSeq' \in Nat
    BY <1>2, <1>4, <1>5
  <2>. QED
    BY <2>2, <2>3, <2>4 DEF TypeOK, Insert, Store, Running
<1>8. SeqsContiguous'
  BY <1>4, <1>5 DEF SeqsContiguous
<1>9. Memory'
  <2>. SUFFICES ASSUME NEW q \in Req
                PROVE  /\ pc'[q] # "unsent" => ws'[q] \in Socket
                       /\ SendMemory(q)' /\ DeleteMemory(q)'
    BY DEF Memory
  <2>1. pc'[q] # "unsent" => ws'[q] \in Socket
    BY DEF Memory, Insert, Store, TypeOK
  <2>2. /\ q # r => pc'[q] = pc[q]
        /\ q = r => pc'[q] = "roster"
        /\ ws' = ws /\ seq' = seq /\ roster' = roster
    BY DEF Insert, Store, TypeOK
  <2>3. /\ \A n \in DOMAIN log : n \in DOMAIN log' /\ n # seq[r]
        /\ seq[r] \in DOMAIN log'
    BY <1>2, <1>3, <1>4
  <2>4. SendMemory(q)'
    <3>1. CASE q = r
      BY <1>6, <2>2, <2>3, <3>1 DEF SendMemory
    <3>2. CASE q # r
      <4>1. SendMemory(q)
        BY DEF Memory
      <4>2. seq[q] \in 1 .. LastSeq + 1 => seq[q] \in 1 .. LastSeq' + 1
        BY <1>2, <1>5
      <4>. QED
        BY <1>6, <2>2, <2>3, <3>2, <4>1, <4>2 DEF SendMemory
    <3>. QED
      BY <3>1, <3>2
  <2>5. DeleteMemory(q)'
    <3>1. CASE q = r
      BY <1>1, <2>2, <3>1, ReqAssumption DEF DeleteMemory
    <3>2. CASE q # r
      <4>1. DeleteMemory(q)
        BY DEF Memory
      <4>. QED
        BY <1>6, <2>2, <2>3, <3>2, <4>1 DEF DeleteMemory
    <3>. QED
      BY <3>1, <3>2
  <2>. QED
    BY <2>1, <2>4, <2>5
<1>10. FramesMatchLog'
  BY <1>2, <1>4, <1>6 DEF FramesMatchLog, Insert, Store
<1>11. RelayOnlyToWitnesses'
  BY <1>6 DEF RelayOnlyToWitnesses, FramesMatchLog, Insert, Store
<1>12. MembersWitness'
  <2>1. members' = members /\ \A n \in DOMAIN log' : n \in DOMAIN log \/ n = seq[r]
    BY DEF Insert, Store
  <2>. QED
    BY <1>6, <2>1 DEF MembersWitness
<1>. QED
  BY <1>3, <1>7, <1>8, <1>9, <1>10, <1>11, <1>12

\* Blanking a row changes neither its place, its author nor its identity.
LEMMA BlankStep ==
  ASSUME IInv, NEW r \in Req, pc[r] = "update",
         seq[r] \in DOMAIN log, log[seq[r]].sender = UserOf[ws[r]],
         log' = [log EXCEPT ![seq[r]].deleted = TRUE],
         pc' = [pc EXCEPT ![r] = "roster"],
         UNCHANGED <<members, ws, seq, roster, up, inbox, witness>>
  PROVE  IInv'
<1>. USE DEF IInv
<1>1. r \in DelReq /\ ws[r] \in Socket
  BY DEF Memory, DeleteMemory
<1>2. DOMAIN log' = DOMAIN log /\ LastSeq' = LastSeq
  BY DEF LastSeq
<1>3. /\ \A n \in DOMAIN log : log'[n].sender = log[n].sender /\ log'[n].item = log[n].item
      /\ \A n \in DOMAIN log : log[n].deleted => log'[n].deleted
      /\ log'[seq[r]].deleted
  BY DEF TypeOK, Row
<1>4. TypeOK'
  BY <1>2 DEF TypeOK, Row, Running
<1>5. SeqsContiguous'
  BY <1>2 DEF SeqsContiguous
<1>6. Memory'
  <2>. SUFFICES ASSUME NEW q \in Req
                PROVE  /\ pc'[q] # "unsent" => ws'[q] \in Socket
                       /\ SendMemory(q)' /\ DeleteMemory(q)'
    BY DEF Memory
  <2>1. pc'[q] # "unsent" => ws'[q] \in Socket
    BY DEF Memory, TypeOK
  <2>2. SendMemory(q)'
    <3>1. SendMemory(q) /\ SendMemory(r)
      BY DEF Memory
    <3>2. q # r => pc'[q] = pc[q]
      BY DEF TypeOK
    <3>. QED
      BY <1>1, <1>2, <1>3, <3>1, <3>2, ReqAssumption DEF SendMemory, TypeOK
  <2>3. DeleteMemory(q)'
    BY <1>1, <1>2, <1>3, UserOfAssumption DEF Memory, DeleteMemory, TypeOK, SocketsOf
  <2>. QED
    BY <2>1, <2>2, <2>3
<1>7. FramesMatchLog' /\ RelayOnlyToWitnesses' /\ MembersWitness'
  BY <1>2, <1>3 DEF FramesMatchLog, RelayOnlyToWitnesses, MembersWitness
<1>. QED
  BY <1>4, <1>5, <1>6, <1>7

\* A step of one handler that touches neither tables, sockets nor inboxes keeps the
\* invariant if what the handler remembers afterwards is right.
LEMMA LocalStep ==
  ASSUME IInv, NEW r \in Req,
         UNCHANGED <<members, log, up, inbox, witness>>,
         pc' \in [Req -> Running \cup {"unsent", "refused", "done", "lost"}],
         ws' \in [Req -> Socket \cup {NoSocket}],
         seq' \in [Req -> Nat],
         roster' \in [Req -> SUBSET User],
         \A q \in Req \ {r} : pc'[q] = pc[q] /\ ws'[q] = ws[q] /\ seq'[q] = seq[q]
                                /\ roster'[q] = roster[q],
         pc'[r] # "unsent" => ws'[r] \in Socket,
         SendMemory(r)', DeleteMemory(r)'
  PROVE  IInv'
<1>. USE DEF IInv
<1>1. LastSeq' = LastSeq
  BY DEF LastSeq
<1>2. TypeOK'
  BY <1>1 DEF TypeOK
<1>3. SeqsContiguous'
  BY <1>1 DEF SeqsContiguous
<1>4. Memory'
  <2>. SUFFICES ASSUME NEW q \in Req, q # r
                PROVE  /\ pc'[q] # "unsent" => ws'[q] \in Socket
                       /\ SendMemory(q)' /\ DeleteMemory(q)'
    BY DEF Memory
  <2>1. (pc[q] # "unsent" => ws[q] \in Socket) /\ SendMemory(q) /\ DeleteMemory(q)
    BY DEF Memory
  <2>. QED
    BY <1>1, <2>1 DEF SendMemory, DeleteMemory
<1>5. FramesMatchLog' /\ RelayOnlyToWitnesses' /\ MembersWitness'
  BY DEF FramesMatchLog, RelayOnlyToWitnesses, MembersWitness
<1>. QED
  BY <1>2, <1>3, <1>4, <1>5

\* A frame of a client starts a handler.
LEMMA ReceiveStep ==
  ASSUME IInv, NEW r \in Req, NEW s \in Socket, Receive(r, s)
  PROVE  IInv'
<1>1. seq' \in [Req -> Nat]
  <2>1. \A n \in KnownTo(s) : n \in Nat
    BY DEF KnownTo, IInv, TypeOK
  <2>. QED
    BY <2>1 DEF Receive, IInv, TypeOK
<1>2. pc'[r] = "isMember" /\ ws'[r] = s
  BY DEF Receive, IInv, TypeOK
<1>3. \A q \in Req \ {r} : pc'[q] = pc[q] /\ ws'[q] = ws[q] /\ seq'[q] = seq[q]
  BY DEF Receive, IInv, TypeOK
<1>4. SendMemory(r)' /\ DeleteMemory(r)'
  BY <1>2 DEF SendMemory, DeleteMemory
<1>5. /\ pc' \in [Req -> Running \cup {"unsent", "refused", "done", "lost"}]
      /\ ws' \in [Req -> Socket \cup {NoSocket}]
  BY DEF Receive, IInv, TypeOK, Running
<1>. QED
  BY <1>1, <1>2, <1>3, <1>4, <1>5, LocalStep DEF Receive, IInv, TypeOK

\* The isMember query answers, the row count is read, the roster is read: the handler
\* goes on with one more local variable.
LEMMA QueryStep ==
  ASSUME IInv, NEW r \in Req, CheckMember(r) \/ ReadMax(r) \/ ReadRoster(r)
  PROVE  IInv'
<1>. USE DEF IInv
<1>0. ws[r] \in Socket
  BY DEF Memory, CheckMember, ReadMax, ReadRoster
<1>1. CASE CheckMember(r) /\ UserOf[ws[r]] \in members
  <2>1. pc'[r] \in {"maxSeq", "update"} /\ (r \in SendReq <=> pc'[r] = "maxSeq")
    BY <1>1 DEF CheckMember, TypeOK
  <2>2. SendMemory(r)' /\ DeleteMemory(r)'
    BY <2>1 DEF SendMemory, DeleteMemory, Req
  <2>3. pc' \in [Req -> Running \cup {"unsent", "refused", "done", "lost"}]
    BY <1>1 DEF CheckMember, TypeOK, Running
  <2>4. \A q \in Req \ {r} : pc'[q] = pc[q]
    BY <1>1 DEF CheckMember, TypeOK
  <2>5. UNCHANGED <<members, log, ws, seq, roster, up, inbox, witness>>
    BY <1>1 DEF CheckMember
  <2>. QED
    BY <1>0, <2>2, <2>3, <2>4, <2>5, LocalStep DEF TypeOK
<1>2. CASE CheckMember(r) /\ UserOf[ws[r]] \notin members
  BY <1>2, RefuseStep DEF CheckMember, Running
<1>3. CASE ReadMax(r)
  <2>1. r \in SendReq /\ LastSeq \in Nat
    BY <1>3 DEF ReadMax, Memory, SendMemory, TypeOK
  <2>2. pc'[r] = "insert" /\ seq'[r] = LastSeq + 1 /\ LastSeq' = LastSeq
    BY <1>3 DEF ReadMax, TypeOK, LastSeq
  <2>3. SendMemory(r)' /\ DeleteMemory(r)'
    <3>1. seq'[r] \in 1 .. LastSeq' + 1
      BY <2>1, <2>2
    <3>. QED
      BY <2>1, <2>2, <3>1, ReqAssumption DEF SendMemory, DeleteMemory
  <2>4. /\ pc' \in [Req -> Running \cup {"unsent", "refused", "done", "lost"}]
        /\ seq' \in [Req -> Nat]
    BY <1>3, <2>1 DEF ReadMax, TypeOK, Running
  <2>5. \A q \in Req \ {r} : pc'[q] = pc[q] /\ seq'[q] = seq[q]
    BY <1>3 DEF ReadMax, TypeOK
  <2>. QED
    BY <1>0, <1>3, <2>3, <2>4, <2>5, LocalStep DEF ReadMax, TypeOK
<1>4. CASE ReadRoster(r)
  <2>1. pc'[r] = "fanout" /\ roster'[r] = members
    BY <1>4 DEF ReadRoster, TypeOK
  <2>2. SendMemory(r) /\ DeleteMemory(r) /\ pc[r] = "roster"
    BY <1>4 DEF Memory, ReadRoster
  <2>3. UNCHANGED <<members, log, ws, seq, up, inbox, witness>>
    BY <1>4 DEF ReadRoster
  <2>4. r \in SendReq => members \subseteq witness[seq[r]]
    BY <2>2 DEF SendMemory, MembersWitness
  <2>5. SendMemory(r)' /\ DeleteMemory(r)'
    BY <2>1, <2>2, <2>3, <2>4 DEF SendMemory, DeleteMemory, SocketsOf
  <2>6. /\ pc' \in [Req -> Running \cup {"unsent", "refused", "done", "lost"}]
        /\ roster' \in [Req -> SUBSET User]
    BY <1>4 DEF ReadRoster, TypeOK, Running
  <2>7. \A q \in Req \ {r} : pc'[q] = pc[q] /\ roster'[q] = roster[q]
    BY <1>4 DEF ReadRoster, TypeOK
  <2>. QED
    BY <1>0, <2>3, <2>5, <2>6, <2>7, LocalStep DEF TypeOK
<1>. QED
  BY <1>1, <1>2, <1>3, <1>4

\* The fan-out: the frames written are about a stored row, and go to the roster.
LEMMA RelayStep ==
  ASSUME IInv, NEW r \in Req, Relay(r)
  PROVE  IInv'
<1>. USE DEF IInv
<1>. DEFINE ack == [t |-> "delivered", seq |-> seq[r], item |-> r]
            msg == [t |-> "message", seq |-> seq[r], item |-> r]
<1>1. /\ r \in SendReq /\ ws[r] \in Socket /\ pc[r] = "fanout"
      /\ seq[r] \in DOMAIN log /\ log[seq[r]].item = r
      /\ roster[r] \subseteq witness[seq[r]]
  BY DEF Relay, Memory, SendMemory
<1>2. ack \in Frame /\ msg \in Frame
  BY DEF Frame, TypeOK
<1>3. UNCHANGED <<members, log, ws, seq, roster, up, witness>> /\ LastSeq' = LastSeq
  BY DEF Relay, LastSeq
<1>4. \A s \in Socket : inbox'[s] = IF s = ws[r] THEN Put({s}, ack)[s]
                                                 ELSE Put(SocketsOf(roster[r]), msg)[s]
  BY DEF Relay
<1>5. TypeOK'
  <2>1. inbox' \in [Socket -> Seq(Frame)]
    <3>1. \A s \in Socket : Put({s}, ack)[s] \in Seq(Frame)
                            /\ Put(SocketsOf(roster[r]), msg)[s] \in Seq(Frame)
      BY <1>2, PutType
    <3>. QED
      BY <3>1 DEF Relay
  <2>. QED
    BY <1>3, <2>1 DEF TypeOK, Relay
<1>6. SeqsContiguous' /\ MembersWitness'
  BY <1>3 DEF SeqsContiguous, MembersWitness
<1>7. Memory'
  BY <1>3 DEF Memory, SendMemory, DeleteMemory, Relay, TypeOK
<1>8. ASSUME NEW s \in Socket, NEW i \in DOMAIN inbox'[s]
      PROVE  \/ i \in DOMAIN inbox[s] /\ inbox'[s][i] = inbox[s][i]
             \/ inbox'[s][i] = ack
             \/ inbox'[s][i] = msg /\ UserOf[s] \in roster[r]
  <2>1. CASE s = ws[r]
    <3>1. inbox'[s] = Put({s}, ack)[s]
      BY <1>4, <2>1
    <3>2. i \in DOMAIN Put({s}, ack)[s]
      BY <3>1
    <3>3. \/ i \in DOMAIN inbox[s] /\ Put({s}, ack)[s][i] = inbox[s][i]
          \/ Put({s}, ack)[s][i] = ack
      BY <1>2, <3>2, PutFrames
    <3>. QED
      BY <3>1, <3>3
  <2>2. CASE s # ws[r]
    <3>1. inbox'[s] = Put(SocketsOf(roster[r]), msg)[s]
      BY <1>4, <2>2
    <3>2. \/ i \in DOMAIN inbox[s] /\ inbox'[s][i] = inbox[s][i]
          \/ s \in SocketsOf(roster[r]) /\ inbox'[s][i] = msg
      BY <1>2, <3>1, PutFrames
    <3>. QED
      BY <3>2 DEF SocketsOf
  <2>. QED
    BY <2>1, <2>2
<1>9. FramesMatchLog'
  BY <1>1, <1>3, <1>8 DEF FramesMatchLog
<1>10. RelayOnlyToWitnesses'
  BY <1>1, <1>3, <1>8 DEF RelayOnlyToWitnesses
<1>. QED
  BY <1>5, <1>6, <1>7, <1>9, <1>10

\* The notice of a deletion says nothing about who may see the message.
LEMMA RelayDeletedStep ==
  ASSUME IInv, NEW r \in Req, RelayDeleted(r)
  PROVE  IInv'
<1>. USE DEF IInv
<1>. DEFINE del == [t |-> "deleted", seq |-> seq[r], item |-> r]
<1>1. del \in Frame /\ del.t = "deleted"
  BY DEF Frame, TypeOK
<1>2. UNCHANGED <<members, log, ws, seq, roster, up, witness>> /\ LastSeq' = LastSeq
  BY DEF RelayDeleted, LastSeq
<1>3. TypeOK'
  BY <1>1, <1>2, PutType DEF TypeOK, RelayDeleted
<1>4. SeqsContiguous' /\ MembersWitness'
  BY <1>2 DEF SeqsContiguous, MembersWitness
<1>5. Memory'
  BY <1>2 DEF Memory, SendMemory, DeleteMemory, RelayDeleted, TypeOK
<1>6. ASSUME NEW s \in Socket, NEW i \in DOMAIN inbox'[s]
      PROVE  \/ i \in DOMAIN inbox[s] /\ inbox'[s][i] = inbox[s][i]
             \/ inbox'[s][i].t = "deleted"
  BY <1>1, PutFrames DEF RelayDeleted
<1>7. FramesMatchLog' /\ RelayOnlyToWitnesses'
  BY <1>2, <1>6 DEF FramesMatchLog, RelayOnlyToWitnesses
<1>. QED
  BY <1>3, <1>4, <1>5, <1>7

\* Roster changes, sockets that close and a restart of the process.
LEMMA EnvironmentStep ==
  ASSUME IInv,
         \/ \E u \in User : AddMember(u) \/ RemoveMember(u)
         \/ \E s \in Socket : Close(s)
         \/ Restart
         \/ UNCHANGED vars
  PROVE  IInv'
<1>. USE DEF IInv
<1>1. UNCHANGED <<log, ws, seq, roster, inbox>> /\ LastSeq' = LastSeq
  BY DEF AddMember, RemoveMember, Close, Restart, vars, LastSeq
<1>2. DOMAIN witness' = DOMAIN witness /\ \A n \in DOMAIN witness : witness[n] \subseteq witness'[n]
  BY DEF AddMember, RemoveMember, Close, Restart, vars
<1>3. \A r \in Req : pc'[r] = pc[r] \/ pc'[r] = "lost"
  BY DEF AddMember, RemoveMember, Close, Restart, vars
<1>4. MembersWitness'
  BY <1>1 DEF MembersWitness, AddMember, RemoveMember, Close, Restart, vars, TypeOK
<1>5. TypeOK'
  <2>1. pc' \in [Req -> Running \cup {"unsent", "refused", "done", "lost"}]
    BY DEF AddMember, RemoveMember, Close, Restart, vars, TypeOK
  <2>2. members' \subseteq User /\ up' \subseteq Socket
    BY DEF AddMember, RemoveMember, Close, Restart, vars, TypeOK
  <2>3. /\ witness' = [n \in DOMAIN log |-> witness'[n]]
        /\ \A n \in DOMAIN log : witness'[n] \in SUBSET User
    BY DEF AddMember, RemoveMember, Close, Restart, vars, TypeOK
  <2>. QED
    BY <1>1, <2>1, <2>2, <2>3 DEF TypeOK
<1>6. SeqsContiguous'
  BY <1>1 DEF SeqsContiguous
<1>7. Memory'
  <2>. SUFFICES ASSUME NEW q \in Req
                PROVE  /\ pc'[q] # "unsent" => ws'[q] \in Socket
                       /\ SendMemory(q)' /\ DeleteMemory(q)'
    BY DEF Memory
  <2>1. (pc[q] # "unsent" => ws[q] \in Socket) /\ SendMemory(q) /\ DeleteMemory(q)
    BY DEF Memory
  <2>2. pc'[q] = "lost" => pc[q] # "unsent"
    BY DEF AddMember, RemoveMember, Close, Restart, vars, TypeOK, Running
  <2>3. DOMAIN witness = DOMAIN log
    BY DEF TypeOK
  <2>. QED
    BY <1>1, <1>2, <1>3, <2>1, <2>2, <2>3 DEF SendMemory, DeleteMemory
<1>8. FramesMatchLog'
  BY <1>1 DEF FramesMatchLog
<1>9. RelayOnlyToWitnesses'
  <2>1. DOMAIN witness = DOMAIN log
    BY DEF TypeOK
  <2>. QED
    BY <1>1, <1>2, <2>1 DEF RelayOnlyToWitnesses, FramesMatchLog
<1>. QED
  BY <1>4, <1>5, <1>6, <1>7, <1>8, <1>9

\* Every step of the server preserves the invariant.
LEMMA NextIInv == IInv /\ [Next]_vars => IInv'
<1>. SUFFICES ASSUME IInv, [Next]_vars PROVE IInv'
  OBVIOUS
<1>1. ASSUME NEW r \in Req, NEW s \in Socket, Receive(r, s) PROVE IInv'
  BY <1>1, ReceiveStep
<1>2. ASSUME NEW r \in Req, CheckMember(r) \/ ReadMax(r) \/ ReadRoster(r) PROVE IInv'
  BY <1>2, QueryStep
<1>3. ASSUME NEW r \in Req, Insert(r) PROVE IInv'
  <2>1. CASE seq[r] \in DOMAIN log
    BY <1>3, <2>1, RefuseStep DEF Insert, Store, Running
  <2>2. CASE seq[r] \notin DOMAIN log
    BY <1>3, <2>2, InsertStep
  <2>. QED
    BY <2>1, <2>2
<1>4. ASSUME NEW r \in Req, BlankRow(r) PROVE IInv'
  <2>1. CASE Refuse(r)
    BY <1>4, <2>1, RefuseStep DEF BlankRow, Running
  <2>2. CASE ~ Refuse(r)
    BY <1>4, <2>2, BlankStep DEF BlankRow
  <2>. QED
    BY <2>1, <2>2
<1>5. ASSUME NEW r \in Req, Relay(r) PROVE IInv'
  BY <1>5, RelayStep
<1>6. ASSUME NEW r \in Req, RelayDeleted(r) PROVE IInv'
  BY <1>6, RelayDeletedStep
<1>7. ASSUME NEW r \in Req, Fail(r) PROVE IInv'
  BY <1>7, RefuseStep DEF Fail
<1>. QED
  BY <1>1, <1>2, <1>3, <1>4, <1>5, <1>6, <1>7, EnvironmentStep DEF Next, Step

-----------------------------------------------------------------------------
(* Theorems *)

\* Whatever is interleaved, refused, lost or restarted, the invariant holds.
THEOREM Invariance == Spec => []IInv
  BY InitIInv, NextIInv, PTL DEF Spec

\* Every variable keeps its type.
THEOREM TypeCorrect == Spec => []TypeOK
<1>1. IInv => TypeOK
  BY DEF IInv
<1>. QED
  BY <1>1, Invariance, PTL

\* The seqs of a conversation have no hole, for any number of concurrent sends,
\* deletes, failures and restarts (repo.ts appendMessage, deleteMessage).
THEOREM NoHole == Spec => []SeqsContiguous
<1>1. IInv => SeqsContiguous
  BY DEF IInv
<1>. QED
  BY <1>1, Invariance, PTL

\* Two sockets are never told different messages under one seq, and no socket is told
\* of a message that is not stored (gateway.ts, the `send' handler).
THEOREM FramesAgree == Spec => []FramesMatchLog
<1>1. IInv => FramesMatchLog
  BY DEF IInv
<1>. QED
  BY <1>1, Invariance, PTL

\* Only users who were on the roster since the message was stored are sent it.
THEOREM RelayedToMembers == Spec => []RelayOnlyToWitnesses
<1>1. IInv => RelayOnlyToWitnesses
  BY DEF IInv
<1>. QED
  BY <1>1, Invariance, PTL

-----------------------------------------------------------------------------
(* ChatLog implements OrderedLog *)

\* A write that adds no `message' frame shows nobody anything new.
LEMMA PutShowsNothing ==
  ASSUME TypeOK, NEW S, NEW f \in Frame, f.t # "message", inbox' = Put(S, f)
  PROVE  \A s \in Socket : MessagesShown(s)' = MessagesShown(s)
<1>. SUFFICES ASSUME NEW s \in Socket PROVE MessagesShown(s)' = MessagesShown(s)
  OBVIOUS
<1>1. inbox[s] \in Seq(Frame)
  BY DEF TypeOK
<1>2. CASE inbox'[s] = inbox[s]
  BY <1>2 DEF MessagesShown
<1>3. CASE inbox'[s] = Append(inbox[s], f)
  BY <1>1, <1>3 DEF MessagesShown
<1>. QED
  BY <1>2, <1>3 DEF Put

\* A fan-out of one stored message shows that message to some sockets.
LEMMA RelayShows ==
  ASSUME TypeOK, NEW r \in Req, Relay(r)
  PROVE  \E R \in SUBSET Socket : \A s \in Socket :
           MessagesShown(s)' = IF s \in R THEN MessagesShown(s) \cup {seq[r]}
                                          ELSE MessagesShown(s)
<1>. DEFINE ack == [t |-> "delivered", seq |-> seq[r], item |-> r]
            msg == [t |-> "message", seq |-> seq[r], item |-> r]
            R == {s \in SocketsOf(roster[r]) \cap up : s # ws[r]}
<1>1. ASSUME NEW s \in Socket
      PROVE  MessagesShown(s)' = IF s \in R THEN MessagesShown(s) \cup {seq[r]}
                                            ELSE MessagesShown(s)
  <2>1. inbox[s] \in Seq(Frame)
    BY DEF TypeOK
  <2>2. CASE s \in R
    <3>1. inbox'[s] = Append(inbox[s], msg)
      BY <2>2 DEF Relay, Put
    <3>. QED
      BY <2>1, <2>2, <3>1 DEF MessagesShown
  <2>3. CASE s \notin R
    <3>1. inbox'[s] = inbox[s] \/ inbox'[s] = Append(inbox[s], ack)
      BY <2>3 DEF Relay, Put
    <3>. QED
      BY <2>1, <2>3, <3>1 DEF MessagesShown
  <2>. QED
    BY <2>2, <2>3
<1>2. R \in SUBSET Socket
  BY DEF SocketsOf
<1>. QED
  BY <1>1, <1>2

\* A log without a hole is a sequence, and taking the next seq appends to it.
LEMMA LogIsSequence ==
  ASSUME IInv
  PROVE  log \in Seq(Row) /\ Len(log) = LastSeq
<1>1. LastSeq \in Nat /\ DOMAIN log = 1 .. LastSeq /\ log = [n \in 1 .. LastSeq |-> log[n]]
  BY DEF IInv, TypeOK, SeqsContiguous
<1>2. \A n \in 1 .. LastSeq : log[n] \in Row
  BY <1>1 DEF IInv, TypeOK
<1>. QED
  BY <1>1, <1>2

\* Each step of the server is a step of the ordered log, or leaves it as it is.
LEMMA StepRefines ==
  ASSUME IInv, IInv', [Next]_vars
  PROVE  [Ordered!Next]_<<log, [s \in Socket |-> MessagesShown(s)]>>
<1>. DEFINE show == [s \in Socket |-> MessagesShown(s)]
<1>1. TypeOK
  BY DEF IInv
<1>2. ASSUME NEW r \in Req, Refuse(r) PROVE UNCHANGED <<log, show>>
  <2>1. ErrorFrame(r) \in Frame /\ ErrorFrame(r).t # "message"
    BY ErrorIsFrame
  <2>2. inbox' = Put({ws[r]}, ErrorFrame(r)) /\ log' = log
    BY <1>2 DEF Refuse
  <2>3. \A s \in Socket : MessagesShown(s)' = MessagesShown(s)
    BY <1>1, <2>1, <2>2, PutShowsNothing
  <2>. QED
    BY <2>2, <2>3
<1>3. ASSUME UNCHANGED <<log, inbox>> PROVE UNCHANGED <<log, show>>
  BY <1>3 DEF MessagesShown
<1>4. ASSUME NEW r \in Req, Insert(r), seq[r] \notin DOMAIN log PROVE Ordered!Add /\ show' = show
  <2>1. /\ r \in SendReq /\ ws[r] \in Socket
        /\ seq[r] = LastSeq + 1
    BY <1>4, InsertStep DEF IInv, Memory, SendMemory, Insert, Store
  <2>. DEFINE e == [sender |-> UserOf[ws[r]], item |-> r, deleted |-> FALSE]
  <2>2. /\ log \in Seq(Row) /\ Len(log) = LastSeq
        /\ LastSeq \in Nat /\ DOMAIN log = 1 .. LastSeq
    BY LogIsSequence DEF IInv, TypeOK, SeqsContiguous
  <2>3. log' = [n \in 1 .. LastSeq + 1 |-> IF n = LastSeq + 1 THEN e ELSE log[n]]
    <3>1. DOMAIN log \cup {seq[r]} = 1 .. LastSeq + 1
      BY <2>1, <2>2
    <3>2. log' = [n \in DOMAIN log \cup {seq[r]} |-> IF n = seq[r] THEN e ELSE log[n]]
      BY <1>4 DEF Insert, Store
    <3>. QED
      BY <2>1, <3>1, <3>2
  <2>4. e \in Row
    BY <2>1, UserOfAssumption DEF Row
  <2>5. log' = Append(log, e)
    BY <2>2, <2>3, <2>4
  <2>6. UNCHANGED show
    BY <1>4 DEF Insert, Store, MessagesShown
  <2>7. UserOf[ws[r]] \in User
    BY <2>1, UserOfAssumption
  <2>. QED
    BY <2>1, <2>5, <2>6, <2>7 DEF Ordered!Add
<1>5. ASSUME NEW r \in Req, BlankRow(r), ~ Refuse(r) PROVE Ordered!Blank
  <2>1. UNCHANGED show
    BY <1>5 DEF BlankRow, MessagesShown
  <2>. QED
    BY <1>5, <2>1 DEF BlankRow, Ordered!Blank
<1>6. ASSUME NEW r \in Req, Relay(r) PROVE Ordered!Show
  <2>1. seq[r] \in DOMAIN log /\ log' = log
    BY <1>6 DEF IInv, Memory, SendMemory, Relay
  <2>2. PICK R \in SUBSET Socket : \A s \in Socket :
          MessagesShown(s)' = IF s \in R THEN MessagesShown(s) \cup {seq[r]}
                                         ELSE MessagesShown(s)
    BY <1>1, <1>6, RelayShows
  <2>3. show' = [s \in Socket |-> IF s \in R THEN show[s] \cup {seq[r]} ELSE show[s]]
    BY <2>2
  <2>. QED
    BY <2>1, <2>3 DEF Ordered!Show
<1>7. ASSUME NEW r \in Req, RelayDeleted(r) PROVE UNCHANGED <<log, show>>
  <2>. DEFINE del == [t |-> "deleted", seq |-> seq[r], item |-> r]
  <2>1. del \in Frame /\ del.t # "message"
    BY <1>1 DEF Frame, TypeOK
  <2>2. inbox' = Put(SocketsOf(roster[r]), del) /\ log' = log
    BY <1>7 DEF RelayDeleted
  <2>3. \A s \in Socket : MessagesShown(s)' = MessagesShown(s)
    BY <1>1, <2>1, <2>2, PutShowsNothing
  <2>. QED
    BY <2>2, <2>3
<1>8. ASSUME NEW r \in Req, Step(r) PROVE [Ordered!Next]_<<log, show>>
  BY <1>2, <1>3, <1>4, <1>5, <1>6, <1>7, <1>8
     DEF Step, CheckMember, ReadMax, Insert, Store, BlankRow, ReadRoster, Ordered!Next
<1>9. ASSUME NEW r \in Req, Fail(r) PROVE UNCHANGED <<log, show>>
  BY <1>2, <1>9 DEF Fail
<1>10. ASSUME \/ \E r \in Req, s \in Socket : Receive(r, s)
              \/ \E u \in User : AddMember(u) \/ RemoveMember(u)
              \/ \E s \in Socket : Close(s)
              \/ Restart
              \/ UNCHANGED vars
       PROVE  UNCHANGED <<log, show>>
  BY <1>3, <1>10 DEF Receive, AddMember, RemoveMember, Close, Restart, vars
<1>. QED
  BY <1>8, <1>9, <1>10 DEF Next

\* The tables, handlers and sockets implement the ordered log: seen from its readers,
\* the conversation is one append-only sequence in which only bodies may go blank.
THEOREM Refinement == Spec => OrderedSpec
<1>1. Init => Ordered!Init
  BY DEF Init, Ordered!Init, MessagesShown
<1>2. IInv /\ IInv' /\ [Next]_vars => [Ordered!Next]_<<log, [s \in Socket |-> MessagesShown(s)]>>
  BY StepRefines
<1>. QED
  BY <1>1, <1>2, Invariance, PTL DEF Spec, OrderedSpec, Ordered!Spec

-----------------------------------------------------------------------------
(***************************************************************************)
(* Deletion: who blanks a message, and when its readers are told.          *)
(*                                                                         *)
(* A client names a message only after somebody of its user was told of    *)
(* it, and the fan-out of a send tells everybody at once.  So while a send *)
(* has its row but has not relayed it, no delete can be about it: that is  *)
(* NotRelayedYet, and why `deleted' never comes before `message'.          *)
(***************************************************************************)


\* A row whose handler has still to relay it is unknown to every client.
NotRelayedYet ==
  \A r \in SendReq : pc[r] \in {"roster", "fanout"} =>
    /\ \A d \in DelReq : pc[d] # "unsent" => seq[d] # seq[r]
    /\ \A s \in Socket : \A i \in DOMAIN inbox[s] :
         inbox[s][i].t # "error" => inbox[s][i].seq # seq[r]

\* A delete names a row, and a notice is about a blank one.
DeletesExist ==
  /\ \A d \in DelReq : pc[d] # "unsent" => seq[d] \in DOMAIN log
  /\ \A s \in Socket : \A i \in DOMAIN inbox[s] : inbox[s][i].t = "deleted" =>
       inbox[s][i].seq \in DOMAIN log /\ log[inbox[s][i].seq].deleted

\* The delete that blanked a row has been received.
AuthorAsked ==
  \A n \in DOMAIN log : log[n].deleted =>
    \E d \in DelReq : /\ pc[d] # "unsent" /\ seq[d] = n
                      /\ ws[d] \in SocketsOf({log[n].sender})

DInv == NotRelayedYet /\ DeletesExist /\ AuthorAsked /\ MessageBeforeDeleted

-----------------------------------------------------------------------------
(* Writing frames *)

\* Every inbox stays as it is or gets one frame of F.
Grown(F) ==
  \A s \in Socket : inbox'[s] = inbox[s] \/ \E f \in F : inbox'[s] = Append(inbox[s], f)

\* A frame of an inbox was there at the same place, or is new and the last one.
LEMMA FramesOfGrown ==
  ASSUME TypeOK, NEW F \in SUBSET Frame, Grown(F),
         NEW s \in Socket, NEW i \in DOMAIN inbox'[s]
  PROVE  \/ i \in DOMAIN inbox[s] /\ inbox'[s][i] = inbox[s][i]
         \/ i = Len(inbox[s]) + 1 /\ inbox'[s][i] \in F
<1>1. inbox[s] \in Seq(Frame)
  BY DEF TypeOK
<1>2. CASE inbox'[s] = inbox[s]
  BY <1>2
<1>3. CASE \E f \in F : inbox'[s] = Append(inbox[s], f)
  <2>1. PICK f \in F : inbox'[s] = Append(inbox[s], f)
    BY <1>3
  <2>2. f \in Frame
    OBVIOUS
  <2>. QED
    BY <1>1, <2>1, <2>2
<1>. QED
  BY <1>2, <1>3 DEF Grown

\* What was in an inbox stays where it is.
LEMMA GrownKeeps ==
  ASSUME TypeOK, NEW F \in SUBSET Frame, Grown(F),
         NEW s \in Socket, NEW i \in DOMAIN inbox[s]
  PROVE  i \in DOMAIN inbox'[s] /\ inbox'[s][i] = inbox[s][i]
<1>1. inbox[s] \in Seq(Frame)
  BY DEF TypeOK
<1>2. CASE \E f \in F : inbox'[s] = Append(inbox[s], f)
  <2>1. PICK f \in F : inbox'[s] = Append(inbox[s], f)
    BY <1>2
  <2>2. f \in Frame
    OBVIOUS
  <2>. QED
    BY <1>1, <2>1, <2>2
<1>. QED
  BY <1>2 DEF Grown

\* sendTo and send write their frame once to each socket they reach.
LEMMA PutGrows ==
  ASSUME TypeOK, NEW S, NEW f, NEW F, f \in F, inbox' = Put(S, f)
  PROVE  Grown(F)
  BY DEF TypeOK, Put, Grown

-----------------------------------------------------------------------------
(* Steps that leave the rows alone *)

\* A step preserves DInv if it keeps the rows, starts no handler, and writes frames
\* only about rows that are relayed by then.
LEMMA RowsKept ==
  ASSUME IInv, DInv, NEW F \in SUBSET Frame, Grown(F), log' = log,
         \A q \in Req : pc'[q] # "unsent" <=> pc[q] # "unsent",
         \A d \in DelReq : seq'[d] = seq[d] /\ ws'[d] = ws[d],
         \A q \in SendReq : pc'[q] \in {"roster", "fanout"} =>
           pc[q] \in {"roster", "fanout"} /\ seq'[q] = seq[q],
         \A f \in F : f.t # "error" =>
           \A q \in SendReq : pc'[q] \in {"roster", "fanout"} => f.seq # seq[q],
         \A f \in F : f.t = "deleted" => f.seq \in DOMAIN log /\ log[f.seq].deleted,
         \A f \in F : f.t = "message" =>
           \A s \in Socket : \A i \in DOMAIN inbox[s] :
             inbox[s][i].t = "deleted" => inbox[s][i].seq # f.seq
  PROVE  DInv'
<1>1. TypeOK
  BY DEF IInv
<1>2. ASSUME NEW s \in Socket, NEW i \in DOMAIN inbox'[s]
      PROVE  \/ i \in DOMAIN inbox[s] /\ inbox'[s][i] = inbox[s][i]
             \/ i = Len(inbox[s]) + 1 /\ inbox'[s][i] \in F
  BY <1>1, FramesOfGrown
<1>3. NotRelayedYet'
  <2>. SUFFICES ASSUME NEW r \in SendReq, pc'[r] \in {"roster", "fanout"}
                PROVE  /\ \A d \in DelReq : pc'[d] # "unsent" => seq'[d] # seq'[r]
                       /\ \A s \in Socket : \A i \in DOMAIN inbox'[s] :
                            inbox'[s][i].t # "error" => inbox'[s][i].seq # seq'[r]
    BY DEF NotRelayedYet
  <2>1. pc[r] \in {"roster", "fanout"} /\ seq'[r] = seq[r]
    OBVIOUS
  <2>2. \A d \in DelReq : pc'[d] # "unsent" => seq'[d] # seq'[r]
    BY <2>1 DEF DInv, NotRelayedYet, Req
  <2>3. \A s \in Socket : \A i \in DOMAIN inbox'[s] :
          inbox'[s][i].t # "error" => inbox'[s][i].seq # seq'[r]
    BY <1>2, <2>1 DEF DInv, NotRelayedYet
  <2>. QED
    BY <2>2, <2>3
<1>4. DeletesExist'
  BY <1>2 DEF DInv, DeletesExist, Req
<1>5. AuthorAsked'
  BY DEF DInv, AuthorAsked, SocketsOf, Req
<1>6. MessageBeforeDeleted'
  <2>. SUFFICES ASSUME NEW s \in Socket, NEW i \in DOMAIN inbox'[s], NEW j \in DOMAIN inbox'[s],
                       inbox'[s][i].t = "deleted", inbox'[s][j].t = "message",
                       inbox'[s][i].seq = inbox'[s][j].seq
                PROVE  j < i
    BY DEF MessageBeforeDeleted
  <2>1. inbox[s] \in Seq(Frame) /\ DOMAIN inbox[s] = 1 .. Len(inbox[s])
    BY <1>1 DEF TypeOK
  <2>2. CASE /\ i \in DOMAIN inbox[s] /\ inbox'[s][i] = inbox[s][i]
             /\ j \in DOMAIN inbox[s] /\ inbox'[s][j] = inbox[s][j]
    BY <2>2 DEF DInv, MessageBeforeDeleted
  <2>3. CASE /\ i \in DOMAIN inbox[s] /\ inbox'[s][i] = inbox[s][i]
             /\ inbox'[s][j] \in F
    BY <2>3
  <2>4. CASE /\ i = Len(inbox[s]) + 1
             /\ j \in DOMAIN inbox[s] /\ inbox'[s][j] = inbox[s][j]
    BY <2>1, <2>4
  <2>5. CASE /\ i = Len(inbox[s]) + 1 /\ j = Len(inbox[s]) + 1
    BY <2>5
  <2>. QED
    BY <1>2, <2>2, <2>3, <2>4, <2>5
<1>. QED
  BY <1>3, <1>4, <1>5, <1>6 DEF DInv

\* An error frame says nothing about a row.
LEMMA RefuseKeeps ==
  ASSUME IInv, DInv, NEW r \in Req, pc[r] \in Running, Refuse(r)
  PROVE  DInv'
<1>1. TypeOK
  BY DEF IInv
<1>2. ErrorFrame(r) \in Frame /\ ErrorFrame(r).t = "error"
  BY ErrorIsFrame
<1>3. Grown({ErrorFrame(r)})
  BY <1>1, PutGrows DEF Refuse
<1>4. {ErrorFrame(r)} \in SUBSET Frame
  BY <1>2
<1>5. \A q \in Req : pc'[q] = IF q = r THEN "refused" ELSE pc[q]
  BY <1>1 DEF Refuse, TypeOK
<1>6. pc[r] # "unsent"
  BY DEF Running
<1>7. log' = log /\ seq' = seq /\ ws' = ws
  BY DEF Refuse
<1>. QED
  BY <1>2, <1>3, <1>4, <1>5, <1>6, <1>7, RowsKept DEF Req

\* The queries write nothing.
LEMMA QueryKeeps ==
  ASSUME IInv, DInv, NEW r \in Req, CheckMember(r) \/ ReadMax(r) \/ ReadRoster(r)
  PROVE  DInv'
<1>1. TypeOK
  BY DEF IInv
<1>2. CASE CheckMember(r) /\ Refuse(r)
  BY <1>2, RefuseKeeps DEF CheckMember, Running
<1>3. CASE ~ Refuse(r)
  <2>1. /\ log' = log /\ inbox' = inbox /\ ws' = ws
        /\ pc[r] \in {"isMember", "maxSeq", "roster"}
    BY <1>3 DEF CheckMember, ReadMax, ReadRoster
  <2>2. /\ pc' = [pc EXCEPT ![r] = pc'[r]]
        /\ pc'[r] \in {"maxSeq", "update", "insert", "fanout"}
        /\ pc'[r] = "fanout" => pc[r] = "roster" /\ seq' = seq
    BY <1>1, <1>3 DEF CheckMember, ReadMax, ReadRoster, TypeOK
  <2>3. \A q \in Req : q # r \/ pc[r] # "maxSeq" => seq'[q] = seq[q]
    BY <1>1, <1>3 DEF CheckMember, ReadMax, ReadRoster, TypeOK
  <2>4. pc[r] = "maxSeq" => r \in SendReq
    BY DEF IInv, Memory, SendMemory
  <2>5. Grown({})
    BY <2>1 DEF Grown
  <2>6. \A q \in Req : q # r => pc'[q] = pc[q]
    BY <1>1, <2>2 DEF TypeOK
  <2>. QED
    BY <2>1, <2>2, <2>3, <2>4, <2>5, <2>6, ReqAssumption, RowsKept DEF Req
<1>4. CASE Refuse(r) /\ ~ CheckMember(r)
  BY <1>1, <1>4 DEF Refuse, ReadMax, ReadRoster, TypeOK
<1>. QED
  BY <1>2, <1>3, <1>4

\* The fan-out of a send: the rows of two sends are different, so the others that
\* are not relayed yet stay unknown; and no notice about this one is out.
LEMMA RelayKeeps ==
  ASSUME IInv, DInv, NEW r \in Req, Relay(r)
  PROVE  DInv'
<1>. DEFINE msg == [t |-> "message", seq |-> seq[r], item |-> r]
            ack == [t |-> "delivered", seq |-> seq[r], item |-> r]
<1>1. TypeOK
  BY DEF IInv
<1>2. pc[r] = "fanout" /\ r \in SendReq /\ log' = log /\ seq' = seq /\ ws' = ws
  BY DEF Relay
<1>3. msg \in Frame /\ ack \in Frame
  BY <1>1 DEF TypeOK, Frame, Req
<1>4. Grown({msg, ack})
  BY <1>1 DEF Relay, Grown, Put, TypeOK
<1>5. \A q \in Req : pc'[q] = IF q = r THEN "done" ELSE pc[q]
  BY <1>1 DEF Relay, TypeOK
<1>6. \A q \in SendReq : pc'[q] \in {"roster", "fanout"} => seq[r] # seq[q]
  BY <1>2, <1>5 DEF IInv, Memory, SendMemory, Req
<1>7. \A s \in Socket : \A i \in DOMAIN inbox[s] :
        inbox[s][i].t = "deleted" => inbox[s][i].seq # seq[r]
  BY <1>2 DEF DInv, NotRelayedYet
<1>8. {msg, ack} \in SUBSET Frame
  BY <1>3
<1>9. \A f \in {msg, ack} : f.seq = seq[r] /\ f.t \in {"message", "delivered"}
  OBVIOUS
<1>. HIDE DEF msg, ack
<1>. QED
  BY <1>2, <1>4, <1>5, <1>6, <1>7, <1>8, <1>9, RowsKept DEF Req

\* The fan-out of a delete is about a row that is blank, and that was relayed.
LEMMA NoticeKeeps ==
  ASSUME IInv, DInv, NEW r \in Req, RelayDeleted(r)
  PROVE  DInv'
<1>. DEFINE del == [t |-> "deleted", seq |-> seq[r], item |-> r]
<1>1. TypeOK
  BY DEF IInv
<1>2. pc[r] = "fanout" /\ r \in DelReq /\ log' = log /\ seq' = seq /\ ws' = ws
  BY DEF RelayDeleted
<1>3. del \in Frame /\ {del} \in SUBSET Frame
  BY <1>1 DEF TypeOK, Frame, Req
<1>4. Grown({del})
  BY <1>1, PutGrows DEF RelayDeleted
<1>5. \A q \in Req : pc'[q] = IF q = r THEN "done" ELSE pc[q]
  BY <1>1 DEF RelayDeleted, TypeOK
<1>6. seq[r] \in DOMAIN log /\ log[seq[r]].deleted
  BY <1>2 DEF IInv, Memory, DeleteMemory
<1>7. \A q \in SendReq : pc[q] \in {"roster", "fanout"} => seq[r] # seq[q]
  BY <1>2 DEF DInv, NotRelayedYet
<1>8. \A q \in SendReq : pc'[q] \in {"roster", "fanout"} => pc[q] \in {"roster", "fanout"}
  BY <1>5 DEF Req
<1>9. \A f \in {del} : f.seq = seq[r] /\ f.t = "deleted"
  OBVIOUS
<1>. HIDE DEF del
<1>. QED
  BY <1>2, <1>3, <1>4, <1>5, <1>6, <1>7, <1>8, <1>9, RowsKept DEF Req

-----------------------------------------------------------------------------
(* Steps that change the rows, start a handler, or come from outside *)

\* The new row is the first one of its seq: nothing names it yet.
LEMMA InsertKeeps ==
  ASSUME IInv, DInv, NEW r \in Req, Insert(r), seq[r] \notin DOMAIN log
  PROVE  DInv'
<1>1. TypeOK
  BY DEF IInv
<1>2. pc[r] = "insert" /\ r \in SendReq /\ inbox' = inbox /\ seq' = seq /\ ws' = ws
  BY DEF Insert, Store, IInv, Memory, SendMemory
<1>3. \A q \in Req : pc'[q] = IF q = r THEN "roster" ELSE pc[q]
  BY <1>1 DEF Insert, Store, TypeOK
<1>4. /\ DOMAIN log' = DOMAIN log \cup {seq[r]}
      /\ \A n \in DOMAIN log : log'[n] = log[n]
      /\ ~ log'[seq[r]].deleted
  BY DEF Insert, Store
<1>5. \A d \in DelReq : pc[d] # "unsent" => seq[d] # seq[r]
  BY DEF DInv, DeletesExist
<1>6. \A s \in Socket : \A i \in DOMAIN inbox[s] :
        inbox[s][i].t # "error" => inbox[s][i].seq # seq[r]
  <2>. SUFFICES ASSUME NEW s \in Socket, NEW i \in DOMAIN inbox[s], inbox[s][i].t # "error"
                PROVE  inbox[s][i].seq \in DOMAIN log
    OBVIOUS
  <2>1. inbox[s][i] \in Frame
    BY <1>1 DEF TypeOK
  <2>. QED
    BY <2>1 DEF IInv, FramesMatchLog, DInv, DeletesExist, Frame
<1>7. NotRelayedYet'
  BY <1>2, <1>3, <1>5, <1>6, ReqAssumption DEF DInv, NotRelayedYet, Req
<1>8. DeletesExist'
  BY <1>2, <1>3, <1>4, ReqAssumption DEF DInv, DeletesExist, Req
<1>9. AuthorAsked'
  BY <1>2, <1>3, <1>4, ReqAssumption DEF DInv, AuthorAsked, SocketsOf, Req
<1>10. MessageBeforeDeleted'
  BY <1>2 DEF DInv, MessageBeforeDeleted
<1>. QED
  BY <1>7, <1>8, <1>9, <1>10 DEF DInv

\* The UPDATE matches only a row of the user whose socket the request came on.
LEMMA BlankKeeps ==
  ASSUME IInv, DInv, NEW r \in Req, BlankRow(r), ~ Refuse(r)
  PROVE  DInv'
<1>1. TypeOK
  BY DEF IInv
<1>2. /\ pc[r] = "update" /\ inbox' = inbox /\ seq' = seq /\ ws' = ws
      /\ seq[r] \in DOMAIN log /\ log[seq[r]].sender = UserOf[ws[r]]
      /\ log' = [log EXCEPT ![seq[r]].deleted = TRUE]
      /\ pc' = [pc EXCEPT ![r] = "roster"]
  BY DEF BlankRow
<1>3. r \in DelReq /\ r \notin SendReq /\ ws[r] \in Socket
  BY <1>2, ReqAssumption DEF IInv, Memory, DeleteMemory
<1>4. \A q \in Req : pc'[q] = IF q = r THEN "roster" ELSE pc[q]
  BY <1>1, <1>2 DEF TypeOK
<1>5. /\ DOMAIN log' = DOMAIN log
      /\ \A n \in DOMAIN log : n # seq[r] => log'[n] = log[n]
      /\ log'[seq[r]].deleted /\ log'[seq[r]].sender = log[seq[r]].sender
  <2>1. log[seq[r]] \in Row
    BY <1>1, <1>2 DEF TypeOK
  <2>. QED
    BY <1>2, <2>1 DEF Row
<1>6. NotRelayedYet'
  BY <1>2, <1>3, <1>4 DEF DInv, NotRelayedYet, Req
<1>7. DeletesExist'
  BY <1>2, <1>4, <1>5 DEF DInv, DeletesExist, Req
<1>8. AuthorAsked'
  <2>. SUFFICES ASSUME NEW n \in DOMAIN log, log'[n].deleted
                PROVE  \E d \in DelReq : /\ pc'[d] # "unsent" /\ seq'[d] = n
                                         /\ ws'[d] \in SocketsOf({log'[n].sender})
    BY <1>5 DEF AuthorAsked, SocketsOf
  <2>1. CASE n = seq[r]
    BY <1>2, <1>3, <1>4, <1>5, <2>1 DEF SocketsOf, Req
  <2>2. CASE n # seq[r]
    BY <1>2, <1>4, <1>5, <2>2 DEF DInv, AuthorAsked, Req
  <2>. QED
    BY <2>1, <2>2
<1>9. MessageBeforeDeleted'
  BY <1>2 DEF DInv, MessageBeforeDeleted
<1>. QED
  BY <1>6, <1>7, <1>8, <1>9 DEF DInv

\* A client names a row it was told of, which has been relayed by then.
LEMMA ReceiveKeeps ==
  ASSUME IInv, DInv, NEW r \in Req, NEW s \in Socket, Receive(r, s)
  PROVE  DInv'
<1>1. TypeOK
  BY DEF IInv
<1>2. pc[r] = "unsent" /\ log' = log /\ inbox' = inbox
  BY DEF Receive
<1>3. \A q \in Req : pc'[q] = IF q = r THEN "isMember" ELSE pc[q]
  BY <1>1 DEF Receive, TypeOK
<1>4. \A q \in Req : q # r => seq'[q] = seq[q] /\ ws'[q] = ws[q]
  BY <1>1 DEF Receive, TypeOK
<1>5. r \in DelReq => seq'[r] \in KnownTo(s)
  BY <1>1, ReqAssumption DEF Receive, TypeOK, Req
<1>6. \A n \in KnownTo(s) : n \in DOMAIN log
  BY DEF KnownTo
<1>7. \A n \in KnownTo(s) : \A q \in SendReq : pc[q] \in {"roster", "fanout"} => n # seq[q]
  BY DEF KnownTo, SocketsOf, DInv, NotRelayedYet
<1>8. NotRelayedYet'
  <2>. SUFFICES ASSUME NEW q \in SendReq, pc'[q] \in {"roster", "fanout"}
                PROVE  /\ \A d \in DelReq : pc'[d] # "unsent" => seq'[d] # seq'[q]
                       /\ \A z \in Socket : \A i \in DOMAIN inbox'[z] :
                            inbox'[z][i].t # "error" => inbox'[z][i].seq # seq'[q]
    BY DEF NotRelayedYet
  <2>1. q # r /\ pc[q] \in {"roster", "fanout"} /\ seq'[q] = seq[q]
    BY <1>3, <1>4 DEF Req
  <2>2. \A d \in DelReq : pc'[d] # "unsent" => seq'[d] # seq'[q]
    BY <1>3, <1>4, <1>5, <1>7, <2>1 DEF DInv, NotRelayedYet, Req
  <2>. QED
    BY <1>2, <2>1, <2>2 DEF DInv, NotRelayedYet
<1>9. DeletesExist'
  BY <1>2, <1>3, <1>4, <1>5, <1>6 DEF DInv, DeletesExist, Req
<1>10. AuthorAsked'
  BY <1>2, <1>3, <1>4 DEF DInv, AuthorAsked, SocketsOf, Req
<1>11. MessageBeforeDeleted'
  BY <1>2 DEF DInv, MessageBeforeDeleted
<1>. QED
  BY <1>8, <1>9, <1>10, <1>11 DEF DInv

\* Roster changes, closed sockets and a restart write no frame and no row.
LEMMA EnvironmentKeeps ==
  ASSUME IInv, DInv,
         \/ \E u \in User : AddMember(u) \/ RemoveMember(u)
         \/ \E s \in Socket : Close(s)
         \/ Restart
  PROVE  DInv'
<1>1. log' = log /\ inbox' = inbox /\ seq' = seq /\ ws' = ws
  BY DEF AddMember, RemoveMember, Close, Restart
<1>2. \A q \in Req : /\ pc'[q] # "unsent" <=> pc[q] # "unsent"
                     /\ pc'[q] \in {"roster", "fanout"} => pc[q] \in {"roster", "fanout"}
  BY DEF AddMember, RemoveMember, Close, Restart, Running
<1>3. Grown({})
  BY <1>1 DEF Grown
<1>. QED
  BY <1>1, <1>2, <1>3, RowsKept DEF Req

-----------------------------------------------------------------------------
(* Theorems *)

\* It holds of an empty conversation.
LEMMA InitDInv == Init => DInv
  BY DEF Init, DInv, NotRelayedYet, DeletesExist, AuthorAsked, MessageBeforeDeleted, Req

\* Every step of the server preserves it.
LEMMA NextDInv == IInv /\ DInv /\ [Next]_vars => DInv'
<1>. SUFFICES ASSUME IInv, DInv, [Next]_vars PROVE DInv'
  OBVIOUS
<1>1. ASSUME NEW r \in Req, NEW s \in Socket, Receive(r, s) PROVE DInv'
  BY <1>1, ReceiveKeeps
<1>2. ASSUME NEW r \in Req, CheckMember(r) \/ ReadMax(r) \/ ReadRoster(r) PROVE DInv'
  BY <1>2, QueryKeeps
<1>3. ASSUME NEW r \in Req, Insert(r) PROVE DInv'
  <2>1. CASE seq[r] \in DOMAIN log
    BY <1>3, <2>1, RefuseKeeps DEF Insert, Store, Running
  <2>2. CASE seq[r] \notin DOMAIN log
    BY <1>3, <2>2, InsertKeeps
  <2>. QED
    BY <2>1, <2>2
<1>4. ASSUME NEW r \in Req, BlankRow(r) PROVE DInv'
  <2>1. CASE Refuse(r)
    BY <1>4, <2>1, RefuseKeeps DEF BlankRow, Running
  <2>2. CASE ~ Refuse(r)
    BY <1>4, <2>2, BlankKeeps
  <2>. QED
    BY <2>1, <2>2
<1>5. ASSUME NEW r \in Req, Relay(r) PROVE DInv'
  BY <1>5, RelayKeeps
<1>6. ASSUME NEW r \in Req, RelayDeleted(r) PROVE DInv'
  BY <1>6, NoticeKeeps
<1>7. ASSUME NEW r \in Req, Fail(r) PROVE DInv'
  BY <1>7, RefuseKeeps DEF Fail
<1>8. CASE UNCHANGED vars
  BY <1>8 DEF vars, DInv, NotRelayedYet, DeletesExist, AuthorAsked, MessageBeforeDeleted, SocketsOf
<1>. QED
  BY <1>1, <1>2, <1>3, <1>4, <1>5, <1>6, <1>7, <1>8, EnvironmentKeeps DEF Next, Step

\* While a row is not relayed nothing is about it, whatever fails or restarts.
THEOREM DeleteInvariance == Spec => []DInv
<1>1. Spec => []IInv
  BY Invariance
<1>. QED
  BY <1>1, InitDInv, NextDInv, PTL DEF Spec

\* No socket is sent a message after the notice that it was deleted, for any number
\* of sends and deletes in flight (gateway.ts, the `send' and `delete' handlers).
THEOREM NoticeComesLast == Spec => []MessageBeforeDeleted
<1>1. DInv => MessageBeforeDeleted
  BY DEF DInv
<1>. QED
  BY <1>1, DeleteInvariance, PTL

\* A blank message was deleted by its author (repo.ts deleteMessage).
THEOREM AuthorDeletes == Spec => []DeletedByAuthor
<1>1. DInv => DeletedByAuthor
  BY DEF DInv, AuthorAsked, DeletedByAuthor
<1>. QED
  BY <1>1, DeleteInvariance, PTL

\* Readers are told `deleted' only of a message whose body is gone.
THEOREM NoticeIsTrue == Spec => []DeletedNoticeIsTrue
<1>1. DInv => DeletedNoticeIsTrue
  BY DEF DInv, DeletesExist, DeletedNoticeIsTrue
<1>. QED
  BY <1>1, DeleteInvariance, PTL

=============================================================================
