------------------------------ MODULE MCServer ------------------------------
(* What the server's timers and handlers do in the end: the gateway's        *)
(* sockets (Presence) and the stored blobs (Blobs).  The two share no state, *)
(* so their interleavings add nothing: in each behaviour one of them runs    *)
(* and the other rests.                                                      *)
EXTENDS Presence

CONSTANTS alice, bob, a1, a2, b1, x, p, m
CONSTANTS Blob, Picture, Message, Nothing, Quota, MaxFaults

VARIABLES upload, objects, rows, link, old, sent, deleted, job, image, save, faults, peak, replaced, disowned, leaked
VARIABLE turn \* the part that runs

\* Alice has two devices, Bob one; Alice uploads and sends everything, and her message names x.
\* Nobody saves a profile.
MCUserOf == [s \in Socket |-> IF s = b1 THEN bob ELSE alice]
MCOwner == [b \in Blob |-> alice]
MCSender == [i \in Message |-> alice]
MCCarries == [i \in Message |-> {x}]

Store == INSTANCE Blobs WITH Owner <- MCOwner, Sender <- MCSender, Carries <- MCCarries, Save <- {}, Saver <- << >>

blobVars == <<upload, objects, rows, link, old, sent, deleted, job, image, save, faults, peak, replaced, disowned, leaked>>

ServerInit == Init /\ Store!Init /\ turn \in {"gateway", "store"}

GatewayTurn == turn = "gateway"
GatewayOnly == UNCHANGED <<turn, blobVars>>
StoreTurn == turn = "store"
StoreOnly == UNCHANGED <<turn, vars>>

ServerNext ==
  \/ \E s \in Socket :
       \/ GatewayTurn /\ Connect(s) /\ GatewayOnly
       \/ GatewayTurn /\ Unauthorized(s) /\ GatewayOnly
       \/ GatewayTurn /\ Register(s) /\ GatewayOnly
       \/ GatewayTurn /\ Announce(s) /\ GatewayOnly
       \/ GatewayTurn /\ Sub(s) /\ GatewayOnly
       \/ GatewayTurn /\ Leave(s) /\ GatewayOnly
       \/ GatewayTurn /\ Pong(s) /\ GatewayOnly
       \/ \E b \in BOOLEAN : GatewayTurn /\ Active(s, b) /\ GatewayOnly
       \/ GatewayTurn /\ TellActive(s) /\ GatewayOnly
       \/ \E u \in User : \/ GatewayTurn /\ AnswerOnline(s, u) /\ GatewayOnly
                          \/ GatewayTurn /\ LookUp(s, u) /\ GatewayOnly
                          \/ GatewayTurn /\ AnswerOffline(s, u) /\ GatewayOnly
       \/ GatewayTurn /\ CloseEvent(s) /\ GatewayOnly
       \/ GatewayTurn /\ ForgetAway(s) /\ GatewayOnly
       \/ GatewayTurn /\ TellOffline(s) /\ GatewayOnly
       \/ GatewayTurn /\ Abandon(s) /\ GatewayOnly
  \/ GatewayTurn /\ Heartbeat /\ GatewayOnly
  \/ \E b \in Blob :
       \/ StoreTurn /\ Store!CheckQuota(b) /\ StoreOnly
       \/ StoreTurn /\ Store!Put(b) /\ StoreOnly
       \/ StoreTurn /\ Store!Create(b) /\ StoreOnly
       \/ StoreTurn /\ Store!Undo(b) /\ StoreOnly
       \/ StoreTurn /\ Store!Age(b) /\ StoreOnly
       \/ StoreTurn /\ Store!DeleteBlob(b) /\ StoreOnly
  \/ \E i \in Message :
       \/ StoreTurn /\ Store!Send(i) /\ StoreOnly
       \/ StoreTurn /\ Store!Link(i) /\ StoreOnly
       \/ StoreTurn /\ Store!DeleteMessage(i) /\ StoreOnly
       \/ StoreTurn /\ Store!ListForMessage(i) /\ StoreOnly
  \/ \E j \in Store!Job : \/ StoreTurn /\ Store!DropRow(j) /\ StoreOnly
                          \/ \E b \in Blob : StoreTurn /\ Store!DropObject(j, b) /\ StoreOnly
  \/ StoreTurn /\ Store!Sweep /\ StoreOnly
  \/ StoreTurn /\ Store!Restart /\ StoreOnly

serverVars == <<turn, vars, blobVars>>

\* The fairness of Presence's FairSpec and of Blobs'.
ServerSpec ==
  /\ ServerInit /\ [][ServerNext]_serverVars
  /\ \A s \in Socket : WF_serverVars(GatewayTurn /\ Resume(s) /\ GatewayOnly) /\ WF_serverVars(GatewayTurn /\ Pong(s) /\ GatewayOnly)
  /\ WF_serverVars(GatewayTurn /\ Heartbeat /\ GatewayOnly)
  /\ \A i \in Message : WF_serverVars(StoreTurn /\ Store!Link(i) /\ StoreOnly) /\ WF_serverVars(StoreTurn /\ Store!ListForMessage(i) /\ StoreOnly)
  /\ \A j \in Store!Job : WF_serverVars(StoreTurn /\ Store!Remove(j) /\ StoreOnly)
  /\ WF_serverVars(StoreTurn /\ Store!Sweep /\ StoreOnly)

\* An abandoned upload is reclaimed: Blobs has the statement.
AbandonedReclaimed == Store!AbandonedReclaimed
=============================================================================
