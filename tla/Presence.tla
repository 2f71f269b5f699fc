------------------------------ MODULE Presence ------------------------------
(***************************************************************************)
(* Who is connected: the chat gateway's socket registry, its heartbeat and *)
(* the presence frames it sends (apps/api/src/chat/gateway.ts).            *)
(*                                                                         *)
(* Four handlers interleave at their awaits: the connection handler of a  *)
(* socket, its `close' handler, and the handlers of the `active' and `sub' *)
(* frames.  The connection handler attaches the `message' and `close'      *)
(* listeners only after its last await: until then a frame or a close      *)
(* event of that socket is dropped.                                        *)
(*                                                                         *)
(* Every two users share a conversation here, so everybody is a peer of    *)
(* everybody else, and memberIds and conversationPeers name the same users.*)
(*                                                                         *)
(* Bounds: a socket connects once (a reconnect is another socket); it has  *)
(* at most one `active' and one `sub' frame being handled, and only the    *)
(* sockets of Movers and of Subscribers send them.  A closed socket is     *)
(* forgotten: nothing of it but what its handlers still do to others is    *)
(* kept.                                                                   *)
(***************************************************************************)
EXTENDS Naturals, Sequences

CONSTANTS
  User,
  Socket,
  UserOf,          \* the user each socket authenticates as
  Home,            \* the sockets connected when the model starts
  Movers,          \* the sockets whose client sends `active'
  Subscribers,     \* the sockets whose client sends `sub'
  MaxConnections   \* MAX_CONNECTIONS_PER_USER

ASSUME UserOfAssumption == UserOf \in [Socket -> User]
ASSUME HomeAssumption ==
  Home \subseteq Socket /\ \A s, t \in Home : UserOf[s] = UserOf[t] => s = t
ASSUME ClientAssumption == Movers \subseteq Socket /\ Subscribers \subseteq Socket
ASSUME MaxAssumption == MaxConnections \in Nat \ {0}

VARIABLES
  wire,      \* the connection: as the server's readyState, and whether the client is there
  pc,        \* the connection handler
  registry,  \* each user's sockets, oldest first
  away,      \* awayState
  pinged,    \* the sockets whose isAlive is false
  owed,      \* the ones whose client has been pinged and has not ponged
  bye,       \* the `close' handler
  act,       \* the `active' frame being handled
  asked,     \* the members the `sub' handler has still to answer about
  looked,    \* the one it found offline and whose last-seen time it awaits
  subbed,    \* sockets whose client has sent `sub'
  view,      \* what the client of each socket shows about each user
  left       \* history: users who have had no socket in the registry

vars == <<wire, pc, registry, away, pinged, owed, bye, act, asked, looked, subbed, view, left>>

\* "open": both ends are there; "dead": the client vanished without a close, the
\* server's readyState is still OPEN; "closing": no longer OPEN, the close event has
\* yet to fire; "closed": it has fired.
Wires == {"none", "open", "dead", "closing", "closed"}

Others(u) == User \ {u}
Sockets(u) == {registry[u][i] : i \in DOMAIN registry[u]}
Online(u) == registry[u] # << >>
StateOf(u) == IF away[u] THEN "away" ELSE "online"

\* readyState === OPEN
Open(s) == wire[s] \in {"open", "dead"}

\* What clients show once a presence frame about u has gone to the users in P.
Tell(P, u, state) ==
  [s \in Socket |->
    IF UserOf[s] \in P /\ s \in Sockets(UserOf[s]) /\ Open(s)
      THEN [view[s] EXCEPT ![u] = state]
      ELSE view[s]]

Init ==
  /\ wire = [s \in Socket |-> IF s \in Home THEN "open" ELSE "none"]
  /\ pc = [s \in Socket |-> IF s \in Home THEN "ready" ELSE "none"]
  /\ registry = [u \in User |->
       IF \E s \in Home : UserOf[s] = u
         THEN <<CHOOSE s \in Home : UserOf[s] = u>> ELSE << >>]
  /\ away = [u \in User |-> FALSE]
  /\ pinged = {} /\ owed = {}
  /\ bye = [s \in Socket |-> "none"]
  /\ act = [s \in Socket |-> "none"]
  /\ asked = [s \in Socket |-> {}]
  /\ looked = [s \in Socket |-> {}]
  /\ subbed = {}
  /\ view = [s \in Socket |-> [u \in User |->
       IF s \in Home /\ \E t \in Home : UserOf[t] = u THEN "online" ELSE "unknown"]]
  /\ left = {u \in User : \A s \in Home : UserOf[s] # u}

-----------------------------------------------------------------------------
(* The connection handler *)

\* Mutant of Connect: a socket counts as alive only once it has ponged.
ConnectNotAlive(s) ==
  /\ wire[s] = "none"
  /\ wire' = [wire EXCEPT ![s] = "open"]
  /\ pc' = [pc EXCEPT ![s] = "auth"]
  /\ pinged' = pinged \cup {s}
  /\ UNCHANGED <<registry, away, owed, bye, act, asked, looked, subbed, view, left>>

\* The upgrade succeeds; the handler awaits authenticate().
Connect(s) ==
  /\ wire[s] = "none"
  /\ wire' = [wire EXCEPT ![s] = "open"]
  /\ pc' = [pc EXCEPT ![s] = "auth"]
  /\ UNCHANGED <<registry, away, pinged, owed, bye, act, asked, looked, subbed, view, left>>

\* No session: close(1008).
Unauthorized(s) ==
  /\ pc[s] = "auth"
  /\ pc' = [pc EXCEPT ![s] = "refused"]
  /\ wire' = [wire EXCEPT ![s] = IF Open(s) THEN "closing" ELSE @]
  /\ UNCHANGED <<registry, away, pinged, owed, bye, act, asked, looked, subbed, view, left>>

\* The sockets of u that make room for one more: the oldest, down to the cap less one.
Excess(u) == IF Len(registry[u]) < MaxConnections THEN 0 ELSE Len(registry[u]) + 1 - MaxConnections
Evicted(u) == {registry[u][i] : i \in 1 .. Excess(u)}
Kept(u) == SubSeq(registry[u], Excess(u) + 1, Len(registry[u]))

\* Mutant of Register: the evicted sockets are closed but stay in the set.
RegisterKeepsEvicted(s) ==
  LET u == UserOf[s] IN
  /\ pc[s] = "auth"
  /\ pc' = [pc EXCEPT ![s] = "announce"]
  /\ registry' = [registry EXCEPT ![u] = Append(@, s)]
  /\ wire' = [t \in Socket |-> IF t \in Evicted(u) /\ Open(t) THEN "closing" ELSE wire[t]]
  /\ away' = [away EXCEPT ![u] = FALSE]
  /\ UNCHANGED <<pinged, owed, bye, act, asked, looked, subbed, view, left>>

\* authenticate() answers: evict at the cap, add, then await setLastSeen and
\* conversationPeers.  Nothing looks at whether the socket is still open.
Register(s) ==
  LET u == UserOf[s] IN
  /\ pc[s] = "auth"
  /\ pc' = [pc EXCEPT ![s] = "announce"]
  /\ registry' = [registry EXCEPT ![u] = Append(Kept(u), s)]
  /\ wire' = [t \in Socket |-> IF t \in Evicted(u) /\ Open(t) THEN "closing" ELSE wire[t]]
  /\ away' = [away EXCEPT ![u] = FALSE]
  /\ UNCHANGED <<pinged, owed, bye, act, asked, looked, subbed, view, left>>

\* The queries answer, or throw and are ignored; the listeners are attached.
Announce(s) ==
  LET u == UserOf[s] IN
  /\ pc[s] = "announce"
  /\ pc' = [pc EXCEPT ![s] = "ready"]
  /\ view' \in {Tell(Others(u), u, "online"), view}
  /\ UNCHANGED <<wire, registry, away, pinged, owed, bye, act, asked, looked, subbed, left>>

-----------------------------------------------------------------------------
(* The client's frames *)

\* `active': the state is set at once, the peers are told after a query.
Active(s, isAway) ==
  /\ s \in Movers /\ wire[s] = "open" /\ pc[s] = "ready" /\ act[s] = "none"
  /\ away' = [away EXCEPT ![UserOf[s]] = isAway]
  /\ act' = [act EXCEPT ![s] = IF isAway THEN "away" ELSE "online"]
  /\ UNCHANGED <<wire, pc, registry, pinged, owed, bye, asked, looked, subbed, view, left>>

TellActive(s) ==
  /\ act[s] # "none"
  /\ act' = [act EXCEPT ![s] = "none"]
  /\ view' = Tell(Others(UserOf[s]), UserOf[s], act[s])
  /\ UNCHANGED <<wire, pc, registry, away, pinged, owed, bye, asked, looked, subbed, left>>

\* The client sends `sub' as soon as its socket opens.  Without a listener it is dropped.
Sub(s) ==
  /\ s \in Subscribers /\ wire[s] = "open" /\ s \notin subbed
  /\ subbed' = subbed \cup {s}
  /\ asked' = [asked EXCEPT ![s] = IF pc[s] = "ready" THEN Others(UserOf[s]) ELSE {}]
  /\ UNCHANGED <<wire, pc, registry, away, pinged, owed, bye, act, looked, view, left>>

\* presenceOf(u) for a user who is connected: no await before the answer is sent.
AnswerOnline(s, u) ==
  /\ u \in asked[s] /\ looked[s] = {} /\ Online(u)
  /\ asked' = [asked EXCEPT ![s] = @ \ {u}]
  /\ view' = IF Open(s) THEN [view EXCEPT ![s][u] = StateOf(u)] ELSE view
  /\ UNCHANGED <<wire, pc, registry, away, pinged, owed, bye, act, looked, subbed, left>>

\* presenceOf(u) for one who is not: await getLastSeen, then say offline.
LookUp(s, u) ==
  /\ u \in asked[s] /\ looked[s] = {} /\ ~ Online(u)
  /\ looked' = [looked EXCEPT ![s] = {u}]
  /\ UNCHANGED <<wire, pc, registry, away, pinged, owed, bye, act, asked, subbed, view, left>>

AnswerOffline(s, u) ==
  /\ u \in looked[s]
  /\ asked' = [asked EXCEPT ![s] = @ \ {u}]
  /\ looked' = [looked EXCEPT ![s] = {}]
  /\ view' = IF Open(s) THEN [view EXCEPT ![s][u] = "offline"] ELSE view
  /\ UNCHANGED <<wire, pc, registry, away, pinged, owed, bye, act, subbed, left>>

-----------------------------------------------------------------------------
(* Disconnection *)

\* The client closes its tab, or drops off the network without a word.
Leave(s) ==
  /\ wire[s] = "open"
  /\ wire' \in {[wire EXCEPT ![s] = "closing"], [wire EXCEPT ![s] = "dead"]}
  /\ UNCHANGED <<pc, registry, away, pinged, owed, bye, act, asked, looked, subbed, view, left>>

\* A client that is there answers the ping.
Pong(s) ==
  /\ wire[s] = "open" /\ s \in owed
  /\ pinged' = pinged \ {s} /\ owed' = owed \ {s}
  /\ UNCHANGED <<wire, pc, registry, away, bye, act, asked, looked, subbed, view, left>>

\* Mutant of Heartbeat: it pings without clearing isAlive.
HeartbeatForgets ==
  /\ \A s \in Socket : wire[s] = "open" => s \notin owed
  /\ wire' = [s \in Socket |-> IF Open(s) /\ s \in pinged THEN "closing" ELSE wire[s]]
  /\ owed' = owed \cup {s \in Socket : Open(s)'}
  /\ UNCHANGED <<pc, registry, away, pinged, bye, act, asked, looked, subbed, view, left>>

\* Every 30 seconds: terminate who has not ponged since the last ping, ping the rest.
\* The first conjunct is the timing it relies on: a pong takes less than 30 seconds.
Heartbeat ==
  /\ \A s \in Socket : wire[s] = "open" => s \notin owed
  /\ wire' = [s \in Socket |-> IF Open(s) /\ s \in pinged THEN "closing" ELSE wire[s]]
  /\ pinged' = pinged \cup {s \in Socket : Open(s)}
  /\ owed' = owed \cup {s \in Socket : Open(s)}
  /\ UNCHANGED <<pc, registry, away, bye, act, asked, looked, subbed, view, left>>

\* The registry entry q without s.
Without(q, s) ==
  IF \E i \in DOMAIN q : q[i] = s
    THEN LET i == CHOOSE i \in DOMAIN q : q[i] = s
         IN [n \in 1 .. Len(q) - 1 |-> IF n < i THEN q[n] ELSE q[n + 1]]
    ELSE q

\* The connection is gone: what was kept for it reaches nobody any more.
Forget(s) ==
  /\ pinged' = pinged \ {s} /\ owed' = owed \ {s}
  /\ subbed' = subbed \ {s}
  /\ asked' = [asked EXCEPT ![s] = {}]
  /\ looked' = [looked EXCEPT ![s] = {}]
  /\ view' = [view EXCEPT ![s] = [u \in User |-> "unknown"]]
  /\ UNCHANGED <<pc, away, act>>

\* Mutant of CloseEvent: the user's whole entry is dropped with the first socket.
CloseEventDropsUser(s) ==
  LET u == UserOf[s] IN
  /\ wire[s] = "closing"
  /\ wire' = [wire EXCEPT ![s] = "closed"]
  /\ registry' = IF pc[s] = "ready" THEN [registry EXCEPT ![u] = << >>] ELSE registry
  /\ bye' = [bye EXCEPT ![s] = IF pc[s] = "ready" THEN "seen" ELSE @]
  /\ left' = left \cup {v \in User : registry'[v] = << >>}
  /\ Forget(s)

\* Mutant of CloseEvent: the peers are told although another socket of the user is left.
CloseEventAlwaysTells(s) ==
  LET u == UserOf[s] IN
  /\ wire[s] = "closing"
  /\ wire' = [wire EXCEPT ![s] = "closed"]
  /\ registry' = IF pc[s] = "ready"
       THEN [registry EXCEPT ![u] = Without(@, s)] ELSE registry
  /\ bye' = [bye EXCEPT ![s] = IF pc[s] = "ready" THEN "seen" ELSE @]
  /\ left' = left \cup {v \in User : registry'[v] = << >>}
  /\ Forget(s)

\* The close event.  With a listener: the socket leaves the registry, and if it was the
\* user's last one the handler goes on to setLastSeen.
CloseEvent(s) ==
  LET u == UserOf[s] IN
  /\ wire[s] = "closing"
  /\ wire' = [wire EXCEPT ![s] = "closed"]
  /\ registry' = IF pc[s] = "ready"
       THEN [registry EXCEPT ![u] = Without(@, s)] ELSE registry
  /\ bye' = [bye EXCEPT ![s] = IF pc[s] = "ready" /\ registry'[u] = << >> THEN "seen" ELSE @]
  /\ left' = left \cup {v \in User : registry'[v] = << >>}
  /\ Forget(s)

\* getLastSeen has answered: awayState.delete, then await conversationPeers.
ForgetAway(s) ==
  /\ bye[s] = "seen"
  /\ bye' = [bye EXCEPT ![s] = "peers"]
  /\ away' = [away EXCEPT ![UserOf[s]] = FALSE]
  /\ UNCHANGED <<wire, pc, registry, pinged, owed, act, asked, looked, subbed, view, left>>

\* The peers are told `offline'; nothing looks again at whether the user is.
TellOffline(s) ==
  /\ bye[s] = "peers"
  /\ bye' = [bye EXCEPT ![s] = "none"]
  /\ view' = Tell(Others(UserOf[s]), UserOf[s], "offline")
  /\ UNCHANGED <<wire, pc, registry, away, pinged, owed, act, asked, looked, subbed, left>>

\* A query of a `close', `active' or `sub' handler throws: the handler ends there.
Abandon(s) ==
  /\ bye[s] # "none" \/ act[s] # "none" \/ asked[s] # {}
  /\ \/ bye' = [bye EXCEPT ![s] = "none"] /\ UNCHANGED <<act, asked, looked>>
     \/ act' = [act EXCEPT ![s] = "none"] /\ UNCHANGED <<bye, asked, looked>>
     \/ /\ asked' = [asked EXCEPT ![s] = {}] /\ looked' = [looked EXCEPT ![s] = {}]
        /\ UNCHANGED <<bye, act>>
  /\ UNCHANGED <<wire, pc, registry, away, pinged, owed, subbed, view, left>>

\* What Node does without being asked: resume a handler, fire an event.
Resume(s) ==
  \/ Register(s) \/ Announce(s) \/ TellActive(s)
  \/ \E u \in User : AnswerOnline(s, u) \/ LookUp(s, u) \/ AnswerOffline(s, u)
  \/ CloseEvent(s) \/ ForgetAway(s) \/ TellOffline(s)

Next ==
  \/ \E s \in Socket :
       \/ Connect(s) \/ Unauthorized(s) \/ Sub(s) \/ Leave(s) \/ Pong(s)
       \/ \E b \in BOOLEAN : Active(s, b)
       \/ Resume(s) \/ Abandon(s)
  \/ Heartbeat

Spec == Init /\ [][Next]_vars

\* Handlers are resumed, timers fire, and clients that are there pong.
FairSpec ==
  /\ Spec
  /\ \A s \in Socket : WF_vars(Resume(s)) /\ WF_vars(Pong(s))
  /\ WF_vars(Heartbeat)

-----------------------------------------------------------------------------
(* Properties *)

TypeOK ==
  /\ wire \in [Socket -> Wires]
  /\ pc \in [Socket -> {"none", "auth", "announce", "ready", "refused"}]
  /\ registry \in [User -> Seq(Socket)]
  /\ away \in [User -> BOOLEAN]
  /\ pinged \subseteq Socket /\ owed \subseteq Socket
  /\ bye \in [Socket -> {"none", "seen", "peers"}]
  /\ act \in [Socket -> {"none", "online", "away"}]
  /\ asked \in [Socket -> SUBSET User]
  /\ looked \in [Socket -> SUBSET User]
  /\ subbed \subseteq Socket
  /\ view \in [Socket -> [User -> {"unknown", "online", "away", "offline"}]]
  /\ left \subseteq User

\* However the connection and close handlers of a user's devices interleave: no more than
\* MaxConnections sockets are registered, none of them twice, and a socket that is past
\* authentication and still open is one of them, so that neither the eviction nor the
\* close of another device makes it deaf to what is sent to its user.
RegistryIsSound ==
  /\ \A u \in User : /\ Len(registry[u]) <= MaxConnections
                     /\ \A i, j \in DOMAIN registry[u] : registry[u][i] = registry[u][j] => i = j
  /\ \A s \in Socket : Open(s) /\ pc[s] \in {"announce", "ready"} => s \in Sockets(UserOf[s])

\* A user who has had a device connected all along is never shown offline, although
\* other devices come and go.
OfflineOnlyAfterLeaving ==
  \A s \in Socket, u \in User : view[s][u] = "offline" => u \in left

\* The heartbeat never ends a connection whose client is there.
HeartbeatSparesTheLiving ==
  [][Heartbeat => \A s \in Socket : wire[s] = "open" => wire'[s] = "open"]_vars

\* A connection whose client vanished without closing leaves the registry.
DeadLeave ==
  \A s \in Socket : (wire[s] = "dead" /\ pc[s] = "ready") ~> (s \notin Sockets(UserOf[s]))

\* "It answers every sub frame with the current state of that conversation's other
\* members" (docs/architecture.md:122): a client that has subscribed, and stays
\* connected, gets to know something about everybody else.
SubAnswered ==
  \A s \in Socket : \A u \in Others(UserOf[s]) :
    (s \in subbed /\ wire[s] = "open") ~> (wire[s] # "open" \/ view[s][u] # "unknown")

=============================================================================
