--------------------------- MODULE PresenceProofs ---------------------------
(***************************************************************************)
(* Proofs about Presence for every set of users and sockets and every cap: *)
(* the registry is sound, the heartbeat spares the living, and nobody who  *)
(* has been connected all along is shown offline.                          *)
(***************************************************************************)
EXTENDS Presence, SequenceTheorems, TLAPS

Distinct(q) == \A i, j \in DOMAIN q : q[i] = q[j] => i = j
Elements(q) == {q[i] : i \in DOMAIN q}

\* Who is in the registry has been registered for its user, and a socket that has not
\* connected has no handler and no ping.
Registered ==
  /\ \A u \in User : \A s \in Sockets(u) : UserOf[s] = u /\ pc[s] \in {"announce", "ready"}
  /\ \A s \in Socket : wire[s] = "none" => pc[s] = "none" /\ s \notin pinged

\* A client that is there and counts as silent has been pinged since.
SilentIsOwed == \A s \in Socket : wire[s] = "open" /\ s \in pinged => s \in owed

\* Whoever is said, or about to be said, to be offline has once had no socket.
OfflineHasLeft ==
  /\ \A u \in User : registry[u] = << >> => u \in left
  /\ \A s \in Socket : bye[s] # "none" => UserOf[s] \in left
  /\ \A s \in Socket : looked[s] \subseteq left
  /\ OfflineOnlyAfterLeaving

IInv == TypeOK /\ RegistryIsSound /\ Registered /\ SilentIsOwed /\ OfflineHasLeft

-----------------------------------------------------------------------------
(* Lemmas about the registry's operators *)

\* Removing the first n sockets leaves the others, in their order.
LEMMA SuffixKeeps ==
  ASSUME NEW S, NEW q \in Seq(S), NEW n \in 0 .. Len(q), Distinct(q)
  PROVE  LET k == SubSeq(q, n + 1, Len(q)) IN
         /\ k \in Seq(S) /\ Len(k) = Len(q) - n
         /\ Distinct(k)
         /\ Elements(k) \subseteq Elements(q)
         /\ \A i \in DOMAIN q : i > n => q[i] \in Elements(k)
<1> DEFINE k == SubSeq(q, n + 1, Len(q))
<1>1. DOMAIN q = 1 .. Len(q) /\ Len(q) \in Nat /\ n \in Nat
  OBVIOUS
<1>2. /\ k \in Seq(S) /\ Len(k) = Len(q) - n /\ DOMAIN k = 1 .. Len(q) - n
      /\ \A i \in DOMAIN k : k[i] = q[n + i]
  <2>1. k = [i \in 1 .. Len(q) - n |-> q[n + i]]
    BY <1>1
  <2> HIDE DEF k
  <2>2. k \in [1 .. Len(q) - n -> S] /\ Len(q) - n \in Nat
    BY <1>1, <2>1
  <2>. QED
    BY <2>1, <2>2
<1> HIDE DEF k
<1>3. Distinct(k)
  BY <1>1, <1>2 DEF Distinct
<1>4. Elements(k) \subseteq Elements(q)
  <2>1. \A i \in DOMAIN k : n + i \in DOMAIN q
    BY <1>1, <1>2
  <2>. QED
    BY <1>2, <2>1 DEF Elements
<1>5. ASSUME NEW i \in DOMAIN q, i > n PROVE q[i] \in Elements(k)
  <2>1. i - n \in DOMAIN k /\ k[i - n] = q[n + (i - n)]
    BY <1>1, <1>2, <1>5
  <2>. QED
    BY <2>1, <1>5, <1>1 DEF Elements
<1>. QED
  BY <1>2, <1>3, <1>4, <1>5 DEF k

\* Adding a socket that is not there.
LEMMA AppendKeeps ==
  ASSUME NEW S, NEW q \in Seq(S), NEW s \in S, Distinct(q), s \notin Elements(q)
  PROVE  LET k == Append(q, s) IN
         /\ k \in Seq(S) /\ Len(k) = Len(q) + 1 /\ k # << >>
         /\ Distinct(k)
         /\ Elements(k) = Elements(q) \cup {s}
<1> DEFINE k == Append(q, s)
<1>1. k \in Seq(S) /\ Len(k) = Len(q) + 1 /\ DOMAIN k = 1 .. Len(q) + 1 /\ DOMAIN q = 1 .. Len(q)
  OBVIOUS
<1>2. k[Len(q) + 1] = s /\ \A i \in DOMAIN q : k[i] = q[i]
  OBVIOUS
<1> HIDE DEF k
<1>3. Distinct(k)
  BY <1>1, <1>2 DEF Distinct, Elements
<1>4. Elements(k) = Elements(q) \cup {s}
  BY <1>1, <1>2 DEF Elements
<1>5. k # << >>
  BY <1>1
<1>. QED
  BY <1>1, <1>3, <1>4, <1>5 DEF k

\* Without(q, s) has the same sockets but s.
LEMMA WithoutRemoves ==
  ASSUME NEW S, NEW q \in Seq(S), NEW s, Distinct(q)
  PROVE  LET k == Without(q, s) IN
         /\ k \in Seq(S) /\ Len(k) <= Len(q)
         /\ Distinct(k)
         /\ Elements(k) = Elements(q) \ {s}
<1> DEFINE k == Without(q, s)
<1>1. CASE ~ \E i \in DOMAIN q : q[i] = s
  BY <1>1 DEF Without, Elements
<1>2. CASE \E i \in DOMAIN q : q[i] = s
  <2> DEFINE i == CHOOSE i \in DOMAIN q : q[i] = s
  <2>1. i \in 1 .. Len(q) /\ q[i] = s /\ DOMAIN q = 1 .. Len(q) /\ Len(q) \in Nat
    BY <1>2
  <2>2. k = [n \in 1 .. Len(q) - 1 |-> IF n < i THEN q[n] ELSE q[n + 1]]
    BY <1>2 DEF Without
  <2> HIDE DEF i, k
  <2>3. \A n \in 1 .. Len(q) - 1 : (IF n < i THEN q[n] ELSE q[n + 1]) \in S
    BY <2>1
  <2>4. k \in Seq(S) /\ Len(k) = Len(q) - 1 /\ DOMAIN k = 1 .. Len(q) - 1
    <3>1. k \in [1 .. Len(q) - 1 -> S] /\ Len(q) - 1 \in Nat
      BY <2>1, <2>2, <2>3
    <3>. QED
      BY <3>1
  <2>7. \A n \in DOMAIN k : k[n] = IF n < i THEN q[n] ELSE q[n + 1]
    BY <2>2, <2>4
  <2>8. Distinct(k)
    BY <2>1, <2>4, <2>7 DEF Distinct
  <2>9. Elements(k) \subseteq Elements(q) \ {s}
    BY <2>1, <2>4, <2>7 DEF Distinct, Elements
  <2>10. ASSUME NEW n \in DOMAIN q, q[n] # s PROVE q[n] \in Elements(k)
    <3>1. CASE n < i
      BY <3>1, <2>1, <2>4, <2>7 DEF Elements
    <3>2. CASE n > i
      <4>1. n - 1 \in DOMAIN k /\ ~ (n - 1 < i) /\ (n - 1) + 1 = n
        BY <3>2, <2>1, <2>4
      <4>. QED
        BY <4>1, <2>7 DEF Elements
    <3>. QED
      BY <3>1, <3>2, <2>1, <2>10
  <2>11. Elements(k) = Elements(q) \ {s}
    BY <2>9, <2>10 DEF Elements
  <2>12. Len(k) <= Len(q)
    BY <2>1, <2>4
  <2>. QED
    BY <2>4, <2>8, <2>11, <2>12 DEF k
<1>. QED
  BY <1>1, <1>2

-----------------------------------------------------------------------------
(* The invariant holds initially *)

LEMMA Initially == Init => IInv
<1> SUFFICES ASSUME Init PROVE IInv
  OBVIOUS
<1> USE UserOfAssumption, HomeAssumption, MaxAssumption
<1>1. ASSUME NEW u \in User
      PROVE  /\ registry[u] \in Seq(Socket) /\ Len(registry[u]) <= 1 /\ Distinct(registry[u])
             /\ \A s \in Socket : s \in Sockets(u) <=> s \in Home /\ UserOf[s] = u
             /\ Sockets(u) \subseteq Socket
             /\ registry[u] = << >> => u \in left
  <2>1. CASE \E s \in Home : UserOf[s] = u
    <3> DEFINE h == CHOOSE s \in Home : UserOf[s] = u
    <3>1. h \in Home /\ UserOf[h] = u /\ h \in Socket /\ registry[u] = <<h>>
      BY <2>1 DEF Init
    <3> HIDE DEF h
    <3>2. DOMAIN registry[u] = {1} /\ registry[u][1] = h /\ Len(registry[u]) = 1 /\ registry[u] \in Seq(Socket)
      BY <3>1
    <3>3. Sockets(u) = {h}
      BY <3>2 DEF Sockets
    <3>4. \A s \in Socket : s = h <=> s \in Home /\ UserOf[s] = u
      BY <3>1
    <3>5. registry[u] # << >>
      BY <3>2
    <3>. QED
      BY <3>1, <3>2, <3>3, <3>4, <3>5 DEF Distinct
  <2>2. CASE ~ \E s \in Home : UserOf[s] = u
    <3>1. registry[u] = << >> /\ u \in left
      BY <2>2 DEF Init
    <3>2. Sockets(u) = {} /\ registry[u] \in Seq(Socket) /\ Len(registry[u]) = 0 /\ Distinct(registry[u])
      BY <3>1 DEF Sockets, Distinct
    <3>. QED
      BY <2>2, <3>1, <3>2
  <2>. QED
    BY <2>1, <2>2
<1>2. TypeOK
  BY <1>1 DEF Init, TypeOK, Wires
<1>3. RegistryIsSound
  BY <1>1 DEF RegistryIsSound, Distinct, Init, Open
<1>4. Registered
  BY <1>1 DEF Registered, Init
<1>5. SilentIsOwed
  BY DEF SilentIsOwed, Init
<1>6. OfflineHasLeft
  BY <1>1 DEF OfflineHasLeft, OfflineOnlyAfterLeaving, Init
<1>. QED
  BY <1>2, <1>3, <1>4, <1>5, <1>6 DEF IInv

-----------------------------------------------------------------------------
(* Each step keeps it *)

\* The frames of a client, and the later parts of the handlers: they leave the sockets
\* and the registry alone.
LEMMA FrameStep ==
  ASSUME IInv, NEW s \in Socket,
         \/ \E b \in BOOLEAN : Active(s, b)
         \/ TellActive(s) \/ Sub(s)
         \/ \E u \in User : AnswerOnline(s, u) \/ LookUp(s, u) \/ AnswerOffline(s, u)
         \/ ForgetAway(s) \/ TellOffline(s) \/ Abandon(s)
  PROVE  IInv'
<1> USE UserOfAssumption
<1>1. UNCHANGED <<wire, pc, registry, pinged, owed, left>>
  BY DEF Active, TellActive, Sub, AnswerOnline, LookUp, AnswerOffline, ForgetAway, TellOffline, Abandon
<1>2. RegistryIsSound' /\ Registered' /\ SilentIsOwed'
  BY <1>1 DEF IInv, RegistryIsSound, Registered, SilentIsOwed, Sockets, Open
<1>3. (\A u \in User : registry[u] = << >> => u \in left)'
  BY <1>1 DEF IInv, OfflineHasLeft
<1>4. ASSUME NEW b \in BOOLEAN, Active(s, b)
      PROVE  IInv'
  <2>1. TypeOK'
    BY <1>1, <1>4 DEF IInv, TypeOK, Active
  <2>2. OfflineHasLeft'
    BY <1>4, <1>1, <1>3 DEF IInv, OfflineHasLeft, OfflineOnlyAfterLeaving, Active
  <2>. QED
    BY <1>2, <2>1, <2>2 DEF IInv
<1>10. CASE Sub(s)
  <2>1. TypeOK'
    BY <1>1, <1>10 DEF IInv, TypeOK, Sub, Others
  <2>2. OfflineHasLeft'
    BY <1>10, <1>1, <1>3 DEF IInv, OfflineHasLeft, OfflineOnlyAfterLeaving, Sub
  <2>. QED
    BY <1>2, <2>1, <2>2 DEF IInv
<1>11. CASE ForgetAway(s)
  <2>1. TypeOK'
    BY <1>1, <1>11 DEF IInv, TypeOK, ForgetAway
  <2>2. OfflineHasLeft'
    BY <1>11, <1>1, <1>3 DEF IInv, TypeOK, OfflineHasLeft, OfflineOnlyAfterLeaving, ForgetAway
  <2>. QED
    BY <1>2, <2>1, <2>2 DEF IInv
<1>5. ASSUME NEW state \in {"online", "away", "offline"}, NEW u \in User,
             view' = Tell(Others(u), u, state), state = "offline" => u \in left
      PROVE  /\ view' \in [Socket -> [User -> {"unknown", "online", "away", "offline"}]]
             /\ OfflineOnlyAfterLeaving'
  <2>1. view' \in [Socket -> [User -> {"unknown", "online", "away", "offline"}]]
    BY <1>5 DEF Tell, IInv, TypeOK
  <2>2. \A t \in Socket, v \in User : view'[t][v] = view[t][v] \/ (v = u /\ view'[t][v] = state)
    BY <1>5 DEF Tell, IInv, TypeOK
  <2>. QED
    BY <1>1, <1>5, <2>1, <2>2 DEF IInv, OfflineHasLeft, OfflineOnlyAfterLeaving
<1>6. CASE TellActive(s)
  <2>1. act[s] \in {"online", "away"} /\ UserOf[s] \in User
    BY <1>6 DEF TellActive, IInv, TypeOK
  <2>2. view' = Tell(Others(UserOf[s]), UserOf[s], act[s])
    BY <1>6 DEF TellActive
  <2>3. /\ view' \in [Socket -> [User -> {"unknown", "online", "away", "offline"}]]
        /\ OfflineOnlyAfterLeaving'
    BY <2>1, <2>2, <1>5
  <2>4. TypeOK' /\ OfflineHasLeft'
    BY <1>1, <1>6, <2>3, <1>3 DEF TellActive, IInv, TypeOK, OfflineHasLeft
  <2>. QED
    BY <1>2, <2>4 DEF IInv
<1>7. CASE TellOffline(s)
  <2>1. UserOf[s] \in User /\ UserOf[s] \in left
    BY <1>7 DEF TellOffline, IInv, TypeOK, OfflineHasLeft
  <2>2. view' = Tell(Others(UserOf[s]), UserOf[s], "offline")
    BY <1>7 DEF TellOffline
  <2>3. /\ view' \in [Socket -> [User -> {"unknown", "online", "away", "offline"}]]
        /\ OfflineOnlyAfterLeaving'
    BY <2>1, <2>2, <1>5
  <2>4. TypeOK' /\ OfflineHasLeft'
    BY <1>1, <1>7, <2>3, <1>3 DEF TellOffline, IInv, TypeOK, OfflineHasLeft
  <2>. QED
    BY <1>2, <2>4 DEF IInv
<1>8. CASE Abandon(s)
  BY <1>1, <1>2, <1>3, <1>8 DEF Abandon, IInv, TypeOK, OfflineHasLeft, OfflineOnlyAfterLeaving
<1>9. ASSUME NEW u \in User, AnswerOnline(s, u)
      PROVE  IInv'
  <2>1. StateOf(u) \in {"online", "away"}
    BY DEF StateOf
  <2>2. /\ view' \in [Socket -> [User -> {"unknown", "online", "away", "offline"}]]
        /\ \A t \in Socket, v \in User : view'[t][v] = "offline" => view[t][v] = "offline"
    BY <1>9, <2>1 DEF AnswerOnline, IInv, TypeOK
  <2>3. TypeOK' /\ OfflineHasLeft'
    BY <1>1, <1>3, <1>9, <2>2 DEF AnswerOnline, IInv, TypeOK, OfflineHasLeft, OfflineOnlyAfterLeaving
  <2>. QED
    BY <1>2, <2>3 DEF IInv
<1>12. ASSUME NEW u \in User, LookUp(s, u)
      PROVE  IInv'
  <2>1. u \in left
    BY <1>12 DEF LookUp, Online, IInv, OfflineHasLeft
  <2>2. TypeOK' /\ OfflineHasLeft'
    BY <1>1, <1>3, <1>12, <2>1 DEF LookUp, IInv, TypeOK, OfflineHasLeft, OfflineOnlyAfterLeaving
  <2>. QED
    BY <1>2, <2>2 DEF IInv
<1>13. ASSUME NEW u \in User, AnswerOffline(s, u)
      PROVE  IInv'
  <2>1. u \in left
    BY <1>13 DEF AnswerOffline, IInv, OfflineHasLeft
  <2>2. /\ view' \in [Socket -> [User -> {"unknown", "online", "away", "offline"}]]
        /\ \A t \in Socket, v \in User : view'[t][v] = view[t][v] \/ v = u
    BY <1>13 DEF AnswerOffline, IInv, TypeOK
  <2>3. TypeOK' /\ OfflineHasLeft'
    BY <1>1, <1>3, <1>13, <2>1, <2>2 DEF AnswerOffline, IInv, TypeOK, OfflineHasLeft, OfflineOnlyAfterLeaving
  <2>. QED
    BY <1>2, <2>3 DEF IInv
<1>. QED
  BY <1>4, <1>6, <1>7, <1>8, <1>9, <1>10, <1>11, <1>12, <1>13

\* A socket's own steps that leave the registry alone.
LEMMA SocketStep ==
  ASSUME IInv, NEW s \in Socket,
         Connect(s) \/ Unauthorized(s) \/ Announce(s) \/ Leave(s) \/ Pong(s)
  PROVE  IInv'
<1> USE UserOfAssumption
<1>1. UNCHANGED <<registry, away, bye, act, asked, looked, left>>
  BY DEF Connect, Unauthorized, Announce, Leave, Pong
<1>2. \A u \in User : Sockets(u)' = Sockets(u)
  BY <1>1 DEF Sockets
<1>3. (\A u \in User : /\ Len(registry[u]) <= MaxConnections
                      /\ \A i, j \in DOMAIN registry[u] : registry[u][i] = registry[u][j] => i = j)'
  BY <1>1 DEF IInv, RegistryIsSound
<1>4. view' = view => OfflineHasLeft'
  BY <1>1 DEF IInv, OfflineHasLeft, OfflineOnlyAfterLeaving
<1>5. \A u \in User : \A t \in Sockets(u) : t \in Socket
  BY DEF IInv, TypeOK, Sockets
<1>6. CASE Connect(s)
  <2>1. TypeOK'
    BY <1>1, <1>6 DEF Connect, IInv, TypeOK, Wires
  <2>2. RegistryIsSound'
    BY <1>2, <1>3, <1>6 DEF Connect, IInv, TypeOK, RegistryIsSound, Open
  <2>3. Registered'
    BY <1>2, <1>5, <1>6 DEF Connect, IInv, TypeOK, Registered
  <2>4. SilentIsOwed'
    BY <1>6 DEF Connect, IInv, TypeOK, Registered, SilentIsOwed
  <2>. QED
    BY <2>1, <2>2, <2>3, <2>4, <1>4, <1>6 DEF Connect, IInv
<1>7. CASE Unauthorized(s)
  <2>1. TypeOK'
    BY <1>1, <1>7 DEF Unauthorized, IInv, TypeOK, Wires
  <2>2. RegistryIsSound'
    BY <1>2, <1>3, <1>7 DEF Unauthorized, IInv, TypeOK, RegistryIsSound, Open
  <2>3. Registered'
    BY <1>2, <1>5, <1>7 DEF Unauthorized, IInv, TypeOK, Registered, Open
  <2>4. SilentIsOwed'
    BY <1>7 DEF Unauthorized, IInv, TypeOK, SilentIsOwed, Open
  <2>. QED
    BY <2>1, <2>2, <2>3, <2>4, <1>4, <1>7 DEF Unauthorized, IInv
<1>8. CASE Announce(s)
  <2>1. /\ view' \in [Socket -> [User -> {"unknown", "online", "away", "offline"}]]
        /\ \A t \in Socket, v \in User : view'[t][v] = view[t][v] \/ view'[t][v] = "online"
    <3>1. CASE view' = view
      BY <3>1 DEF IInv, TypeOK
    <3>2. CASE view' = Tell(Others(UserOf[s]), UserOf[s], "online")
      BY <3>2 DEF Tell, IInv, TypeOK
    <3>. QED
      BY <1>8, <3>1, <3>2 DEF Announce
  <2>2. TypeOK' /\ OfflineHasLeft'
    BY <1>1, <1>8, <2>1 DEF Announce, IInv, TypeOK, OfflineHasLeft, OfflineOnlyAfterLeaving
  <2>3. RegistryIsSound'
    BY <1>2, <1>3, <1>8 DEF Announce, IInv, TypeOK, RegistryIsSound, Open
  <2>4. Registered' /\ SilentIsOwed'
    BY <1>2, <1>5, <1>8 DEF Announce, IInv, TypeOK, Registered, SilentIsOwed
  <2>. QED
    BY <2>2, <2>3, <2>4 DEF IInv
<1>9. CASE Leave(s)
  <2>1. /\ wire' \in [Socket -> Wires] /\ wire[s] = "open" /\ wire'[s] \in {"closing", "dead"}
        /\ \A t \in Socket : t # s => wire'[t] = wire[t]
    BY <1>9 DEF Leave, IInv, TypeOK, Wires
  <2>2. TypeOK'
    BY <1>1, <1>9, <2>1 DEF Leave, IInv, TypeOK
  <2>3. RegistryIsSound'
    BY <1>2, <1>3, <1>9, <2>1 DEF Leave, IInv, RegistryIsSound, Open
  <2>4. Registered' /\ SilentIsOwed'
    BY <1>2, <1>5, <1>9, <2>1 DEF Leave, IInv, Registered, SilentIsOwed
  <2>. QED
    BY <2>2, <2>3, <2>4, <1>4, <1>9 DEF Leave, IInv
<1>10. CASE Pong(s)
  <2>1. TypeOK' /\ RegistryIsSound'
    BY <1>1, <1>2, <1>3, <1>10 DEF Pong, IInv, TypeOK, RegistryIsSound, Open
  <2>2. Registered' /\ SilentIsOwed'
    BY <1>2, <1>10 DEF Pong, IInv, Registered, SilentIsOwed
  <2>. QED
    BY <2>1, <2>2, <1>4, <1>10 DEF Pong, IInv
<1>. QED
  BY <1>6, <1>7, <1>8, <1>9, <1>10

\* Eviction at the cap, and the new socket.
LEMMA RegisterStep ==
  ASSUME IInv, NEW s \in Socket, Register(s)
  PROVE  IInv'
<1> USE UserOfAssumption, MaxAssumption
<1> DEFINE u == UserOf[s]
<1> DEFINE q == registry[u]
<1> DEFINE k == Kept(u)
<1>1. /\ u \in User /\ q \in Seq(Socket) /\ Len(q) \in Nat /\ Distinct(q) /\ Len(q) <= MaxConnections
      /\ DOMAIN q = 1 .. Len(q) /\ pc[s] = "auth" /\ registry' = [registry EXCEPT ![u] = Append(k, s)]
      /\ \A t \in Elements(q) : t \in Socket /\ UserOf[t] = u /\ pc[t] \in {"announce", "ready"}
      /\ Elements(q) = Sockets(u)
  <2>1. Elements(q) = Sockets(u)
    BY DEF Elements, Sockets
  <2>2. u \in User /\ q \in Seq(Socket) /\ DOMAIN q = 1 .. Len(q) /\ Len(q) \in Nat
    BY DEF IInv, TypeOK
  <2>3. \A t \in Elements(q) : t \in Socket
    BY <2>2 DEF Elements
  <2>. QED
    BY <2>1, <2>2, <2>3 DEF IInv, RegistryIsSound, Registered, Register, Distinct
<1>2. Excess(u) \in 0 .. Len(q) /\ Len(q) - Excess(u) + 1 <= MaxConnections
  BY <1>1 DEF Excess
<1>3. /\ k \in Seq(Socket) /\ Len(k) = Len(q) - Excess(u) /\ Distinct(k)
      /\ Elements(k) \subseteq Elements(q)
      /\ \A i \in DOMAIN q : i > Excess(u) => q[i] \in Elements(k)
  BY <1>1, <1>2, SuffixKeeps DEF Kept
<1> HIDE DEF k
<1>4. s \notin Elements(k)
  BY <1>1, <1>3
<1>5. LET r == Append(k, s) IN
      /\ r \in Seq(Socket) /\ Len(r) = Len(k) + 1 /\ r # << >> /\ Distinct(r)
      /\ Elements(r) = Elements(k) \cup {s}
  BY <1>3, <1>4, AppendKeeps
<1>6. registry'[u] = Append(k, s) /\ \A v \in User : v # u => registry'[v] = registry[v]
  BY <1>1 DEF IInv, TypeOK
<1>7. Sockets(u)' = Elements(k) \cup {s} /\ \A v \in User : v # u => Sockets(v)' = Sockets(v)
  <2>1. Sockets(u)' = Elements(registry'[u])
    BY DEF Sockets, Elements
  <2>2. \A v \in User : v # u => Sockets(v)' = Sockets(v)
    BY <1>6 DEF Sockets
  <2>. QED
    BY <2>1, <2>2, <1>5, <1>6
<1>8. /\ wire' \in [Socket -> Wires]
      /\ \A t \in Socket : wire'[t] = wire[t] \/ (wire'[t] = "closing" /\ Open(t))
      /\ \A t \in Socket : t \in Evicted(u) => ~ Open(t)'
  <2>1. wire' = [t \in Socket |-> IF t \in Evicted(u) /\ Open(t) THEN "closing" ELSE wire[t]]
    BY DEF Register
  <2>2. wire \in [Socket -> Wires]
    BY DEF IInv, TypeOK
  <2>3. wire' \in [Socket -> Wires]
    BY <2>1, <2>2 DEF Wires
  <2>4. ASSUME NEW t \in Socket
        PROVE  /\ wire'[t] = wire[t] \/ (wire'[t] = "closing" /\ Open(t))
               /\ t \in Evicted(u) => ~ Open(t)'
    <3>1. wire'[t] = IF t \in Evicted(u) /\ Open(t) THEN "closing" ELSE wire[t]
      BY <2>1
    <3>. QED
      BY <3>1 DEF Open
  <2>. QED
    BY <2>3, <2>4
<1>9. \A t \in Elements(q) : t \in Evicted(u) \/ t \in Elements(k)
  <2>1. ASSUME NEW i \in DOMAIN q PROVE q[i] \in Evicted(u) \/ q[i] \in Elements(k)
    BY <1>1, <1>2, <1>3 DEF Evicted
  <2>. QED
    BY <2>1 DEF Elements
<1>10. /\ pc' = [pc EXCEPT ![s] = "announce"] /\ away' = [away EXCEPT ![u] = FALSE]
       /\ UNCHANGED <<pinged, owed, bye, act, asked, looked, subbed, view, left>>
  BY DEF Register
<1>11. TypeOK'
  <2>1. registry' \in [User -> Seq(Socket)]
    BY <1>1, <1>5 DEF IInv, TypeOK
  <2>. QED
    BY <1>8, <1>10, <2>1 DEF IInv, TypeOK
<1>12. RegistryIsSound'
  <2>1. ASSUME NEW v \in User
        PROVE  Len(registry'[v]) <= MaxConnections /\ Distinct(registry'[v])
    <3>1. CASE v = u
      BY <3>1, <1>2, <1>3, <1>5, <1>6
    <3>2. CASE v # u
      BY <3>2, <1>6 DEF IInv, RegistryIsSound, Distinct
    <3>. QED
      BY <3>1, <3>2
  <2>2. ASSUME NEW t \in Socket, Open(t)', pc'[t] \in {"announce", "ready"}
        PROVE  t \in Sockets(UserOf[t])'
    <3>1. CASE t = s
      BY <3>1, <1>7
    <3>2. CASE t # s
      <4>1. Open(t) /\ pc'[t] = pc[t] /\ t \notin Evicted(u)
        BY <3>2, <2>2, <1>8, <1>10 DEF Open, IInv, TypeOK
      <4>2. t \in Sockets(UserOf[t]) /\ UserOf[t] \in User
        BY <2>2, <4>1 DEF IInv, RegistryIsSound
      <4>. QED
        BY <4>1, <4>2, <1>1, <1>7, <1>9
    <3>. QED
      BY <3>1, <3>2
  <2>. QED
    BY <2>1, <2>2 DEF RegistryIsSound, Distinct
<1>13. Registered'
  <2>1. ASSUME NEW v \in User, NEW t \in Sockets(v)'
        PROVE  UserOf[t] = v /\ pc'[t] \in {"announce", "ready"}
    <3>1. CASE v = u
      BY <3>1, <2>1, <1>1, <1>3, <1>7, <1>10 DEF IInv, TypeOK
    <3>2. CASE v # u
      <4>1. t \in Sockets(v) /\ t \in Socket
        <5>1. t \in Sockets(v)
          BY <3>2, <2>1, <1>7
        <5>2. \A i \in DOMAIN registry[v] : registry[v][i] \in Socket
          BY DEF IInv, TypeOK
        <5>. QED
          BY <5>1, <5>2 DEF Sockets
      <4>. QED
        BY <4>1, <1>10 DEF IInv, TypeOK, Registered
    <3>. QED
      BY <3>1, <3>2
  <2>2. \A t \in Socket : wire'[t] = "none" => pc'[t] = "none" /\ t \notin pinged'
    BY <1>1, <1>8, <1>10 DEF IInv, TypeOK, Registered
  <2>. QED
    BY <2>1, <2>2 DEF Registered
<1>14. SilentIsOwed'
  BY <1>8, <1>10 DEF IInv, SilentIsOwed
<1>15. OfflineHasLeft'
  <2>1. \A v \in User : registry'[v] = << >> => v \in left
    BY <1>5, <1>6 DEF IInv, OfflineHasLeft
  <2>. QED
    BY <2>1, <1>10 DEF IInv, OfflineHasLeft, OfflineOnlyAfterLeaving
<1>. QED
  BY <1>11, <1>12, <1>13, <1>14, <1>15 DEF IInv

\* The close event.
LEMMA CloseStep ==
  ASSUME IInv, NEW s \in Socket, CloseEvent(s)
  PROVE  IInv'
<1> USE UserOfAssumption, MaxAssumption
<1> DEFINE u == UserOf[s]
<1>1. /\ u \in User /\ wire[s] = "closing" /\ wire' = [wire EXCEPT ![s] = "closed"]
      /\ left' = left \cup {v \in User : registry'[v] = << >>}
      /\ UNCHANGED <<pc, away, act>>
      /\ pinged' = pinged \ {s} /\ owed' = owed \ {s} /\ subbed' = subbed \ {s}
      /\ asked' = [asked EXCEPT ![s] = {}] /\ looked' = [looked EXCEPT ![s] = {}]
      /\ view' = [view EXCEPT ![s] = [v \in User |-> "unknown"]]
  BY DEF CloseEvent, Forget, IInv, TypeOK
<1>2. ASSUME NEW v \in User
      PROVE  /\ registry'[v] \in Seq(Socket) /\ Len(registry'[v]) <= MaxConnections
             /\ Distinct(registry'[v])
             /\ Sockets(v)' \subseteq Sockets(v)
             /\ \A t \in Sockets(v) : t # s => t \in Sockets(v)'
  <2>1. /\ registry[v] \in Seq(Socket) /\ Distinct(registry[v]) /\ Len(registry[v]) <= MaxConnections
        /\ Sockets(v) = Elements(registry[v]) /\ Sockets(v)' = Elements(registry'[v])
        /\ Len(registry[v]) \in Nat
    BY DEF IInv, TypeOK, RegistryIsSound, Distinct, Sockets, Elements
  <2>2. CASE registry'[v] = registry[v]
    BY <2>1, <2>2
  <2>3. CASE registry'[v] = Without(registry[v], s)
    <3>1. /\ registry'[v] \in Seq(Socket) /\ Len(registry'[v]) <= Len(registry[v])
          /\ Distinct(registry'[v]) /\ Elements(registry'[v]) = Elements(registry[v]) \ {s}
      BY <2>1, <2>3, WithoutRemoves
    <3>2. Len(registry'[v]) \in Nat
      BY <3>1
    <3>. QED
      BY <2>1, <3>1, <3>2
  <2>4. registry'[v] = registry[v] \/ registry'[v] = Without(registry[v], s)
    BY DEF CloseEvent, IInv, TypeOK
  <2>. QED
    BY <2>2, <2>3, <2>4
<1>3. /\ registry' \in [User -> Seq(Socket)]
  <2>1. DOMAIN registry' = User /\ registry' = [v \in User |-> registry'[v]]
    BY DEF CloseEvent, IInv, TypeOK
  <2>. QED
    BY <1>2, <2>1
<1>4. /\ bye' \in [Socket -> {"none", "seen", "peers"}]
      /\ \A t \in Socket : bye'[t] # "none" => UserOf[t] \in left'
  BY <1>1 DEF CloseEvent, IInv, TypeOK, OfflineHasLeft
<1>5. TypeOK'
  BY <1>1, <1>3, <1>4 DEF IInv, TypeOK, Wires
<1>6. RegistryIsSound'
  <2>1. ASSUME NEW t \in Socket, Open(t)', pc'[t] \in {"announce", "ready"}
        PROVE  t \in Sockets(UserOf[t])'
    <3>1. t # s /\ Open(t) /\ pc[t] \in {"announce", "ready"} /\ UserOf[t] \in User
      BY <1>1, <2>1 DEF Open, IInv, TypeOK
    <3>. QED
      BY <3>1, <1>2 DEF IInv, RegistryIsSound
  <2>. QED
    BY <1>2, <2>1 DEF RegistryIsSound, Distinct
<1>7. Registered'
  BY <1>1, <1>2 DEF IInv, TypeOK, Registered
<1>8. SilentIsOwed'
  BY <1>1 DEF IInv, TypeOK, SilentIsOwed
<1>9. OfflineHasLeft'
  BY <1>1, <1>4 DEF IInv, TypeOK, OfflineHasLeft, OfflineOnlyAfterLeaving
<1>. QED
  BY <1>5, <1>6, <1>7, <1>8, <1>9 DEF IInv

\* The heartbeat ends only connections it has pinged in vain.
LEMMA HeartbeatStep ==
  ASSUME IInv, Heartbeat
  PROVE  IInv' /\ \A s \in Socket : wire[s] = "open" => wire'[s] = "open"
<1>1. /\ wire' \in [Socket -> Wires] /\ pinged' \subseteq Socket /\ owed' \subseteq Socket
      /\ \A t \in Socket : wire'[t] = wire[t] \/ (wire'[t] = "closing" /\ Open(t) /\ t \in pinged)
      /\ \A t \in Socket : wire[t] = "open" => wire'[t] = "open"
      /\ UNCHANGED <<pc, registry, away, bye, act, asked, looked, subbed, view, left>>
  BY DEF Heartbeat, IInv, TypeOK, Wires, SilentIsOwed, Open
<1>2. TypeOK' /\ OfflineHasLeft'
  BY <1>1 DEF IInv, TypeOK, OfflineHasLeft, OfflineOnlyAfterLeaving
<1>3. RegistryIsSound'
  BY <1>1 DEF IInv, RegistryIsSound, Sockets, Open
<1>4. Registered'
  BY <1>1 DEF Heartbeat, IInv, Registered, Sockets, Open
<1>5. SilentIsOwed'
  BY <1>1 DEF Heartbeat, IInv, SilentIsOwed, Open
<1>. QED
  BY <1>1, <1>2, <1>3, <1>4, <1>5 DEF IInv

\* Every step of the system keeps the invariant.
LEMMA StepKeeps == IInv /\ [Next]_vars => IInv'
<1>1. ASSUME IInv, UNCHANGED vars PROVE IInv'
  BY <1>1 DEF vars, IInv, TypeOK, RegistryIsSound, Registered, SilentIsOwed, OfflineHasLeft,
              OfflineOnlyAfterLeaving, Sockets, Open
<1>2. ASSUME IInv, NEW s \in Socket, Resume(s) PROVE IInv'
  BY <1>2, FrameStep, SocketStep, RegisterStep, CloseStep DEF Resume
<1>3. ASSUME IInv, Next PROVE IInv'
  BY <1>2, <1>3, FrameStep, SocketStep, HeartbeatStep DEF Next
<1>. QED
  BY <1>1, <1>3

-----------------------------------------------------------------------------
(* Theorems *)

\* The invariant holds of every behaviour.
LEMMA Invariant == Spec => []IInv
  BY Initially, StepKeeps, PTL DEF Spec

\* The variables keep their types.
THEOREM PresenceTypeCorrect == Spec => []TypeOK
<1>1. IInv => TypeOK
  BY DEF IInv
<1>. QED
  BY <1>1, Invariant, PTL

\* However the handlers of a user's devices interleave, the registry holds at most
\* MaxConnections sockets, none twice, and every open socket past authentication.
THEOREM RegistrySound == Spec => []RegistryIsSound
<1>1. IInv => RegistryIsSound
  BY DEF IInv
<1>. QED
  BY <1>1, Invariant, PTL

\* Nobody who has had a device connected all along is shown offline, although the
\* `close' handler tells the peers after two awaits.
THEOREM NeverWronglyOffline == Spec => []OfflineOnlyAfterLeaving
<1>1. IInv => OfflineOnlyAfterLeaving
  BY DEF IInv, OfflineHasLeft
<1>. QED
  BY <1>1, Invariant, PTL

\* The heartbeat ends no connection whose client is there.
THEOREM LivingAreSpared == Spec => HeartbeatSparesTheLiving
<1>1. IInv /\ [Next]_vars => [Heartbeat => \A s \in Socket : wire[s] = "open" => wire'[s] = "open"]_vars
  BY HeartbeatStep
<1>. QED
  BY <1>1, Invariant, PTL DEF Spec, HeartbeatSparesTheLiving

=============================================================================
