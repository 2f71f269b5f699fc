---------------------------- MODULE AccountProofs ----------------------------
(***************************************************************************)
(* Proofs about the Spotify status and the vault, as MCAccount holds them, *)
(* for any listeners, tracks and passes, and for any tabs, browsers and    *)
(* passphrases.                                                            *)
(***************************************************************************)
EXTENDS MCAccount, TLAPS

-----------------------------------------------------------------------------
(* The shapes of the status and of the passes *)

Ours == Track \cup {None}
Texts == [text : Typed \cup Ours, by : {"user", "spotify", None}]
Connection == [id : Nat, token : Nat, last : Ours, first : Nat]
Connections == [u : Listener, row : Connection]

\* The shapes of a pass: before it asks, when it has a new token, and from the profile's read to the mark.
Asking == [at : {"refresh", "ask"}, rows : SUBSET Connections, u : Listener, row : Connection, again : BOOLEAN]
Storing == [at : {"store"}, token : Nat, rows : SUBSET Connections, u : Listener, row : Connection, again : BOOLEAN]
Writing == [at : {"read", "write", "mark"}, rows : SUBSET Connections, u : Listener, id : Nat, ours : Ours, text : Ours]
Passes == {Status!Quiet} \cup Asking \cup Storing \cup Writing

StatusTypeOK ==
  /\ status \in [Listener -> Texts]
  /\ row \in [Listener -> Connection]
  /\ spotify \in [Listener -> Nat] /\ rowIds \in Nat
  /\ pass \in [Pass -> Passes]

LEMMA StatusInitially == Status!Init => StatusTypeOK
  BY DEF Status!Init, StatusTypeOK, Texts, Connection, Ours, Status!NoRow, Status!Quiet, Passes

\* The next rows of a pass.
LEMMA SyncUserType ==
  ASSUME NEW rows \in SUBSET Connections
  PROVE  Status!SyncUser(rows) \subseteq Passes
<1>1. CASE rows = {}
  BY <1>1 DEF Status!SyncUser, Passes
<1>2. CASE rows # {}
  <2>1. ASSUME NEW r \in rows, NEW phase \in {"refresh", "ask"}
        PROVE  [at |-> phase, rows |-> rows \ {r}, u |-> r.u, row |-> r.row, again |-> FALSE] \in Asking
    BY DEF Asking, Connections
  <2>2. ASSUME NEW x \in Status!SyncUser(rows) PROVE x \in Asking
    <3>1. PICK r \in rows, phase \in {"refresh", "ask"} :
            x = [at |-> phase, rows |-> rows \ {r}, u |-> r.u, row |-> r.row, again |-> FALSE]
      BY <1>2 DEF Status!SyncUser
    <3>. QED
      BY <2>1, <3>1
  <2>. QED
    BY <2>2 DEF Passes
<1>. QED
  BY <1>1, <1>2

\* A step of a pass that leaves the profile alone.
LEMMA PassStep ==
  ASSUME NEW p \in Pass, NEW next \in Passes, StatusTypeOK, Status!Step(p, next), UNCHANGED status,
         row' \in [Listener -> Connection], spotify' \in [Listener -> Nat]
  PROVE  StatusTypeOK'
  BY DEF StatusTypeOK, Status!Step

LEMMA DoneStep ==
  ASSUME NEW p \in Pass, StatusTypeOK, Status!Done(p), pass[p].rows \in SUBSET Connections, UNCHANGED status,
         row' \in [Listener -> Connection], spotify' \in [Listener -> Nat]
  PROVE  StatusTypeOK'
  BY SyncUserType, PassStep DEF Status!Done

\* What the phase of a pass says of its shape.
LEMMA Phases ==
  ASSUME StatusTypeOK, NEW p \in Pass
  PROVE  /\ pass[p].at \in {"refresh", "ask"} => pass[p] \in Asking
         /\ pass[p].at = "store" => pass[p] \in Storing
         /\ pass[p].at \in {"read", "write", "mark"} => pass[p] \in Writing
  BY DEF StatusTypeOK, Passes, Asking, Storing, Writing, Status!Quiet

LEMMA PollStep ==
  ASSUME NEW p \in Pass, StatusTypeOK, Status!PollOnce(p)
  PROVE  StatusTypeOK'
<1>1. PICK online \in SUBSET {u \in Listener : row[u] # Status!NoRow} :
        \E next \in Status!SyncUser({[u |-> u, row |-> row[u]] : u \in online}) : Status!Step(p, next)
  BY DEF Status!PollOnce
<1>2. {[u |-> u, row |-> row[u]] : u \in online} \in SUBSET Connections
  BY DEF StatusTypeOK, Connections
<1>3. UNCHANGED <<status, row, spotify>> /\ row' \in [Listener -> Connection] /\ spotify' \in [Listener -> Nat]
  BY DEF Status!PollOnce, StatusTypeOK
<1>. QED
  BY <1>1, <1>2, <1>3, SyncUserType, PassStep

LEMMA RefreshStep ==
  ASSUME NEW p \in Pass, StatusTypeOK, Status!Refresh(p)
  PROVE  StatusTypeOK'
<1>1. pass[p] \in Asking
  BY Phases DEF Status!Refresh
<1>2. UNCHANGED <<status, row>> /\ row' \in [Listener -> Connection]
  BY DEF Status!Refresh, StatusTypeOK
<1>3. CASE Status!Done(p) /\ UNCHANGED spotify
  BY <1>1, <1>2, <1>3, DoneStep DEF Asking, StatusTypeOK
<1>4. ASSUME NEW token \in {pass[p].row.token} \cup {n \in {spotify[pass[p].u] + 1} : n <= MaxTokens},
             spotify' = [spotify EXCEPT ![pass[p].u] = IF token = pass[p].row.token THEN @ ELSE token],
             Status!Step(p, [at |-> "store", token |-> token, rows |-> pass[p].rows, u |-> pass[p].u, row |-> pass[p].row,
                      again |-> pass[p].again])
      PROVE  StatusTypeOK'
  <2>1. token \in Nat
    BY <1>1, <1>4 DEF Asking, Connection, StatusTypeOK
  <2>2. spotify' \in [Listener -> Nat]
    BY <1>4, <2>1 DEF StatusTypeOK
  <2>. DEFINE next == [at |-> "store", token |-> token, rows |-> pass[p].rows, u |-> pass[p].u, row |-> pass[p].row,
                       again |-> pass[p].again]
  <2>3. next \in Storing
    BY <1>1, <2>1 DEF Asking, Storing
  <2>. QED
    BY <1>2, <1>4, <2>2, <2>3, PassStep DEF Passes
<1>. QED
  BY <1>3, <1>4 DEF Status!Refresh

LEMMA StoreStep ==
  ASSUME NEW p \in Pass, StatusTypeOK, Status!StoreTokens(p)
  PROVE  StatusTypeOK'
<1>. DEFINE next == [at |-> "ask", rows |-> pass[p].rows, u |-> pass[p].u, row |-> pass[p].row, again |-> pass[p].again]
<1>1. pass[p] \in Storing
  BY Phases DEF Status!StoreTokens
<1>2. next \in Passes
  BY <1>1 DEF Asking, Storing, Passes
<1>3. row' \in [Listener -> Connection]
  BY <1>1 DEF Status!StoreTokens, Storing, StatusTypeOK, Connection
<1>4. Status!Step(p, next) /\ UNCHANGED <<status, spotify>> /\ spotify' \in [Listener -> Nat]
  BY DEF Status!StoreTokens, StatusTypeOK
<1>. QED
  BY <1>2, <1>3, <1>4, PassStep

LEMMA AskStep ==
  ASSUME NEW p \in Pass, StatusTypeOK, Status!Ask(p)
  PROVE  StatusTypeOK'
<1>1. pass[p] \in Asking
  BY Phases DEF Status!Ask
<1>2. UNCHANGED <<status, row, spotify>> /\ row' \in [Listener -> Connection] /\ spotify' \in [Listener -> Nat]
  BY DEF Status!Ask, StatusTypeOK
<1>3. CASE Status!Done(p)
  BY <1>1, <1>2, <1>3, DoneStep DEF Asking
<1>4. ASSUME NEW text \in Ours,
             Status!Step(p, [at |-> "read", rows |-> pass[p].rows, u |-> pass[p].u, id |-> pass[p].row.id,
                      ours |-> pass[p].row.last, text |-> text])
      PROVE  StatusTypeOK'
  <2>. DEFINE next == [at |-> "read", rows |-> pass[p].rows, u |-> pass[p].u, id |-> pass[p].row.id,
                       ours |-> pass[p].row.last, text |-> text]
  <2>1. next \in Writing
    BY <1>1, <1>4 DEF Asking, Writing, Connection
  <2>. QED
    BY <1>2, <1>4, <2>1, PassStep DEF Passes
<1>5. CASE Status!Step(p, [pass[p] EXCEPT !.at = "refresh", !.again = TRUE])
  <2>1. [pass[p] EXCEPT !.at = "refresh", !.again = TRUE] \in Asking
    BY <1>1 DEF Asking
  <2>. QED
    BY <1>2, <1>5, <2>1, PassStep DEF Passes
<1>. QED
  BY <1>3, <1>4, <1>5 DEF Status!Ask, Ours

LEMMA ReadStep ==
  ASSUME NEW p \in Pass, StatusTypeOK, Status!ReadStatus(p)
  PROVE  StatusTypeOK'
<1>1. pass[p] \in Writing
  BY Phases DEF Status!ReadStatus
<1>2. UNCHANGED <<status, row, spotify>> /\ row' \in [Listener -> Connection] /\ spotify' \in [Listener -> Nat]
  BY DEF Status!ReadStatus, StatusTypeOK
<1>3. CASE Status!Done(p)
  BY <1>1, <1>2, <1>3, DoneStep DEF Writing
<1>4. CASE Status!Step(p, [pass[p] EXCEPT !.at = "write"])
  <2>1. [pass[p] EXCEPT !.at = "write"] \in Writing
    BY <1>1 DEF Writing
  <2>. QED
    BY <1>2, <1>4, <2>1, PassStep DEF Passes
<1>. QED
  BY <1>3, <1>4 DEF Status!ReadStatus

LEMMA WriteStep ==
  ASSUME NEW p \in Pass, StatusTypeOK, Status!WriteStatus(p)
  PROVE  StatusTypeOK'
<1>1. pass[p] \in Writing
  BY Phases DEF Status!WriteStatus
<1>2. [pass[p] EXCEPT !.at = "mark"] \in Passes
  BY <1>1 DEF Writing, Passes
<1>3. [text |-> pass[p].text, by |-> IF pass[p].text = None THEN None ELSE "spotify"] \in Texts
  BY <1>1 DEF Writing, Texts
<1>. QED
  BY <1>2, <1>3 DEF Status!WriteStatus, Status!Publish, Status!Step, StatusTypeOK

LEMMA MarkStep ==
  ASSUME NEW p \in Pass, StatusTypeOK, Status!Mark(p)
  PROVE  StatusTypeOK'
<1>1. pass[p] \in Writing
  BY Phases DEF Status!Mark
<1>2. row' \in [Listener -> Connection]
  BY <1>1 DEF Status!Mark, Writing, StatusTypeOK, Connection
<1>3. UNCHANGED <<status, spotify>> /\ spotify' \in [Listener -> Nat] /\ Status!Done(p) /\ pass[p].rows \in SUBSET Connections
  BY <1>1 DEF Status!Mark, Writing, StatusTypeOK
<1>. QED
  BY <1>2, <1>3, DoneStep

LEMMA FailStep ==
  ASSUME NEW p \in Pass, StatusTypeOK, Status!SyncFails(p)
  PROVE  StatusTypeOK'
<1>1. pass[p].rows \in SUBSET Connections
  BY Phases DEF Status!SyncFails, Asking, Storing, Writing
<1>2. UNCHANGED <<status, row, spotify>> /\ row' \in [Listener -> Connection] /\ spotify' \in [Listener -> Nat] /\ Status!Done(p)
  BY DEF Status!SyncFails, StatusTypeOK
<1>. QED
  BY <1>1, <1>2, DoneStep

\* The steps that are not a pass's: the OAuth flow, the profile form and the disconnect.
UserStep(u) ==
  \/ Status!SignState(u) \/ Status!StateExpires(u) \/ Status!Callback(u) \/ Status!EditStatus(u)
  \/ Status!Disconnect(u) \/ Status!DeleteRow(u) \/ Status!Compare(u) \/ Status!ClearStatus(u) \/ Status!ClearStatusWrites(u)

PassStepOf(p) ==
  \/ Status!PollOnce(p) \/ Status!Refresh(p) \/ Status!StoreTokens(p) \/ Status!Ask(p)
  \/ Status!ReadStatus(p) \/ Status!WriteStatus(p) \/ Status!Mark(p) \/ Status!SyncFails(p)

\* What the profile form and the end of a disconnect write is not Spotify's, or was there.
LEMMA UserWrites ==
  ASSUME Status!TextAssumption, NEW v \in Listener, StatusTypeOK, UserStep(v)
  PROVE  /\ status' \in [Listener -> Texts] /\ UNCHANGED pass
         /\ \A u \in Listener : status'[u].by = "spotify" => status[u].by = "spotify" /\ status'[u].text = status[u].text
<1>. USE DEF UserStep
<1>0. UNCHANGED pass
  BY DEF Status!SignState, Status!StateExpires, Status!Callback, Status!EditStatus, Status!Disconnect, Status!DeleteRow,
         Status!Compare, Status!ClearStatus, Status!ClearStatusWrites, Status!Leave
<1>1. CASE Status!EditStatus(v)
  <2>1. PICK t \in Typed \cup Track \cup {None}, by \in {None, status[v].by, "user"} :
          /\ status' = [status EXCEPT ![v] = [text |-> t, by |-> by]]
          /\ by = status[v].by => t = status[v].text \/ by \in {None, "user"}
    BY <1>1 DEF Status!EditStatus
  <2>2. [text |-> t, by |-> by] \in Texts
    BY DEF Texts, Ours, StatusTypeOK
  <2>. QED
    BY <1>0, <2>1, <2>2 DEF Status!TextAssumption, StatusTypeOK
<1>2. CASE Status!ClearStatusWrites(v)
  <2>1. status' = [status EXCEPT ![v] = [text |-> None, by |-> None]]
    BY <1>2 DEF Status!ClearStatusWrites, Status!Publish
  <2>2. [text |-> None, by |-> None] \in Texts
    BY DEF Texts, Ours
  <2>. QED
    BY <1>0, <2>1, <2>2 DEF Status!TextAssumption, StatusTypeOK
<1>3. CASE ~ Status!EditStatus(v) /\ ~ Status!ClearStatusWrites(v)
  BY <1>0, <1>3 DEF Status!SignState, Status!StateExpires, Status!Callback, Status!Disconnect, Status!DeleteRow,
                    Status!Compare, Status!ClearStatus, Status!Leave, StatusTypeOK
<1>. QED
  BY <1>1, <1>2, <1>3

\* The connection of a callback, new or renewed; a disconnect drops it.
LEMMA UserRows ==
  ASSUME NEW v \in Listener, StatusTypeOK, UserStep(v)
  PROVE  /\ row' \in [Listener -> Connection] /\ rowIds' \in {rowIds, rowIds + 1}
         /\ spotify' \in [Listener -> Nat] /\ \A u \in Listener : spotify'[u] >= spotify[u]
         /\ \A u \in Listener :
              \/ row'[u] = Status!NoRow
              \/ row'[u] = row[u]
              \/ /\ row[u] = Status!NoRow /\ rowIds' = rowIds + 1 /\ row'[u].id = rowIds'
                 /\ row'[u].last = None /\ row'[u].token = row'[u].first /\ row'[u].first = spotify'[u]
              \/ /\ row[u] # Status!NoRow /\ row'[u].id = row[u].id /\ row'[u].last = row[u].last
                 /\ row'[u].first = row[u].first /\ row'[u].token = spotify'[u]
         /\ \A u \in Listener : row'[u] # row[u] => Status!Callback(v) \/ (u = v /\ Status!DeleteRow(v))
<1>. USE DEF UserStep
<1>1. CASE Status!Callback(v)
  <2>1. spotify' = [spotify EXCEPT ![v] = spotify[v] + 1]
    BY <1>1 DEF Status!Callback
  <2>2. spotify' \in [Listener -> Nat] /\ spotify'[v] \in Nat /\ \A u \in Listener : spotify'[u] >= spotify[u]
    BY <2>1 DEF StatusTypeOK
  <2>3. CASE row[v] = Status!NoRow
    <3>1. /\ rowIds' = rowIds + 1
          /\ row' = [row EXCEPT ![v] = [id |-> rowIds', token |-> spotify'[v], last |-> None, first |-> spotify'[v]]]
      BY <1>1, <2>3 DEF Status!Callback
    <3>2. row' \in [Listener -> Connection]
      BY <2>2, <3>1 DEF StatusTypeOK, Connection, Ours
    <3>3. /\ row'[v].id = rowIds' /\ row'[v].last = None /\ row'[v].token = spotify'[v] /\ row'[v].first = spotify'[v]
          /\ \A u \in Listener : u # v => row'[u] = row[u]
      BY <3>1 DEF StatusTypeOK
    <3>. QED
      BY <1>1, <2>2, <2>3, <3>1, <3>2, <3>3
  <2>4. CASE row[v] # Status!NoRow
    <3>1. rowIds' = rowIds /\ row' = [row EXCEPT ![v] = [row[v] EXCEPT !.token = spotify'[v]]]
      BY <1>1, <2>4 DEF Status!Callback
    <3>2. row[v] \in Connection
      BY DEF StatusTypeOK
    <3>3. row' \in [Listener -> Connection]
      BY <2>2, <3>1, <3>2 DEF StatusTypeOK, Connection
    <3>4. /\ row'[v].id = row[v].id /\ row'[v].last = row[v].last /\ row'[v].first = row[v].first
          /\ row'[v].token = spotify'[v] /\ \A u \in Listener : u # v => row'[u] = row[u]
      BY <3>1, <3>2 DEF StatusTypeOK, Connection
    <3>. QED
      BY <1>1, <2>2, <2>4, <3>1, <3>3, <3>4
  <2>. QED
    BY <2>3, <2>4
<1>2. CASE Status!DeleteRow(v)
  <2>1. UNCHANGED <<spotify, rowIds>> /\ row' = [row EXCEPT ![v] = Status!NoRow]
    BY <1>2 DEF Status!DeleteRow, Status!Leave
  <2>2. Status!NoRow \in Connection
    BY DEF Connection, Ours, Status!NoRow
  <2>. QED
    BY <1>2, <2>1, <2>2 DEF StatusTypeOK
<1>3. CASE ~ Status!Callback(v) /\ ~ Status!DeleteRow(v)
  <2>1. UNCHANGED <<row, spotify, rowIds>>
    BY <1>3 DEF Status!SignState, Status!StateExpires, Status!EditStatus, Status!Disconnect, Status!Compare,
                Status!ClearStatus, Status!ClearStatusWrites, Status!Leave
  <2>. QED
    BY <2>1 DEF StatusTypeOK
<1>. QED
  BY <1>1, <1>2, <1>3

LEMMA StatusNext == [Status!Next]_statusVars <=> (\E u \in Listener : UserStep(u)) \/ (\E p \in Pass : PassStepOf(p)) \/ UNCHANGED statusVars
  BY DEF Status!Next, UserStep, PassStepOf

LEMMA StatusStepKeeps == Status!TextAssumption /\ StatusTypeOK /\ [Status!Next]_statusVars => StatusTypeOK'
<1>. SUFFICES ASSUME Status!TextAssumption, StatusTypeOK, [Status!Next]_statusVars PROVE StatusTypeOK'
  OBVIOUS
<1>1. CASE UNCHANGED statusVars
  BY <1>1 DEF statusVars, StatusTypeOK
<1>2. ASSUME NEW u \in Listener, UserStep(u) PROVE StatusTypeOK'
  BY <1>2, UserWrites, UserRows DEF StatusTypeOK
<1>3. ASSUME NEW p \in Pass, PassStepOf(p) PROVE StatusTypeOK'
  BY <1>3, PollStep, RefreshStep, StoreStep, AskStep, ReadStep, WriteStep, MarkStep, FailStep DEF PassStepOf
<1>. QED
  BY <1>1, <1>2, <1>3, StatusNext

\* A step of the account side is one of the part whose turn it is, and leaves the others alone.
LEMMA StatusPart == [AccountNext]_<<turn, vars, statusVars, vaultVars>> => [Status!Next]_statusVars
  BY DEF AccountNext, AdminOnly, StatusOnly, VaultOnly, Status!Next

LEMMA VaultPart == [AccountNext]_<<turn, vars, statusVars, vaultVars>> => [Vault!Next]_vaultVars
  BY DEF AccountNext, AdminOnly, StatusOnly, VaultOnly, Vault!Next

-----------------------------------------------------------------------------
(* The text the integration has stored *)

Kept == Listener \ adrift

\* At most one pass is between writeStatus's read and lastStatusText's update.
OneWriter == \A u \in Kept : \A p, q \in Pass : Status!WritesFor(p, u) /\ Status!WritesFor(q, u) => p = q

Marks(p, u) == pass[p].at = "mark" /\ pass[p].u = u

\* Spotify's status has the text that the pass is about to store, or the stored one if there is no such pass.
MarkedText == \A u \in Kept : \A p \in Pass : Marks(p, u) /\ status[u].by = "spotify" => status[u].text = pass[p].text
StoredText == \A u \in Kept : status[u].by = "spotify" => status[u].text = row[u].last \/ \E p \in Pass : Marks(p, u)

KnownInv == StatusTypeOK /\ OneWriter /\ MarkedText /\ StoredText

LEMMA KnownInitially == Status!TextAssumption /\ Status!Init => KnownInv
<1>. SUFFICES ASSUME Status!TextAssumption, Status!Init PROVE KnownInv
  OBVIOUS
<1>1. OneWriter /\ MarkedText /\ StoredText
  BY DEF Status!TextAssumption, Status!Init, OneWriter, MarkedText, StoredText, Kept, Marks, Status!WritesFor, Status!Quiet
<1>. QED
  BY <1>1, StatusInitially DEF KnownInv

\* The pass goes on to something other than a write; it had nothing to store for a user who is kept.
LEMMA PassKnown ==
  ASSUME NEW p \in Pass, NEW next, KnownInv, StatusTypeOK', Status!Step(p, next), next.at \notin {"write", "mark"},
         UNCHANGED status, adrift \subseteq adrift', pass[p].at = "mark" => pass[p].u \in adrift',
         \A u \in Listener : row'[u].last = row[u].last
  PROVE  KnownInv'
<1>1. \A q \in Pass : pass'[q] = IF q = p THEN next ELSE pass[q]
  BY DEF KnownInv, StatusTypeOK, Status!Step
<1>2. Kept' \subseteq Kept
  BY DEF Kept
<1>3. OneWriter'
  BY <1>1, <1>2 DEF KnownInv, OneWriter, Status!WritesFor
<1>4. MarkedText'
  BY <1>1, <1>2 DEF KnownInv, MarkedText, Marks
<1>5. StoredText'
  <2>. SUFFICES ASSUME NEW u \in Kept', status[u].by = "spotify"
                PROVE  status[u].text = row'[u].last \/ (\E q \in Pass : Marks(q, u))'
    BY DEF StoredText
  <2>1. ASSUME NEW q \in Pass, Marks(q, u) PROVE Marks(q, u)'
    BY <1>1, <2>1 DEF Marks, Kept
  <2>. QED
    BY <1>2, <2>1 DEF KnownInv, StoredText, Kept
<1>. QED
  BY <1>3, <1>4, <1>5 DEF KnownInv

LEMMA SyncUserNext == \A rows : \A x \in Status!SyncUser(rows) : x.at \in {"idle", "refresh", "ask"}
  BY DEF Status!SyncUser, Status!Quiet

LEMMA DoneNext ==
  ASSUME NEW p \in Pass, Status!Done(p)
  PROVE  \E next : Status!Step(p, next) /\ next.at \notin {"write", "mark"}
  BY SyncUserNext DEF Status!Done

\* A pass that does not write.
LEMMA OtherKnown ==
  ASSUME NEW p \in Pass, KnownInv, StatusTypeOK',
         Status!PollOnce(p) \/ Status!Refresh(p) \/ Status!StoreTokens(p) \/ Status!Ask(p) \/ Status!SyncFails(p)
  PROVE  KnownInv'
<1>1. \E next : Status!Step(p, next) /\ next.at \notin {"write", "mark"}
  <2>1. CASE Status!PollOnce(p)
    <3>1. PICK rows : \E next \in Status!SyncUser(rows) : Status!Step(p, next)
      BY <2>1 DEF Status!PollOnce
    <3>2. PICK next \in Status!SyncUser(rows) : Status!Step(p, next)
      BY <3>1
    <3>. QED
      BY <3>2, SyncUserNext
  <2>2. CASE Status!Refresh(p)
    <3>1. ASSUME NEW token,
                 Status!Step(p, [at |-> "store", token |-> token, rows |-> pass[p].rows, u |-> pass[p].u, row |-> pass[p].row,
                          again |-> pass[p].again])
          PROVE  \E next : Status!Step(p, next) /\ next.at \notin {"write", "mark"}
      BY <3>1
    <3>2. CASE Status!Done(p)
      BY <3>2, DoneNext
    <3>. QED
      BY <2>2, <3>1, <3>2 DEF Status!Refresh
  <2>3. CASE Status!StoreTokens(p)
    BY <2>3 DEF Status!StoreTokens
  <2>4. CASE Status!Ask(p)
    <3>1. pass[p] \in Asking
      BY <2>4, Phases DEF Status!Ask, KnownInv
    <3>2. CASE Status!Done(p)
      BY <3>2, DoneNext
    <3>3. CASE Status!Step(p, [pass[p] EXCEPT !.at = "refresh", !.again = TRUE])
      <4>1. [pass[p] EXCEPT !.at = "refresh", !.again = TRUE].at = "refresh"
        BY <3>1 DEF Asking
      <4>. QED
        BY <3>3, <4>1
    <3>4. ASSUME NEW text,
                 Status!Step(p, [at |-> "read", rows |-> pass[p].rows, u |-> pass[p].u, id |-> pass[p].row.id,
                          ours |-> pass[p].row.last, text |-> text])
          PROVE  \E next : Status!Step(p, next) /\ next.at \notin {"write", "mark"}
      BY <3>4
    <3>. QED
      BY <2>4, <3>2, <3>3, <3>4 DEF Status!Ask
  <2>5. CASE Status!SyncFails(p)
    BY <2>5, DoneNext DEF Status!SyncFails
  <2>. QED
    BY <2>1, <2>2, <2>3, <2>4, <2>5
<1>2. UNCHANGED status /\ adrift \subseteq adrift' /\ (pass[p].at = "mark" => pass[p].u \in adrift')
  BY DEF Status!PollOnce, Status!Refresh, Status!StoreTokens, Status!Ask, Status!SyncFails, Status!Quiet
<1>3. \A u \in Listener : row'[u].last = row[u].last
  <2>1. CASE Status!StoreTokens(p)
    BY <2>1 DEF Status!StoreTokens, KnownInv, StatusTypeOK, Connection
  <2>2. CASE ~ Status!StoreTokens(p)
    BY <2>2 DEF Status!PollOnce, Status!Refresh, Status!Ask, Status!SyncFails
  <2>. QED
    BY <2>1, <2>2
<1>. QED
  BY <1>1, <1>2, <1>3, PassKnown

\* writeStatus reads the profile: if another pass is past that, the user is adrift.
LEMMA ReadKnown ==
  ASSUME NEW p \in Pass, KnownInv, StatusTypeOK', Status!ReadStatus(p)
  PROVE  KnownInv'
<1>. DEFINE next == [pass[p] EXCEPT !.at = "write"]
<1>0. pass[p] \in Writing /\ pass[p].at = "read" /\ UNCHANGED <<status, row>>
  BY Phases DEF KnownInv, Status!ReadStatus
<1>1. CASE Status!Done(p) /\ UNCHANGED adrift
  BY <1>0, <1>1, DoneNext, PassKnown
<1>2. CASE /\ Status!Step(p, next)
           /\ adrift' = IF \E q \in Pass \ {p} : Status!WritesFor(q, pass[p].u) THEN adrift \cup {pass[p].u} ELSE adrift
  <2>1. next.at = "write" /\ next.u = pass[p].u
    BY <1>0 DEF Writing
  <2>2. \A q \in Pass : pass'[q] = IF q = p THEN next ELSE pass[q]
    BY <1>2 DEF KnownInv, StatusTypeOK, Status!Step
  <2>. HIDE DEF next
  <2>3. Kept' \subseteq Kept /\ \A q \in Pass \ {p} : Status!WritesFor(q, pass[p].u) => pass[p].u \notin Kept'
    BY <1>2 DEF Kept
  <2>4. OneWriter'
    BY <2>1, <2>2, <2>3 DEF KnownInv, OneWriter, Status!WritesFor
  <2>5. MarkedText'
    BY <1>0, <2>1, <2>2, <2>3 DEF KnownInv, MarkedText, Marks
  <2>6. StoredText'
    BY <1>0, <2>1, <2>2, <2>3 DEF KnownInv, StoredText, Marks
  <2>. QED
    BY <2>4, <2>5, <2>6 DEF KnownInv
<1>. QED
  BY <1>1, <1>2 DEF Status!ReadStatus

LEMMA WriteKnown ==
  ASSUME NEW p \in Pass, KnownInv, StatusTypeOK', Status!WriteStatus(p)
  PROVE  KnownInv'
<1>. DEFINE next == [pass[p] EXCEPT !.at = "mark"]
            v == pass[p].u
<1>1. pass[p] \in Writing /\ pass[p].at = "write" /\ UNCHANGED <<row, adrift>>
  BY Phases DEF KnownInv, Status!WriteStatus
<1>2. next.at = "mark" /\ next.u = v /\ next.text = pass[p].text /\ v \in Listener
  BY <1>1 DEF Writing
<1>3. \A q \in Pass : pass'[q] = IF q = p THEN next ELSE pass[q]
  BY DEF KnownInv, StatusTypeOK, Status!Step, Status!WriteStatus
<1>4. status'[v].text = pass[p].text /\ \A u \in Listener : u # v => status'[u] = status[u]
  BY <1>2 DEF KnownInv, StatusTypeOK, Status!WriteStatus, Status!Publish
<1>. HIDE DEF next, v
<1>5. OneWriter'
  BY <1>1, <1>2, <1>3 DEF KnownInv, OneWriter, Status!WritesFor, Kept, v
<1>6. MarkedText'
  <2>. SUFFICES ASSUME NEW u \in Kept, NEW q \in Pass, pass'[q].at = "mark", pass'[q].u = u, status'[u].by = "spotify"
                PROVE  status'[u].text = pass'[q].text
    BY <1>1 DEF MarkedText, Marks, Kept
  <2>1. CASE q = p
    BY <1>2, <1>3, <1>4, <2>1
  <2>2. CASE q # p /\ u = v
    BY <1>1, <1>3, <2>2 DEF KnownInv, OneWriter, Status!WritesFor, v
  <2>3. CASE q # p /\ u # v
    BY <1>3, <1>4, <2>3 DEF KnownInv, MarkedText, Marks, Kept
  <2>. QED
    BY <2>1, <2>2, <2>3
<1>7. StoredText'
  <2>. SUFFICES ASSUME NEW u \in Kept, status'[u].by = "spotify"
                PROVE  status'[u].text = row[u].last \/ (\E q \in Pass : Marks(q, u))'
    BY <1>1 DEF StoredText, Kept
  <2>1. CASE u = v
    BY <1>2, <1>3, <2>1 DEF Marks
  <2>2. CASE u # v
    <3>1. ASSUME NEW q \in Pass, Marks(q, u) PROVE Marks(q, u)'
      BY <1>2, <1>3, <2>2, <3>1 DEF Marks, v
    <3>. QED
      BY <1>4, <2>2, <3>1 DEF KnownInv, StoredText, Kept
  <2>. QED
    BY <2>1, <2>2
<1>. QED
  BY <1>5, <1>6, <1>7 DEF KnownInv

\* What the pass has written is stored, or the row is gone and the user is adrift.
LEMMA MarkKnown ==
  ASSUME NEW p \in Pass, KnownInv, StatusTypeOK', Status!Mark(p)
  PROVE  KnownInv'
<1>. DEFINE v == pass[p].u
<1>0. pass[p] \in Writing /\ pass[p].at = "mark" /\ UNCHANGED status /\ v \in Listener
  BY Phases DEF KnownInv, Status!Mark, Writing
<1>1. PICK next : Status!Step(p, next) /\ next.at \notin {"write", "mark"}
  BY DoneNext DEF Status!Mark
<1>2. CASE adrift' = adrift \cup {v} /\ UNCHANGED row
  BY <1>0, <1>1, <1>2, PassKnown
<1>3. CASE row' = [row EXCEPT ![v].last = pass[p].text] /\ UNCHANGED adrift
  <2>1. \A q \in Pass : pass'[q] = IF q = p THEN next ELSE pass[q]
    BY <1>1 DEF KnownInv, StatusTypeOK, Status!Step
  <2>2. row'[v].last = pass[p].text /\ \A u \in Listener : u # v => row'[u] = row[u]
    BY <1>0, <1>3 DEF KnownInv, StatusTypeOK, Connection
  <2>3. OneWriter' /\ MarkedText'
    BY <1>0, <1>1, <1>3, <2>1 DEF KnownInv, OneWriter, MarkedText, Marks, Status!WritesFor, Kept
  <2>. HIDE DEF v
  <2>4. StoredText'
    <3>. SUFFICES ASSUME NEW u \in Kept, status[u].by = "spotify"
                  PROVE  status[u].text = row'[u].last \/ (\E q \in Pass : Marks(q, u))'
      BY <1>0, <1>3 DEF StoredText, Kept
    <3>1. CASE u = v
      BY <1>0, <2>2, <3>1 DEF KnownInv, MarkedText, Marks, v
    <3>2. CASE u # v
      <4>1. ASSUME NEW q \in Pass, Marks(q, u) PROVE Marks(q, u)'
        BY <1>0, <2>1, <3>2, <4>1 DEF Marks, v
      <4>. QED
        BY <2>2, <3>2, <4>1 DEF KnownInv, StoredText, Kept
    <3>. QED
      BY <3>1, <3>2
  <2>. QED
    BY <2>3, <2>4 DEF KnownInv
<1>. QED
  BY <1>2, <1>3 DEF Status!Mark

\* No pass is touched; a row that is made has no stored text, one that is renewed keeps it, and
\* a user whose row goes while the status is Spotify's is adrift.
LEMMA UserKnown ==
  ASSUME Status!TextAssumption, NEW v \in Listener, KnownInv, StatusTypeOK', UserStep(v)
  PROVE  KnownInv'
<1>. USE DEF KnownInv
<1>1. /\ UNCHANGED pass
      /\ \A u \in Listener : status'[u].by = "spotify" => status[u].by = "spotify" /\ status'[u].text = status[u].text
  BY UserWrites
<1>2. Kept' \subseteq Kept /\ \A u \in Kept' : status[u].by = "spotify" => row'[u].last = row[u].last
  <2>1. CASE Status!DeleteRow(v)
    BY <2>1 DEF Status!DeleteRow, Status!Leave, Kept, StatusTypeOK
  <2>2. CASE Status!Callback(v)
    <3>1. UNCHANGED adrift
      BY <2>2 DEF Status!Callback
    <3>2. row'[v].last = row[v].last /\ \A u \in Listener : u # v => row'[u] = row[u]
      BY <2>2 DEF Status!Callback, StatusTypeOK, Connection, Status!NoRow
    <3>. QED
      BY <3>1, <3>2 DEF Kept
  <2>3. CASE ~ Status!DeleteRow(v) /\ ~ Status!Callback(v)
    BY <2>3 DEF UserStep, Status!SignState, Status!StateExpires, Status!EditStatus, Status!Disconnect, Status!Compare,
                Status!ClearStatus, Status!ClearStatusWrites, Status!Leave, Kept
  <2>. QED
    BY <2>1, <2>2, <2>3
<1>3. OneWriter'
  BY <1>1, <1>2 DEF OneWriter, Status!WritesFor
<1>4. MarkedText'
  BY <1>1, <1>2 DEF MarkedText, Marks, Kept
<1>5. StoredText'
  BY <1>1, <1>2 DEF StoredText, Marks, Kept
<1>. QED
  BY <1>3, <1>4, <1>5

LEMMA KnownStepKeeps == Status!TextAssumption /\ KnownInv /\ [Status!Next]_statusVars => KnownInv'
<1>. SUFFICES ASSUME Status!TextAssumption, KnownInv, [Status!Next]_statusVars PROVE KnownInv'
  OBVIOUS
<1>0. StatusTypeOK'
  BY StatusStepKeeps DEF KnownInv
<1>1. CASE UNCHANGED statusVars
  BY <1>0, <1>1 DEF statusVars, KnownInv, OneWriter, MarkedText, StoredText, Kept, Marks, Status!WritesFor
<1>2. ASSUME NEW u \in Listener, UserStep(u) PROVE KnownInv'
  BY <1>0, <1>2, UserKnown
<1>3. ASSUME NEW p \in Pass, PassStepOf(p) PROVE KnownInv'
  BY <1>0, <1>3, OtherKnown, ReadKnown, WriteKnown, MarkKnown DEF PassStepOf
<1>. QED
  BY <1>1, <1>2, <1>3, StatusNext

\* Spotify's status on a profile has the text that the integration has stored, or that a pass is
\* about to store, unless the user is adrift (NowPlaying says when): however passes overlap, texts
\* are saved by hand, Spotify's own old ones too, and users connect, reconnect and disconnect.
THEOREM StoredTextIsKnown == AccountSpec => []OwnStatusIsKnown
<1>1. KnownInv => OwnStatusIsKnown
  BY DEF KnownInv, StoredText, MarkedText, Kept, Marks, OwnStatusIsKnown, Status!OwnStatusIsKnown
<1>2. AccountInit => KnownInv
  BY KnownInitially, TextsAndKeys DEF AccountInit
<1>3. KnownInv /\ [AccountNext]_<<turn, vars, statusVars, vaultVars>> => KnownInv'
  BY KnownStepKeeps, StatusPart, TextsAndKeys
<1>. QED
  BY <1>1, <1>2, <1>3, PTL DEF AccountSpec

-----------------------------------------------------------------------------
(* The tokens of a connection that is dropped *)

\* A connection of u's as a pass has read it: it has been made, and no later one has its id.
Snapshot(r, u) ==
  /\ r.id \in 1 .. rowIds /\ r.first <= r.token /\ r.first <= spotify[u]
  /\ r.id = row[u].id => r.first = row[u].first

HasSnapshots(x) ==
  /\ x.at # "idle" => \A r \in x.rows : Snapshot(r.row, r.u)
  /\ x.at \in {"refresh", "store", "ask"} => Snapshot(x.row, x.u)
  /\ x.at = "store" => x.row.first <= x.token
  /\ x.at \in {"read", "write", "mark"} => x.id # 0

RowsInOrder ==
  \A u \in Listener :
    /\ row[u] = Status!NoRow \/ row[u].id \in 1 .. rowIds
    /\ row[u].first <= row[u].token /\ row[u].first <= spotify[u]

TokenInv == StatusTypeOK /\ RowsInOrder /\ \A p \in Pass : HasSnapshots(pass[p])

LEMMA TokenInitially == Status!Init => TokenInv
<1>. SUFFICES ASSUME Status!Init PROVE TokenInv
  OBVIOUS
<1>1. RowsInOrder /\ \A p \in Pass : HasSnapshots(pass[p])
  BY DEF Status!Init, RowsInOrder, HasSnapshots, Status!NoRow, Status!Quiet
<1>. QED
  BY <1>1, StatusInitially DEF TokenInv

\* The connections that are there keep their ids and their first tokens; new ones have new ids.
RowsGoOn ==
  /\ rowIds' \in {rowIds, rowIds + 1}
  /\ \A u \in Listener :
       /\ spotify'[u] >= spotify[u]
       /\ row'[u].id \in {0, rowIds + 1} \/ (row'[u].id = row[u].id /\ row'[u].first = row[u].first)

LEMMA SnapshotStays ==
  ASSUME StatusTypeOK, StatusTypeOK', RowsGoOn, NEW u \in Listener, NEW r \in Connection, Snapshot(r, u)
  PROVE  Snapshot(r, u)'
<1>1. /\ r.id \in Nat /\ r.first \in Nat /\ rowIds \in Nat /\ spotify[u] \in Nat /\ spotify'[u] \in Nat
      /\ row[u].id \in Nat /\ row'[u].id \in Nat
  BY DEF StatusTypeOK, Connection
<1>2. r.id \in 1 .. rowIds' /\ r.first <= spotify'[u]
  BY <1>1 DEF RowsGoOn, Snapshot
<1>3. r.id = row'[u].id => r.first = row'[u].first
  BY <1>1 DEF RowsGoOn, Snapshot
<1>. QED
  BY <1>2, <1>3 DEF Snapshot

\* What a pass in its shape has read stays.
LEMMA SnapshotsStay ==
  ASSUME StatusTypeOK, StatusTypeOK', RowsGoOn, NEW x \in Passes, HasSnapshots(x)
  PROVE  HasSnapshots(x)'
<1>1. CASE x = Status!Quiet
  BY <1>1 DEF HasSnapshots, Status!Quiet
<1>2. CASE x # Status!Quiet
  <2>1. \A r \in x.rows : r.row \in Connection /\ r.u \in Listener
    BY <1>2 DEF Passes, Asking, Storing, Writing, Connections
  <2>2. x.at \in {"refresh", "store", "ask"} => x.row \in Connection /\ x.u \in Listener
    BY <1>2 DEF Passes, Asking, Storing, Writing
  <2>3. x.at # "idle"
    BY <1>2 DEF Passes, Asking, Storing, Writing
  <2>. QED
    BY <2>1, <2>2, <2>3, SnapshotStays DEF HasSnapshots
<1>. QED
  BY <1>1, <1>2

LEMMA TokenPass ==
  ASSUME NEW p \in Pass, NEW next, TokenInv, StatusTypeOK', Status!Step(p, next), HasSnapshots(next), RowsGoOn, RowsInOrder'
  PROVE  TokenInv'
<1>1. \A q \in Pass : pass'[q] = IF q = p THEN next ELSE pass[q]
  BY DEF TokenInv, StatusTypeOK, Status!Step
<1>2. \A q \in Pass : pass'[q] \in Passes
  BY DEF StatusTypeOK
<1>3. \A q \in Pass : HasSnapshots(pass'[q])
  BY <1>1 DEF TokenInv
<1>4. ASSUME NEW q \in Pass PROVE HasSnapshots(pass[q])'
  <2>. DEFINE x == pass'[q]
  <2>1. x \in Passes /\ HasSnapshots(x)
    BY <1>2, <1>3
  <2>. QED
    BY <2>1, SnapshotsStay DEF TokenInv
<1>. QED
  BY <1>4 DEF TokenInv

\* The rows and the tokens are left alone.
LEMMA TokenStill ==
  ASSUME TokenInv, UNCHANGED <<row, spotify, rowIds>>
  PROVE  RowsGoOn /\ RowsInOrder'
<1>1. \A u \in Listener : spotify[u] \in Nat
  BY DEF TokenInv, StatusTypeOK
<1>. QED
  BY <1>1 DEF TokenInv, RowsGoOn, RowsInOrder

LEMMA SyncUserSnapshots ==
  ASSUME NEW rows, \A r \in rows : Snapshot(r.row, r.u), NEW x \in Status!SyncUser(rows)
  PROVE  HasSnapshots(x)
<1>1. CASE x = Status!Quiet
  BY <1>1 DEF HasSnapshots, Status!Quiet
<1>2. CASE x # Status!Quiet
  <2>1. PICK r \in rows, phase \in {"refresh", "ask"} :
          x = [at |-> phase, rows |-> rows \ {r}, u |-> r.u, row |-> r.row, again |-> FALSE]
    BY <1>2 DEF Status!SyncUser
  <2>. QED
    BY <2>1 DEF HasSnapshots
<1>. QED
  BY <1>1, <1>2

LEMMA TokenDone ==
  ASSUME NEW p \in Pass, TokenInv, StatusTypeOK', pass[p].at # "idle", Status!Done(p), RowsGoOn, RowsInOrder'
  PROVE  TokenInv'
<1>1. PICK next \in Status!SyncUser(pass[p].rows) : Status!Step(p, next)
  BY DEF Status!Done
<1>2. \A r \in pass[p].rows : Snapshot(r.row, r.u)
  BY DEF TokenInv, HasSnapshots
<1>. QED
  BY <1>1, <1>2, SyncUserSnapshots, TokenPass

LEMMA TokenPoll ==
  ASSUME NEW p \in Pass, TokenInv, StatusTypeOK', Status!PollOnce(p)
  PROVE  TokenInv'
<1>1. PICK online \in SUBSET {u \in Listener : row[u] # Status!NoRow} :
        \E next \in Status!SyncUser({[u |-> u, row |-> row[u]] : u \in online}) : Status!Step(p, next)
  BY DEF Status!PollOnce
<1>. DEFINE rows == {[u |-> u, row |-> row[u]] : u \in online}
<1>2. \A r \in rows : Snapshot(r.row, r.u)
  BY DEF TokenInv, RowsInOrder, Snapshot
<1>3. RowsGoOn /\ RowsInOrder'
  BY <1>1, TokenStill DEF Status!PollOnce, Status!Step
<1>. QED
  BY <1>1, <1>2, <1>3, SyncUserSnapshots, TokenPass

\* Spotify's new token is newer than the row's first; so is the row's own, as the pass has read it.
LEMMA TokenRefresh ==
  ASSUME NEW p \in Pass, TokenInv, StatusTypeOK', Status!Refresh(p)
  PROVE  TokenInv'
<1>1. pass[p] \in Asking /\ pass[p].at # "idle" /\ UNCHANGED row
  BY Phases DEF Status!Refresh, TokenInv
<1>2. CASE Status!Done(p) /\ UNCHANGED spotify
  <2>1. UNCHANGED rowIds
    BY <1>2 DEF Status!Done, Status!Step
  <2>. QED
    BY <1>1, <1>2, <2>1, TokenStill, TokenDone
<1>3. ASSUME NEW token \in {pass[p].row.token} \cup {n \in {spotify[pass[p].u] + 1} : n <= MaxTokens},
             spotify' = [spotify EXCEPT ![pass[p].u] = IF token = pass[p].row.token THEN @ ELSE token],
             Status!Step(p, [at |-> "store", token |-> token, rows |-> pass[p].rows, u |-> pass[p].u, row |-> pass[p].row,
                      again |-> pass[p].again])
      PROVE  TokenInv'
  <2>. DEFINE next == [at |-> "store", token |-> token, rows |-> pass[p].rows, u |-> pass[p].u, row |-> pass[p].row,
                       again |-> pass[p].again]
  <2>1. /\ pass[p].u \in Listener /\ pass[p].row.first \in Nat /\ pass[p].row.token \in Nat
        /\ \A u \in Listener : spotify[u] \in Nat /\ row[u].first \in Nat
    BY <1>1 DEF Asking, Connection, TokenInv, StatusTypeOK
  <2>2. Snapshot(pass[p].row, pass[p].u) /\ \A r \in pass[p].rows : Snapshot(r.row, r.u)
    BY <1>1 DEF TokenInv, HasSnapshots, Asking
  <2>3. pass[p].row.first <= token
    BY <1>3, <2>1, <2>2 DEF Snapshot
  <2>4. HasSnapshots(next)
    BY <2>2, <2>3 DEF HasSnapshots
  <2>5. \A u \in Listener : spotify'[u] >= spotify[u]
    BY <1>3, <2>1 DEF TokenInv, StatusTypeOK
  <2>6. UNCHANGED rowIds /\ Status!Step(p, next)
    BY <1>3 DEF Status!Step
  <2>. HIDE DEF next
  <2>7. RowsGoOn
    BY <1>1, <2>5, <2>6 DEF RowsGoOn
  <2>8. \A u \in Listener : spotify'[u] \in Nat
    BY DEF StatusTypeOK
  <2>9. RowsInOrder'
    BY <1>1, <2>1, <2>5, <2>6, <2>8 DEF TokenInv, RowsInOrder
  <2>. QED
    BY <2>4, <2>6, <2>7, <2>9, TokenPass
<1>. QED
  BY <1>2, <1>3 DEF Status!Refresh

\* The row with the id that the pass has read is the row that it has read.
LEMMA TokenStore ==
  ASSUME NEW p \in Pass, TokenInv, StatusTypeOK', Status!StoreTokens(p)
  PROVE  TokenInv'
<1>. DEFINE next == [at |-> "ask", rows |-> pass[p].rows, u |-> pass[p].u, row |-> pass[p].row, again |-> pass[p].again]
            v == pass[p].u
<1>1. pass[p] \in Storing /\ pass[p].at = "store" /\ Status!Step(p, next) /\ UNCHANGED <<spotify, rowIds>>
  BY Phases DEF Status!StoreTokens, TokenInv, Status!Step
<1>2. Snapshot(pass[p].row, v) /\ pass[p].row.first <= pass[p].token /\ \A r \in pass[p].rows : Snapshot(r.row, r.u)
  BY <1>1 DEF TokenInv, HasSnapshots
<1>3. HasSnapshots(next)
  BY <1>2 DEF HasSnapshots
<1>4. v \in Listener /\ \A u \in Listener : spotify[u] \in Nat /\ row[u] \in Connection
  BY <1>1 DEF Storing, TokenInv, StatusTypeOK
<1>. HIDE DEF next, v
<1>5. CASE row' = row
  BY <1>1, <1>3, <1>5, TokenStill, TokenPass
<1>6. CASE row[v].id = pass[p].row.id /\ row' = [row EXCEPT ![v].token = pass[p].token]
  <2>1. /\ row'[v].id = row[v].id /\ row'[v].first = row[v].first /\ row'[v].token = pass[p].token
        /\ \A u \in Listener : u # v => row'[u] = row[u]
    BY <1>4, <1>6 DEF TokenInv, StatusTypeOK, Connection
  <2>2. RowsGoOn
    BY <1>1, <1>4, <2>1 DEF RowsGoOn
  <2>3. row[v].first <= pass[p].token /\ row[v].id \in 1 .. rowIds
    BY <1>2, <1>6 DEF Snapshot
  <2>4. RowsInOrder'
    BY <1>1, <2>1, <2>3 DEF TokenInv, RowsInOrder
  <2>. QED
    BY <1>1, <1>3, <2>2, <2>4, TokenPass
<1>. QED
  BY <1>5, <1>6 DEF Status!StoreTokens, v

LEMMA TokenAsk ==
  ASSUME NEW p \in Pass, TokenInv, StatusTypeOK', Status!Ask(p)
  PROVE  TokenInv'
<1>1. pass[p] \in Asking /\ pass[p].at = "ask" /\ UNCHANGED <<row, spotify>>
  BY Phases DEF Status!Ask, TokenInv
<1>2. Snapshot(pass[p].row, pass[p].u) /\ \A r \in pass[p].rows : Snapshot(r.row, r.u)
  BY <1>1 DEF TokenInv, HasSnapshots
<1>3. RowsGoOn /\ RowsInOrder'
  <2>1. UNCHANGED rowIds
    BY DEF Status!Ask, Status!Done, Status!Step
  <2>. QED
    BY <1>1, <2>1, TokenStill
<1>4. CASE Status!Done(p)
  BY <1>1, <1>3, <1>4, TokenDone
<1>5. ASSUME NEW text,
             Status!Step(p, [at |-> "read", rows |-> pass[p].rows, u |-> pass[p].u, id |-> pass[p].row.id,
                      ours |-> pass[p].row.last, text |-> text])
      PROVE  TokenInv'
  <2>. DEFINE next == [at |-> "read", rows |-> pass[p].rows, u |-> pass[p].u, id |-> pass[p].row.id,
                       ours |-> pass[p].row.last, text |-> text]
  <2>0. pass[p].row.id # 0
    BY <1>1, <1>2 DEF Snapshot, TokenInv, StatusTypeOK
  <2>1. HasSnapshots(next)
    BY <1>2, <2>0 DEF HasSnapshots
  <2>. QED
    BY <1>3, <1>5, <2>1, TokenPass
<1>6. CASE Status!Step(p, [pass[p] EXCEPT !.at = "refresh", !.again = TRUE])
  <2>. DEFINE next == [pass[p] EXCEPT !.at = "refresh", !.again = TRUE]
  <2>1. next.at = "refresh" /\ next.rows = pass[p].rows /\ next.u = pass[p].u /\ next.row = pass[p].row
    BY <1>1 DEF Asking
  <2>2. HasSnapshots(next)
    BY <1>2, <2>1 DEF HasSnapshots
  <2>. QED
    BY <1>3, <1>6, <2>2, TokenPass
<1>. QED
  BY <1>4, <1>5, <1>6 DEF Status!Ask

\* A pass from the profile's read on has no token to store.
LEMMA TokenWrite ==
  ASSUME NEW p \in Pass, TokenInv, StatusTypeOK',
         Status!ReadStatus(p) \/ Status!WriteStatus(p) \/ Status!Mark(p)
  PROVE  TokenInv'
<1>1. pass[p] \in Writing /\ pass[p].at # "idle" /\ pass[p].id # 0 /\ \A r \in pass[p].rows : Snapshot(r.row, r.u)
  BY Phases DEF Status!ReadStatus, Status!WriteStatus, Status!Mark, TokenInv, Writing, HasSnapshots
<1>2. UNCHANGED <<spotify, rowIds>>
  BY DEF Status!ReadStatus, Status!WriteStatus, Status!Mark, Status!Done, Status!Step
<1>3. \A u \in Listener : row'[u].id = row[u].id /\ row'[u].first = row[u].first /\ row'[u].token = row[u].token
  <2>1. CASE Status!Mark(p)
    BY <2>1 DEF Status!Mark, TokenInv, StatusTypeOK, Connection
  <2>2. CASE ~ Status!Mark(p)
    BY <2>2 DEF Status!ReadStatus, Status!WriteStatus
  <2>. QED
    BY <2>1, <2>2
<1>4. \A u \in Listener : spotify[u] \in Nat /\ row'[u] \in Connection
  BY DEF TokenInv, StatusTypeOK
<1>5. RowsGoOn
  BY <1>2, <1>3, <1>4 DEF RowsGoOn
<1>6. \A u \in Listener : row[u] = Status!NoRow => row'[u] = Status!NoRow
  <2>1. row' = row \/ (row[pass[p].u].id = pass[p].id /\ row' = [row EXCEPT ![pass[p].u].last = pass[p].text])
    BY DEF Status!ReadStatus, Status!WriteStatus, Status!Mark
  <2>2. \A u \in Listener : u # pass[p].u => row'[u] = row[u]
    BY <2>1 DEF TokenInv, StatusTypeOK
  <2>3. row[pass[p].u] = Status!NoRow => row' = row
    BY <1>1, <2>1 DEF Status!NoRow
  <2>. QED
    BY <2>2, <2>3
<1>7. RowsInOrder'
  BY <1>2, <1>3, <1>6 DEF TokenInv, RowsInOrder
<1>8. CASE Status!Done(p)
  BY <1>1, <1>5, <1>7, <1>8, TokenDone
<1>9. ASSUME NEW phase \in {"write", "mark"}, Status!Step(p, [pass[p] EXCEPT !.at = phase])
      PROVE  TokenInv'
  <2>. DEFINE next == [pass[p] EXCEPT !.at = phase]
  <2>1. next.at = phase /\ next.rows = pass[p].rows /\ next.id = pass[p].id
    BY <1>1 DEF Writing
  <2>2. HasSnapshots(next)
    BY <1>1, <2>1 DEF HasSnapshots
  <2>. QED
    BY <1>5, <1>7, <1>9, <2>2, TokenPass
<1>. QED
  BY <1>8, <1>9 DEF Status!ReadStatus, Status!WriteStatus, Status!Mark

LEMMA TokenFail ==
  ASSUME NEW p \in Pass, TokenInv, StatusTypeOK', Status!SyncFails(p)
  PROVE  TokenInv'
<1>1. pass[p].at # "idle" /\ Status!Done(p) /\ UNCHANGED <<row, spotify, rowIds>>
  BY DEF Status!SyncFails, Status!Done, Status!Step
<1>. QED
  BY <1>1, TokenStill, TokenDone

\* A connection that is made has an id and a token of its own; one that is renewed has a newer token.
LEMMA TokenUser ==
  ASSUME Status!TextAssumption, NEW v \in Listener, TokenInv, StatusTypeOK', UserStep(v)
  PROVE  TokenInv'
<1>. USE DEF TokenInv
<1>1. \A u \in Listener : /\ row[u] \in Connection /\ row'[u] \in Connection
                           /\ spotify[u] \in Nat /\ spotify'[u] \in Nat /\ spotify'[u] >= spotify[u]
  BY UserRows DEF StatusTypeOK
<1>2. rowIds \in Nat /\ rowIds' \in {rowIds, rowIds + 1}
  BY UserRows DEF StatusTypeOK
<1>3. RowsGoOn
  BY <1>1, <1>2, UserRows DEF RowsGoOn, Status!NoRow
<1>4. RowsInOrder'
  <2>. SUFFICES ASSUME NEW u \in Listener
                PROVE  /\ row'[u] = Status!NoRow \/ row'[u].id \in 1 .. rowIds'
                       /\ row'[u].first <= row'[u].token /\ row'[u].first <= spotify'[u]
    BY DEF RowsInOrder
  <2>1. CASE row'[u] = Status!NoRow
    BY <1>1, <2>1 DEF Status!NoRow
  <2>2. CASE row'[u] = row[u] /\ row[u] # Status!NoRow
    BY <1>1, <1>2, <2>2 DEF RowsInOrder, Connection
  <2>3. CASE rowIds' = rowIds + 1 /\ row'[u].id = rowIds' /\ row'[u].token = row'[u].first /\ row'[u].first = spotify'[u]
    BY <1>1, <1>2, <2>3
  <2>4. CASE row[u] # Status!NoRow /\ row'[u].id = row[u].id /\ row'[u].first = row[u].first /\ row'[u].token = spotify'[u]
    <3>1. row[u].first \in Nat /\ row[u].first <= spotify[u] /\ row[u].id \in 1 .. rowIds
      BY <1>1, <2>4 DEF RowsInOrder, Connection
    <3>. QED
      BY <1>1, <1>2, <2>4, <3>1
  <2>. QED
    BY <2>1, <2>2, <2>3, <2>4, UserRows
<1>5. UNCHANGED pass
  BY UserWrites
<1>6. \A p \in Pass : HasSnapshots(pass[p])'
  <2>. SUFFICES ASSUME NEW p \in Pass PROVE HasSnapshots(pass[p])'
    OBVIOUS
  <2>. DEFINE x == pass[p]
  <2>1. x \in Passes /\ HasSnapshots(x)
    BY DEF StatusTypeOK
  <2>. QED
    BY <1>3, <1>5, <2>1, SnapshotsStay
<1>. QED
  BY <1>4, <1>6

LEMMA TokenStepKeeps == Status!TextAssumption /\ TokenInv /\ [Status!Next]_statusVars => TokenInv'
<1>. SUFFICES ASSUME Status!TextAssumption, TokenInv, [Status!Next]_statusVars PROVE TokenInv'
  OBVIOUS
<1>0. StatusTypeOK'
  BY StatusStepKeeps DEF TokenInv
<1>1. CASE UNCHANGED statusVars
  BY <1>0, <1>1 DEF statusVars, TokenInv, RowsInOrder, HasSnapshots, Snapshot
<1>2. ASSUME NEW u \in Listener, UserStep(u) PROVE TokenInv'
  BY <1>0, <1>2, TokenUser
<1>3. ASSUME NEW p \in Pass, PassStepOf(p) PROVE TokenInv'
  BY <1>0, <1>3, TokenPoll, TokenRefresh, TokenStore, TokenAsk, TokenWrite, TokenFail DEF PassStepOf
<1>. QED
  BY <1>1, <1>2, <1>3, StatusNext

\* A pass never writes a token of a connection that the user has dropped into the user's next
\* connection, however late it comes back from Spotify: no row has an older token than it was made with.
THEOREM OldTokensAreDropped == AccountSpec => []OldTokensStayDropped
<1>1. TokenInv => OldTokensStayDropped
  <2>. SUFFICES ASSUME TokenInv, NEW u \in Listener PROVE row[u].token >= row[u].first
    BY DEF OldTokensStayDropped, Status!OldTokensStayDropped
  <2>1. row[u].token \in Nat /\ row[u].first \in Nat /\ row[u].first <= row[u].token
    BY DEF TokenInv, RowsInOrder, StatusTypeOK, Connection
  <2>. QED
    BY <2>1
<1>2. AccountInit => TokenInv
  BY TokenInitially DEF AccountInit
<1>3. TokenInv /\ [AccountNext]_<<turn, vars, statusVars, vaultVars>> => TokenInv'
  BY TokenStepKeeps, StatusPart, TextsAndKeys
<1>. QED
  BY <1>1, <1>2, <1>3, PTL DEF AccountSpec

-----------------------------------------------------------------------------
(* The vault *)

\* A tab that is to make a key, or a salt, is the only one, and there is none yet.
OneMaker ==
  /\ \A t \in Tab : tab[t].at = "new-key" => idb[BrowserOf[t]] = None
  /\ \A t, u \in Tab : tab[t].at = "new-key" /\ tab[u].at = "new-key" /\ BrowserOf[t] = BrowserOf[u] => t = u
  /\ \A t \in Tab : tab[t].at = "new-salt" => salt = None
  /\ \A t, u \in Tab : tab[t].at = "new-salt" /\ tab[u].at = "new-salt" => t = u

\* The keys a tab has in its memory are those that the browser and the server have.
KeysAreStored ==
  \A t \in Tab :
    /\ tab[t].cached # None => tab[t].cached = idb[BrowserOf[t]]
    /\ tab[t].passKey # None => tab[t].passKey[2] = salt /\ salt # None
    /\ tab[t].at = "post" =>
         IF tab[t].mode = "device" THEN tab[t].arg = idb[BrowserOf[t]] /\ tab[t].arg # None
                                   ELSE tab[t].arg[2] = salt /\ salt # None
    /\ tab[t].saves => tab[t].mode = "device" /\ tab[t].at \in {"key", "new-key"}

ItemsOpen ==
  \A i \in items :
    IF i.mode = "device" THEN i.from \in Vault!Browsers /\ i.key = idb[i.from] /\ i.key # None
                         ELSE i.key[2] = salt /\ salt # None

\* The tabs have the fields that their updates name.
Fields == {"at", "cached", "passKey", "mode", "locked", "saves", "arg"}
TabShape ==
  /\ DOMAIN tab = Tab /\ \A t \in Tab : DOMAIN tab[t] = Fields /\ tab[t].mode \in {"device", "passphrase"}
  /\ DOMAIN idb = Vault!Browsers
  /\ made \in Nat

Intact == OneMaker /\ KeysAreStored /\ ItemsOpen

VaultInv == TabShape /\ (clashed \/ Intact)

-----------------------------------------------------------------------------

LEMMA VaultInitially == Vault!Init => VaultInv
  BY DEF Vault!Init, VaultInv, TabShape, Intact, OneMaker, KeysAreStored, ItemsOpen, Vault!Fresh, Fields, Vault!Browsers

\* The tab goes on as r, which makes no key or salt and claims none that is not stored.
LEMMA TabStep ==
  ASSUME NEW t \in Tab, NEW r, VaultInv, Vault!Set(t, r), UNCHANGED <<salt, items, idb, made, clashed>>,
         DOMAIN r = Fields, r.mode \in {"device", "passphrase"}, r.at \notin {"new-key", "new-salt"},
         clashed \/ (/\ r.cached # None => r.cached = idb[BrowserOf[t]]
                     /\ r.passKey # None => r.passKey[2] = salt /\ salt # None
                     /\ r.at = "post" =>
                          IF r.mode = "device" THEN r.arg = idb[BrowserOf[t]] /\ r.arg # None
                                               ELSE r.arg[2] = salt /\ salt # None
                     /\ r.saves => r.mode = "device" /\ r.at = "key")
  PROVE  VaultInv'
<1>1. TabShape'
  BY DEF VaultInv, TabShape, Vault!Set
<1>2. ASSUME ~ clashed
      PROVE  Intact'
  <2>1. \A u \in Tab : tab'[u] = IF u = t THEN r ELSE tab[u]
    BY DEF VaultInv, TabShape, Vault!Set
  <2>2. OneMaker'
    BY <1>2, <2>1 DEF VaultInv, Intact, OneMaker
  <2>3. KeysAreStored'
    BY <1>2, <2>1 DEF VaultInv, Intact, KeysAreStored
  <2>4. ItemsOpen'
    BY <1>2 DEF VaultInv, Intact, ItemsOpen
  <2>. QED
    BY <2>2, <2>3, <2>4 DEF Intact
<1>. QED
  BY <1>1, <1>2 DEF VaultInv

\* What a tab does with its own memory and the keys that are there.
LEMMA OwnSteps ==
  ASSUME NEW t \in Tab, VaultInv,
         Vault!Reload(t) \/ Vault!ResolveSaveMode(t) \/ Vault!LockVault(t) \/ Vault!UnlockVault(t) \/ Vault!Save(t) \/ Vault!OpenItem(t)
  PROVE  VaultInv'
<1>0. DOMAIN tab[t] = Fields /\ DOMAIN Vault!Fresh = Fields /\ {tab[t].mode, Vault!Fresh.mode} \subseteq {"device", "passphrase"}
  BY DEF VaultInv, TabShape, Vault!Fresh, Fields
<1>. USE <1>0
<1>1. ASSUME ~ clashed PROVE KeysAreStored
  BY <1>1 DEF VaultInv, Intact
<1>9. ASSUME ~ clashed, tab[t].at = "idle" PROVE ~ tab[t].saves
  BY <1>1, <1>9 DEF KeysAreStored
<1>2. CASE Vault!Reload(t)
  <2>. DEFINE r == Vault!Fresh
  <2>1. Vault!Set(t, r) /\ UNCHANGED <<salt, items, idb, made, clashed>>
    BY <1>2 DEF Vault!Reload, Vault!Server
  <2>2. r.at = "idle" /\ r.cached = None /\ r.passKey = None /\ ~ r.saves
    BY DEF Vault!Fresh
  <2>. QED
    BY <2>1, <2>2, TabStep
<1>3. CASE Vault!ResolveSaveMode(t)
  <2>. DEFINE r == [tab[t] EXCEPT !.mode = IF salt = None THEN "device" ELSE "passphrase",
                                  !.locked = salt # None /\ tab[t].passKey = None]
  <2>1. Vault!Set(t, r) /\ UNCHANGED <<salt, items, idb, made, clashed>>
    BY <1>3 DEF Vault!ResolveSaveMode, Vault!Server
  <2>2. r.at = "idle" /\ r.cached = tab[t].cached /\ r.passKey = tab[t].passKey /\ r.saves = tab[t].saves
        /\ r.mode \in {"device", "passphrase"} /\ DOMAIN r = Fields
    BY <1>3 DEF Vault!ResolveSaveMode, Fields
  <2>3. clashed \/ ~ r.saves
    BY <1>1, <1>3, <2>2 DEF KeysAreStored, Vault!ResolveSaveMode
  <2>. HIDE DEF r
  <2>. QED
    BY <1>1, <2>1, <2>2, <2>3, TabStep DEF KeysAreStored
<1>4. CASE Vault!LockVault(t)
  <2>. DEFINE r == [tab[t] EXCEPT !.passKey = None]
  <2>1. Vault!Set(t, r) /\ UNCHANGED <<salt, items, idb, made, clashed>>
    BY <1>4 DEF Vault!LockVault, Vault!Server
  <2>2. r.at = "idle" /\ r.cached = tab[t].cached /\ r.passKey = None /\ r.saves = tab[t].saves /\ r.mode = tab[t].mode
        /\ DOMAIN r = Fields
    BY <1>4 DEF Vault!LockVault, Fields
  <2>. QED
    BY <1>1, <1>4, <1>9, <2>1, <2>2, TabStep DEF KeysAreStored, Vault!LockVault
<1>5. CASE Vault!UnlockVault(t)
  <2>1. PICK w \in Passphrase : Vault!Set(t, [tab[t] EXCEPT !.at = "salt", !.arg = w])
    BY <1>5 DEF Vault!UnlockVault
  <2>. DEFINE r == [tab[t] EXCEPT !.at = "salt", !.arg = w]
  <2>2. Vault!Set(t, r) /\ UNCHANGED <<salt, items, idb, made, clashed>>
    BY <1>5, <2>1 DEF Vault!UnlockVault, Vault!Server
  <2>3. r.at = "salt" /\ r.cached = tab[t].cached /\ r.passKey = tab[t].passKey /\ r.saves = tab[t].saves
        /\ r.mode = tab[t].mode /\ DOMAIN r = Fields
    BY DEF Fields
  <2>. QED
    BY <1>1, <1>5, <1>9, <2>2, <2>3, TabStep DEF KeysAreStored, Vault!UnlockVault
<1>6. CASE Vault!Save(t)
  <2>. DEFINE r == IF tab[t].mode = "device" THEN Vault!DeviceKey(t, TRUE)
                   ELSE [tab[t] EXCEPT !.at = "post", !.arg = tab[t].passKey]
  <2>1. Vault!Set(t, r) /\ UNCHANGED <<salt, items, idb, made, clashed>>
    BY <1>6 DEF Vault!Save, Vault!Server
  <2>2. /\ r.cached = tab[t].cached /\ r.passKey = tab[t].passKey /\ r.mode = tab[t].mode /\ DOMAIN r = Fields
        /\ r.at \in {"post", "key"} /\ (r.saves => (r.mode = "device" /\ r.at = "key") \/ tab[t].saves)
        /\ r.at = "post" => IF r.mode = "device" THEN r.arg = tab[t].cached /\ tab[t].cached # None
                            ELSE r.arg = tab[t].passKey /\ tab[t].passKey # None
    <3>1. CASE tab[t].mode = "device" /\ tab[t].cached # None
      <4>1. r = [tab[t] EXCEPT !.at = "post", !.saves = FALSE, !.cached = tab[t].cached, !.arg = tab[t].cached]
        BY <3>1 DEF Vault!DeviceKey, Vault!WithKey
      <4>. QED
        BY <3>1, <4>1 DEF Fields
    <3>2. CASE tab[t].mode = "device" /\ tab[t].cached = None
      <4>1. r = [tab[t] EXCEPT !.at = "key", !.saves = TRUE]
        BY <3>2 DEF Vault!DeviceKey
      <4>. QED
        BY <3>2, <4>1 DEF Fields
    <3>3. CASE tab[t].mode # "device"
      <4>1. r = [tab[t] EXCEPT !.at = "post", !.arg = tab[t].passKey] /\ tab[t].passKey # None
        BY <1>6, <3>3 DEF Vault!Save
      <4>. QED
        BY <3>3, <4>1 DEF Fields
    <3>. QED
      BY <3>1, <3>2, <3>3
  <2>. HIDE DEF r
  <2>. QED
    BY <1>1, <1>6, <1>9, <2>1, <2>2, TabStep DEF KeysAreStored, Vault!Save
<1>7. CASE Vault!OpenItem(t)
  <2>. DEFINE r == Vault!DeviceKey(t, FALSE)
  <2>1. Vault!Set(t, r) /\ UNCHANGED <<salt, items, idb, made, clashed>>
    BY <1>7 DEF Vault!OpenItem, Vault!Server
  <2>2. /\ r.cached = tab[t].cached /\ r.passKey = tab[t].passKey /\ r.mode = tab[t].mode /\ DOMAIN r = Fields
        /\ r.at \in {"idle", "key"} /\ ~ r.saves
    BY <1>7 DEF Vault!OpenItem, Vault!DeviceKey, Vault!WithKey, Fields
  <2>. QED
    BY <1>1, <2>1, <2>2, TabStep DEF KeysAreStored
<1>. QED
  BY <1>2, <1>3, <1>4, <1>5, <1>6, <1>7

\* The tab is to make the first key of its browser, or the first salt.
LEMMA ClaimStep ==
  ASSUME NEW t \in Tab, NEW phase \in {"new-key", "new-salt"}, VaultInv, Vault!Set(t, [tab[t] EXCEPT !.at = phase]),
         UNCHANGED <<salt, items, idb, made>>,
         phase = "new-key" => /\ tab[t].at = "key" /\ idb[BrowserOf[t]] = None
                              /\ clashed' = (clashed \/ \E u \in Tab \ {t} : BrowserOf[u] = BrowserOf[t] /\ tab[u].at = "new-key"),
         phase = "new-salt" => /\ tab[t].at = "salt" /\ salt = None
                               /\ clashed' = (clashed \/ \E u \in Tab \ {t} : tab[u].at = "new-salt")
  PROVE  VaultInv'
<1>. DEFINE r == [tab[t] EXCEPT !.at = phase]
<1>1. /\ \A u \in Tab : tab'[u] = IF u = t THEN r ELSE tab[u]
      /\ DOMAIN tab' = Tab
  BY DEF VaultInv, TabShape, Vault!Set
<1>2. /\ r.at = phase /\ r.cached = tab[t].cached /\ r.passKey = tab[t].passKey /\ r.mode = tab[t].mode
      /\ r.saves = tab[t].saves /\ DOMAIN r = Fields
  BY DEF VaultInv, TabShape, Fields
<1>. HIDE DEF r
<1>3. TabShape'
  BY <1>1, <1>2 DEF VaultInv, TabShape
<1>5. clashed => clashed'
  OBVIOUS
<1>4. ASSUME ~ clashed'
      PROVE  Intact'
  <2>0. Intact
    BY <1>4, <1>5 DEF VaultInv
  <2>1. OneMaker'
    <3>1. CASE phase = "new-key"
      <4>1. \A u \in Tab \ {t} : BrowserOf[u] = BrowserOf[t] => tab[u].at # "new-key"
        BY <1>4, <3>1
      <4>. QED
        BY <1>1, <1>2, <2>0, <3>1, <4>1 DEF OneMaker, Intact
    <3>2. CASE phase = "new-salt"
      <4>1. \A u \in Tab \ {t} : tab[u].at # "new-salt"
        BY <1>4, <3>2
      <4>. QED
        BY <1>1, <1>2, <2>0, <3>2, <4>1 DEF OneMaker, Intact
    <3>. QED
      BY <3>1, <3>2
  <2>2. KeysAreStored'
    BY <1>1, <1>2, <2>0 DEF KeysAreStored, Intact
  <2>3. ItemsOpen'
    BY <2>0 DEF ItemsOpen, Intact
  <2>. QED
    BY <2>1, <2>2, <2>3 DEF Intact
<1>. QED
  BY <1>3, <1>4 DEF VaultInv

\* POST /vault-salt, the read.
LEMMA ReadSaltStep ==
  ASSUME NEW t \in Tab, VaultInv, Vault!ReadSalt(t)
  PROVE  VaultInv'
<1>1. CASE salt = None
  BY <1>1, ClaimStep DEF Vault!ReadSalt, Vault!Server
<1>2. CASE salt # None
  <2>. DEFINE r == Vault!DeriveKey(t, salt)
  <2>1. Vault!Set(t, r) /\ UNCHANGED <<salt, items, idb, made, clashed>>
    BY <1>2 DEF Vault!ReadSalt, Vault!Server
  <2>2. /\ r.at = "idle" /\ r.cached = tab[t].cached /\ r.passKey = <<tab[t].arg, salt>> /\ r.mode = tab[t].mode
        /\ r.saves = tab[t].saves /\ DOMAIN r = Fields /\ r.mode \in {"device", "passphrase"}
    BY DEF Vault!DeriveKey, VaultInv, TabShape, Fields
  <2>. HIDE DEF r
  <2>3. clashed \/ (~ r.saves /\ (r.cached # None => r.cached = idb[BrowserOf[t]]))
    BY <2>2 DEF VaultInv, Intact, KeysAreStored, Vault!ReadSalt
  <2>. QED
    BY <1>2, <2>1, <2>2, <2>3, TabStep
<1>. QED
  BY <1>1, <1>2

\* The first salt: nothing has been sealed with a passphrase, unless two were made.
LEMMA WriteSaltStep ==
  ASSUME Vault!VaultAssumption, NEW t \in Tab, VaultInv, Vault!WriteSalt(t)
  PROVE  VaultInv'
<1>. DEFINE r == Vault!DeriveKey(t, made')
<1>1. /\ \A u \in Tab : tab'[u] = IF u = t THEN r ELSE tab[u]
      /\ DOMAIN tab' = Tab
      /\ salt' = made' /\ UNCHANGED <<items, idb, clashed>> /\ made' \in Nat
  BY DEF VaultInv, TabShape, Vault!Set, Vault!WriteSalt
<1>2. /\ r.at = "idle" /\ r.cached = tab[t].cached /\ r.passKey = <<tab[t].arg, made'>> /\ r.mode = tab[t].mode
      /\ r.saves = tab[t].saves /\ DOMAIN r = Fields
  BY DEF Vault!DeriveKey, VaultInv, TabShape, Fields
<1>. HIDE DEF r
<1>3. TabShape'
  BY <1>1, <1>2 DEF VaultInv, TabShape
<1>4. ASSUME ~ clashed
      PROVE  Intact'
  <2>0. Intact /\ tab[t].at = "new-salt" /\ salt = None /\ salt' # None
    BY <1>1, <1>4 DEF Vault!VaultAssumption, VaultInv, Intact, OneMaker, Vault!WriteSalt
  <2>1. OneMaker'
    BY <1>1, <1>2, <2>0 DEF OneMaker, Intact
  <2>2. KeysAreStored'
    BY <1>1, <1>2, <2>0 DEF KeysAreStored, Intact
  <2>3. ItemsOpen'
    BY <1>1, <2>0 DEF ItemsOpen, Intact
  <2>. QED
    BY <2>1, <2>2, <2>3 DEF Intact
<1>. QED
  BY <1>1, <1>3, <1>4 DEF VaultInv

\* What a tab is once it has its key at hand.
LEMMA WithKeyIs ==
  ASSUME NEW t \in Tab, NEW key, DOMAIN tab[t] = Fields
  PROVE  LET r == Vault!WithKey(t, key, tab[t].saves)
         IN /\ r.at = IF tab[t].saves THEN "post" ELSE "idle"
            /\ r.cached = key /\ r.passKey = tab[t].passKey /\ r.mode = tab[t].mode
            /\ ~ r.saves /\ (tab[t].saves => r.arg = key) /\ DOMAIN r = Fields
  BY DEF Vault!WithKey, Fields

LEMMA GetKeyStep ==
  ASSUME NEW t \in Tab, VaultInv, Vault!GetKey(t)
  PROVE  VaultInv'
<1>1. CASE idb[BrowserOf[t]] = None
  BY <1>1, ClaimStep DEF Vault!GetKey, Vault!Server
<1>2. CASE idb[BrowserOf[t]] # None
  <2>. DEFINE r == Vault!WithKey(t, idb[BrowserOf[t]], tab[t].saves)
  <2>1. Vault!Set(t, r) /\ UNCHANGED <<salt, items, idb, made, clashed>>
    BY <1>2 DEF Vault!GetKey, Vault!Server
  <2>2. /\ r.at = IF tab[t].saves THEN "post" ELSE "idle"
        /\ r.cached = idb[BrowserOf[t]] /\ r.passKey = tab[t].passKey /\ r.mode = tab[t].mode
        /\ ~ r.saves /\ (tab[t].saves => r.arg = idb[BrowserOf[t]]) /\ DOMAIN r = Fields
        /\ r.mode \in {"device", "passphrase"}
    BY WithKeyIs DEF VaultInv, TabShape
  <2>. HIDE DEF r
  <2>3. clashed \/ ((r.passKey # None => r.passKey[2] = salt /\ salt # None) /\ (tab[t].saves => r.mode = "device"))
    BY <2>2 DEF VaultInv, Intact, KeysAreStored
  <2>. QED
    BY <1>2, <2>1, <2>2, <2>3, TabStep
<1>. QED
  BY <1>1, <1>2

\* The first key of a browser: nothing has been sealed there, unless two were made.
LEMMA PutKeyStep ==
  ASSUME Vault!VaultAssumption, NEW t \in Tab, VaultInv, Vault!PutKey(t)
  PROVE  VaultInv'
<1>. DEFINE b == BrowserOf[t]
            r == Vault!WithKey(t, made', tab[t].saves)
<1>1. /\ \A u \in Tab : tab'[u] = IF u = t THEN r ELSE tab[u]
      /\ DOMAIN tab' = Tab
      /\ DOMAIN idb' = Vault!Browsers /\ \A c \in Vault!Browsers : idb'[c] = IF c = b THEN made' ELSE idb[c]
      /\ UNCHANGED <<items, salt, clashed>> /\ made' \in Nat /\ made' # None
      /\ b \in Vault!Browsers
  BY DEF Vault!VaultAssumption, VaultInv, TabShape, Vault!Set, Vault!PutKey, Vault!Server, Vault!Browsers
<1>2. /\ r.at = IF tab[t].saves THEN "post" ELSE "idle"
      /\ r.cached = made' /\ r.passKey = tab[t].passKey /\ r.mode = tab[t].mode
      /\ ~ r.saves /\ (tab[t].saves => r.arg = made') /\ DOMAIN r = Fields
  BY WithKeyIs DEF VaultInv, TabShape
<1>. HIDE DEF r
<1>3. TabShape'
  BY <1>1, <1>2 DEF VaultInv, TabShape
<1>4. ASSUME ~ clashed
      PROVE  Intact'
  <2>0. Intact /\ tab[t].at = "new-key" /\ idb[b] = None
    BY <1>4 DEF VaultInv, Intact, OneMaker, Vault!PutKey
  <2>1. OneMaker'
    <3>1. \A u \in Tab : tab'[u].at = "new-key" => u # t /\ tab[u].at = "new-key" /\ BrowserOf[u] # b /\ BrowserOf[u] \in Vault!Browsers
      BY <1>1, <1>2, <2>0 DEF OneMaker, Intact, Vault!Browsers
    <3>2. \A u \in Tab : tab'[u].at = "new-salt" => u # t /\ tab[u].at = "new-salt"
      BY <1>1, <1>2
    <3>. QED
      BY <1>1, <2>0, <3>1, <3>2 DEF OneMaker, Intact
  <2>2. KeysAreStored'
    <3>1. \A u \in Tab : BrowserOf[u] \in Vault!Browsers
      BY DEF Vault!Browsers
    <3>2. \A u \in Tab \ {t} : tab'[u] = tab[u] /\ (idb'[BrowserOf[u]] = idb[BrowserOf[u]] \/ idb[BrowserOf[u]] = None)
      BY <1>1, <2>0, <3>1
    <3>3. idb'[BrowserOf[t]] = made'
      BY <1>1
    <3>4. tab'[t] = r
      BY <1>1
    <3>. QED
      BY <1>1, <1>2, <2>0, <3>2, <3>3, <3>4 DEF KeysAreStored, Intact
  <2>3. ItemsOpen'
    BY <1>1, <2>0 DEF ItemsOpen, Intact
  <2>. QED
    BY <2>1, <2>2, <2>3 DEF Intact
<1>. QED
  BY <1>1, <1>3, <1>4 DEF VaultInv

\* POST /: what the tab has sealed is stored with the key that is its browser's, or everybody's.
LEMMA PostStep ==
  ASSUME NEW t \in Tab, VaultInv, Vault!Post(t)
  PROVE  VaultInv'
<1>. DEFINE r == [tab[t] EXCEPT !.at = "idle", !.arg = None]
            i == [id |-> ids', mode |-> tab[t].mode, key |-> tab[t].arg, link |-> None, from |-> BrowserOf[t]]
<1>1. /\ \A u \in Tab : tab'[u] = IF u = t THEN r ELSE tab[u]
      /\ DOMAIN tab' = Tab
      /\ UNCHANGED <<idb, salt, made, clashed>> /\ items' = items \cup {i}
  BY DEF VaultInv, TabShape, Vault!Set, Vault!Post
<1>2. /\ r.at = "idle" /\ r.cached = tab[t].cached /\ r.passKey = tab[t].passKey /\ r.mode = tab[t].mode
      /\ r.saves = tab[t].saves /\ DOMAIN r = Fields
  BY DEF VaultInv, TabShape, Fields
<1>. HIDE DEF r
<1>3. TabShape'
  BY <1>1, <1>2 DEF VaultInv, TabShape
<1>4. ASSUME ~ clashed
      PROVE  Intact'
  <2>0. Intact /\ tab[t].at = "post"
    BY <1>4 DEF VaultInv, Vault!Post
  <2>1. OneMaker'
    BY <1>1, <1>2, <2>0 DEF OneMaker, Intact
  <2>2. KeysAreStored'
    BY <1>1, <1>2, <2>0 DEF KeysAreStored, Intact
  <2>3. IF i.mode = "device" THEN i.from \in Vault!Browsers /\ i.key = idb[i.from] /\ i.key # None
                             ELSE i.key[2] = salt /\ salt # None
    BY <2>0 DEF KeysAreStored, Intact, Vault!Browsers
  <2>. HIDE DEF i
  <2>4. ItemsOpen'
    BY <1>1, <2>0, <2>3 DEF ItemsOpen, Intact
  <2>. QED
    BY <2>1, <2>2, <2>4 DEF Intact
<1>. QED
  BY <1>1, <1>3, <1>4 DEF VaultInv

\* Linking, removing and leaving a chat leave the keys alone.
LEMMA ServerStep ==
  ASSUME VaultInv, Vault!Link \/ Vault!Remove \/ Vault!LeaveChat
  PROVE  VaultInv'
<1>1. UNCHANGED <<tab, idb, salt, made, clashed>>
  BY DEF Vault!Link, Vault!Remove, Vault!LeaveChat
<1>2. \A i \in items' : \E j \in items : i.mode = j.mode /\ i.key = j.key /\ i.from = j.from
  <2>1. CASE Vault!Link
    <3>1. PICK j \in items, c \in rosters \cup {None} : items' = (items \ {j}) \cup {[j EXCEPT !.link = c]}
      BY <2>1 DEF Vault!Link
    <3>2. LET k == [j EXCEPT !.link = c] IN k.mode = j.mode /\ k.key = j.key /\ k.from = j.from
      OBVIOUS
    <3>. QED
      BY <3>1, <3>2
  <2>2. CASE Vault!Remove \/ Vault!LeaveChat
    BY <2>2 DEF Vault!Remove, Vault!LeaveChat
  <2>. QED
    BY <2>1, <2>2
<1>3. ItemsOpen => ItemsOpen'
  BY <1>1, <1>2 DEF ItemsOpen
<1>4. TabShape' /\ (OneMaker => OneMaker') /\ (KeysAreStored => KeysAreStored')
  BY <1>1 DEF VaultInv, TabShape, OneMaker, KeysAreStored
<1>. QED
  BY <1>1, <1>3, <1>4 DEF VaultInv, Intact

-----------------------------------------------------------------------------

LEMMA VaultStepKeeps == Vault!VaultAssumption /\ VaultInv /\ [Vault!Next]_vaultVars => VaultInv'
<1>. SUFFICES ASSUME Vault!VaultAssumption, VaultInv, [Vault!Next]_vaultVars PROVE VaultInv'
  OBVIOUS
<1>1. CASE UNCHANGED vaultVars
  BY <1>1 DEF vaultVars, VaultInv, TabShape, Intact, OneMaker, KeysAreStored, ItemsOpen
<1>2. CASE Vault!Link \/ Vault!Remove \/ Vault!LeaveChat
  BY <1>2, ServerStep
<1>3. ASSUME NEW t \in Tab,
             \/ Vault!Reload(t) \/ Vault!ResolveSaveMode(t) \/ Vault!LockVault(t) \/ Vault!UnlockVault(t) \/ Vault!ReadSalt(t) \/ Vault!WriteSalt(t)
             \/ Vault!GetKey(t) \/ Vault!PutKey(t) \/ Vault!Save(t) \/ Vault!Post(t) \/ Vault!OpenItem(t)
      PROVE  VaultInv'
  BY <1>3, OwnSteps, ReadSaltStep, WriteSaltStep, GetKeyStep, PutKeyStep, PostStep
<1>. QED
  BY <1>1, <1>2, <1>3 DEF Vault!Next

\* Every saved conversation can be opened on the device that saved it, or with the passphrase
\* on every device, unless two tabs have made a browser's first key, or two devices the first
\* salt, at the same time.
THEOREM SavedCanBeOpened == AccountSpec => []SavedItemsOpen
<1>1. VaultInv => SavedItemsOpen
  BY DEF VaultInv, Intact, ItemsOpen, SavedItemsOpen, Vault!SavedItemsOpen
<1>2. AccountInit => VaultInv
  BY VaultInitially DEF AccountInit
<1>3. VaultInv /\ [AccountNext]_<<turn, vars, statusVars, vaultVars>> => VaultInv'
  BY VaultStepKeeps, VaultPart, TextsAndKeys
<1>. QED
  BY <1>1, <1>2, <1>3, PTL DEF AccountSpec
=============================================================================
