----------------------------- MODULE NowPlaying -----------------------------
(***************************************************************************)
(* The Spotify status (apps/api/src/integrations/nowPlaying.ts and         *)
(* spotify.ts): the poller that writes what a user is listening to into    *)
(* the profile's status text, the OAuth flow and the disconnect handler    *)
(* (modules/integrations.ts), and the user's own profile edits             *)
(* (modules/account.ts).                                                   *)
(*                                                                         *)
(* setInterval does not wait for the previous pass, so Pass is a set of    *)
(* passes that may be under way together.  A pass holds the rows it has    *)
(* selected and works on one at a time; it runs from one database or       *)
(* Spotify call to the next in one step.  A refresh token is the number of *)
(* its generation: Spotify may replace it at every use, and may reject one *)
(* that has been replaced.  Clocks are left out: an access token may have  *)
(* expired, or be about to, and a signed state may have expired, at any    *)
(* time.  The profile frames to the peers are Presence's business.         *)
(*                                                                         *)
(* MaxEdits bounds the profiles saved by hand, MaxRows the rows made,      *)
(* MaxTokens the generations, MaxErrors the calls that fail.               *)
(***************************************************************************)
EXTENDS Naturals

CONSTANTS Listener, Track, Typed, Pass, None, MaxEdits, MaxRows, MaxTokens, MaxErrors

\* None, for null, is not a text, nor one who writes texts.
TextAssumption == None \notin Track \cup Typed \cup {"user", "spotify"}

VARIABLES
  status,    \* user.status_text: [text, by], `by' is history: who has put it there
  row,       \* user_integrations of each user: [id, token, last, first], or NoRow; `first' is
             \* history: the token that the row was made with
  spotify,   \* the newest refresh token of each user
  flows,     \* the users who hold a signed state
  pass,      \* the passes
  leaving,   \* the disconnect handlers
  rowIds, edits, errors,
  adrift     \* history: the users of whom two passes have been past writeStatus's read together, or
             \* whose row was gone, or its update failed, when a pass was to note the text it had written,
             \* or who disconnected while their status was Spotify's

statusVars == <<status, row, spotify, flows, pass, leaving, rowIds, edits, errors, adrift>>

NoRow == [id |-> 0, token |-> 0, last |-> None, first |-> 0]
Quiet == [at |-> "idle"]

Init ==
  /\ status = [u \in Listener |-> [text |-> None, by |-> None]]
  /\ row = [u \in Listener |-> NoRow] /\ spotify = [u \in Listener |-> 0]
  /\ flows = {} /\ pass = [p \in Pass |-> Quiet] /\ leaving = [u \in Listener |-> Quiet]
  /\ rowIds = 0 /\ edits = 0 /\ errors = 0 /\ adrift = {}

Fails == errors < MaxErrors /\ errors' = errors + 1

-----------------------------------------------------------------------------
(* The OAuth flow *)

\* A signed state names its user and can be used until it expires.
SignState(u) ==
  /\ u \notin flows
  /\ flows' = flows \cup {u}
  /\ UNCHANGED <<status, row, spotify, pass, leaving, rowIds, edits, errors, adrift>>

StateExpires(u) ==
  /\ u \in flows /\ flows' = flows \ {u}
  /\ UNCHANGED <<status, row, spotify, pass, leaving, rowIds, edits, errors, adrift>>

\* The callback stores new tokens; a row that is there keeps its id and its lastStatusText.
Callback(u) ==
  /\ u \in flows /\ spotify[u] < MaxTokens
  /\ spotify' = [spotify EXCEPT ![u] = @ + 1]
  /\ IF row[u] = NoRow THEN rowIds < MaxRows /\ rowIds' = rowIds + 1 ELSE UNCHANGED rowIds
  /\ row' = [row EXCEPT ![u] = IF @ = NoRow THEN [id |-> rowIds', token |-> spotify'[u], last |-> None, first |-> spotify'[u]]
                               ELSE [@ EXCEPT !.token = spotify'[u]]]
  /\ UNCHANGED <<status, flows, pass, leaving, edits, errors, adrift>>

\* The profile form sends its status with every save: one that the user has typed, or emptied, or the
\* one it has loaded, Spotify's too, which may be an old one by now.  The same text again is still whose
\* it was.
EditStatus(u) ==
  /\ edits < MaxEdits /\ edits' = edits + 1
  /\ \E t \in Typed \cup Track \cup {None} :
       LET by == IF t = None THEN None ELSE IF t = status[u].text THEN status[u].by ELSE "user"
       IN status' = [status EXCEPT ![u] = [text |-> t, by |-> by]]
  /\ UNCHANGED <<row, spotify, flows, pass, leaving, rowIds, errors, adrift>>

-----------------------------------------------------------------------------
(* writeStatus, of a pass and of a disconnect *)

\* A status the user has set: the text is not the one we last set.
Manual(text, ours) == text # None /\ text # ours

Publish(u, text) == status' = [status EXCEPT ![u] = [text |-> text, by |-> IF text = None THEN None ELSE "spotify"]]

-----------------------------------------------------------------------------
(* A pass *)

Step(p, next) ==
  /\ pass' = [pass EXCEPT ![p] = next]
  /\ UNCHANGED <<flows, leaving, rowIds, edits>>

\* The first calls that a pass with these rows to do may make next, or the end of the pass: an access token that
\* ends within a minute is refreshed before it is used.
SyncUser(rows) ==
  IF rows = {} THEN {Quiet}
  ELSE {[at |-> phase, rows |-> rows \ {r}, u |-> r.u, row |-> r.row, again |-> FALSE] : r \in rows, phase \in {"refresh", "ask"}}

\* The row is done with.
Done(p) == \E next \in SyncUser(pass[p].rows) : Step(p, next)

\* The online users are whoever has a socket (Presence).
PollOnce(p) ==
  /\ pass[p] = Quiet
  /\ \E online \in SUBSET {u \in Listener : row[u] # NoRow} :
       /\ online # {}
       /\ \E next \in SyncUser({[u |-> u, row |-> row[u]] : u \in online}) : Step(p, next)
  /\ UNCHANGED <<status, row, spotify, errors, adrift>>

\* Always the refresh token of the row as the pass has read it.
Refresh(p) ==
  LET x == pass[p]
  IN /\ x.at = "refresh"
     /\ \/ x.row.token # spotify[x.u] /\ Done(p) /\ UNCHANGED spotify
        \/ \E token \in {x.row.token} \cup {n \in {spotify[x.u] + 1} : n <= MaxTokens} :
               /\ spotify' = [spotify EXCEPT ![x.u] = IF token = x.row.token THEN @ ELSE token]
               /\ Step(p, [at |-> "store", token |-> token, rows |-> x.rows, u |-> x.u, row |-> x.row,
                           again |-> x.again])
     /\ UNCHANGED <<status, row, errors, adrift>>

\* Mutant: the update is of the user's row.
StoreTokensOfUser(p) ==
  LET x == pass[p]
  IN /\ x.at = "store"
     /\ row' = IF row[x.u] # NoRow THEN [row EXCEPT ![x.u].token = x.token] ELSE row
     /\ Step(p, [at |-> "ask", rows |-> x.rows, u |-> x.u, row |-> x.row, again |-> x.again])
     /\ UNCHANGED <<status, spotify, errors, adrift>>

\* The update is of the row with this id, which a disconnect may have deleted.
StoreTokens(p) ==
  LET x == pass[p]
  IN /\ x.at = "store"
     /\ row' = IF row[x.u].id = x.row.id THEN [row EXCEPT ![x.u].token = x.token] ELSE row
     /\ Step(p, [at |-> "ask", rows |-> x.rows, u |-> x.u, row |-> x.row, again |-> x.again])
     /\ UNCHANGED <<status, spotify, errors, adrift>>

\* What is playing; a rejected access token is refreshed once, and a second rejection ends the row.
Ask(p) ==
  LET x == pass[p]
  IN /\ x.at = "ask"
     /\ \/ \E text \in Track \cup {None} :
             IF text = x.row.last THEN Done(p)
             ELSE Step(p, [at |-> "read", rows |-> x.rows, u |-> x.u, id |-> x.row.id, ours |-> x.row.last, text |-> text])
        \/ IF x.again THEN Done(p) ELSE Step(p, [x EXCEPT !.at = "refresh", !.again = TRUE])
     /\ UNCHANGED <<status, row, spotify, errors, adrift>>

\* A pass that has read u's profile, and has still to write it or to note what it has written.
WritesFor(p, u) == pass[p].at \in {"write", "mark"} /\ pass[p].u = u

ReadStatus(p) ==
  LET x == pass[p]
  IN /\ x.at = "read"
     /\ IF Manual(status[x.u].text, x.ours) THEN Done(p) /\ UNCHANGED adrift
        ELSE /\ Step(p, [x EXCEPT !.at = "write"])
             /\ adrift' = IF \E q \in Pass \ {p} : WritesFor(q, x.u) THEN adrift \cup {x.u} ELSE adrift
     /\ UNCHANGED <<status, row, spotify, errors>>

WriteStatus(p) ==
  LET x == pass[p]
  IN /\ x.at = "write"
     /\ Publish(x.u, x.text)
     /\ Step(p, [x EXCEPT !.at = "mark"])
     /\ UNCHANGED <<row, spotify, errors, adrift>>

\* Mutant: lastStatusText is not written.
MarkNothing(p) ==
  /\ pass[p].at = "mark" /\ Done(p)
  /\ UNCHANGED <<status, row, spotify, errors, adrift>>

Mark(p) ==
  LET x == pass[p]
  IN /\ x.at = "mark"
     /\ IF row[x.u].id = x.id
          THEN row' = [row EXCEPT ![x.u].last = x.text] /\ UNCHANGED adrift
          ELSE adrift' = adrift \cup {x.u} /\ UNCHANGED row
     /\ Done(p)
     /\ UNCHANGED <<status, spotify, errors>>

\* A call of a user's row throws; the pass goes on with the next.
SyncFails(p) ==
  /\ pass[p].at \in {"refresh", "store", "ask", "read", "write", "mark"}
  /\ Fails /\ Done(p)
  /\ adrift' = IF pass[p].at = "mark" THEN adrift \cup {pass[p].u} ELSE adrift
  /\ UNCHANGED <<status, row, spotify>>

-----------------------------------------------------------------------------
(* Disconnect *)

Leave(u, next) ==
  /\ leaving' = [leaving EXCEPT ![u] = next]
  /\ UNCHANGED <<spotify, flows, pass, rowIds, edits, errors>>

Disconnect(u) ==
  /\ leaving[u] = Quiet /\ row[u] # NoRow
  /\ Leave(u, [at |-> "delete", last |-> row[u].last])
  /\ UNCHANGED <<status, row, adrift>>

DeleteRow(u) ==
  /\ leaving[u].at = "delete"
  /\ row' = [row EXCEPT ![u] = NoRow]
  /\ Leave(u, IF leaving[u].last = None THEN Quiet ELSE [leaving[u] EXCEPT !.at = "compare"])
  /\ adrift' = IF status[u].by = "spotify" THEN adrift \cup {u} ELSE adrift
  /\ UNCHANGED status

Compare(u) ==
  /\ leaving[u].at = "compare"
  /\ Leave(u, IF status[u].text = leaving[u].last THEN [leaving[u] EXCEPT !.at = "clear"] ELSE Quiet)
  /\ UNCHANGED <<status, row, adrift>>

\* writeStatus(userId, null, null): its read, which takes any text for a manual one.
ClearStatus(u) ==
  /\ leaving[u].at = "clear"
  /\ Leave(u, IF Manual(status[u].text, None) THEN Quiet ELSE [leaving[u] EXCEPT !.at = "clear-write"])
  /\ UNCHANGED <<status, row, adrift>>

ClearStatusWrites(u) ==
  /\ leaving[u].at = "clear-write"
  /\ Publish(u, None) /\ Leave(u, Quiet)
  /\ UNCHANGED <<row, adrift>>

Next ==
  \/ \E u \in Listener :
       \/ SignState(u) \/ StateExpires(u) \/ Callback(u) \/ EditStatus(u)
       \/ Disconnect(u) \/ DeleteRow(u) \/ Compare(u) \/ ClearStatus(u) \/ ClearStatusWrites(u)
  \/ \E p \in Pass :
       \/ PollOnce(p) \/ Refresh(p) \/ StoreTokens(p) \/ Ask(p)
       \/ ReadStatus(p) \/ WriteStatus(p) \/ Mark(p) \/ SyncFails(p)

Spec == Init /\ [][Next]_statusVars

-----------------------------------------------------------------------------
(* Properties *)

\* "It only writes or clears when the stored lastStatusText still matches what is on the profile"
\* (nowPlaying.ts:12-13) can only work if the stored text is that of the status Spotify has put there.  It
\* is, or a pass is about to store it, whatever is saved by hand, refreshed, reconnected or fails in
\* between, unless the user is adrift.  (What a form puts back there of Spotify's is the user's.)
OwnStatusIsKnown ==
  \A u \in Listener \ adrift : status[u].by = "spotify" =>
    status[u].text = row[u].last \/ \E p \in Pass : pass[p].at = "mark" /\ pass[p].u = u /\ pass[p].text = status[u].text

\* "Drop the tokens" (integrations.ts:79): a pass that still refreshes the tokens of a connection that is
\* dropped meanwhile writes none of them into the user's next connection, so that no row has an older
\* token than it was made with.
OldTokensStayDropped == \A u \in Listener : row[u].token >= row[u].first

\* "Drop the tokens and clear any status this integration set" (integrations.ts:79): when the handler of a
\* disconnect ends, and no pass is under way, the status on the profile is not Spotify's.
DisconnectLeavesNoStatus ==
  \A u \in Listener : leaving[u] # Quiet /\ leaving'[u] = Quiet /\ (\A p \in Pass : pass[p] = Quiet)
    => status'[u].by # "spotify"
=============================================================================
