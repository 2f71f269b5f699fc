--------------------------- MODULE DirectMessages ---------------------------
(***************************************************************************)
(* How two people come to hold one MLS group for their direct messages:    *)
(* the server's find-or-create of the conversation, its key packages and   *)
(* Welcomes (apps/api/src/chat/repo.ts, modules/chat.ts), the client's     *)
(* newChat and processWelcomes and its worker (apps/web/src/lib/           *)
(* chatClient.ts, worker/chat.worker.ts), and the safety numbers by which  *)
(* the two compare the result (lib/keyVerification.ts, VerifyKeys.tsx).    *)
(*                                                                         *)
(* An MLS group of two is known by the key package it was made with: the   *)
(* package is claimed once, and the starter makes a bundle of its own for  *)
(* each group, so no two groups have the same keys or the same number.     *)
(* The worker is serial, and an acknowledgement that is lost leaves a      *)
(* Welcome whose bundle is gone, which opens nothing: reading, joining and *)
(* acknowledging the Welcomes is therefore one step.  newChat is one step  *)
(* for each answer it awaits, and anything may happen between two of them. *)
(*                                                                         *)
(* User has two members, each with one device; they share no group         *)
(* conversation.                                                           *)
(* Bounds: MaxConversations rows, MaxPackages key packages a user makes,   *)
(* MaxFaults failed requests and closed tabs.                              *)
(***************************************************************************)
EXTENDS FiniteSetsExt, Naturals

CONSTANTS User, None, MaxConversations, MaxPackages, Target, MaxFaults

VARIABLES
  conversations, \* how many conversations of the two there are
  pool,          \* key_packages
  welcomes,      \* mls_welcomes: [to, conversation, group, createdAt]
  bundles,       \* the private halves in each device's store
  group,         \* the group state each device stores for a conversation
  made,          \* how many key packages each device has made
  chat,          \* what newChat awaits on each device: [at, conversation, group, blind]
  panel,         \* the number VerifyKeys shows: [conversation, group], or None
  confirmed,     \* the number the user has confirmed for a conversation
  unaware,       \* history: who has started a group and had seen no Welcome
  faults

server == <<conversations, pool, welcomes>>
device == <<bundles, group, made>>
keys == <<panel, confirmed>>
vars == <<server, device, chat, keys, unaware, faults>>

Conversation == 1 .. MaxConversations
Peer(u) == CHOOSE v \in User : v # u
Closed == [at |-> "closed", conversation |-> 0, group |-> None, blind |-> FALSE]
Idle == [Closed EXCEPT !.at = "idle"]

Init ==
  /\ conversations = 0 /\ pool = [u \in User |-> {}] /\ welcomes = {}
  /\ bundles = [u \in User |-> {}] /\ made = [u \in User |-> 0]
  /\ group = [u \in User |-> [c \in Conversation |-> None]]
  /\ chat = [u \in User |-> Closed]
  /\ panel = [u \in User |-> None]
  /\ confirmed = [u \in User |-> [c \in Conversation |-> None]]
  /\ unaware = [c \in Conversation |-> {}] /\ faults = 0

Fault == faults < MaxFaults /\ faults' = faults + 1

-----------------------------------------------------------------------------
(* Key packages and Welcomes *)

Opens(u, w) == w.to = u /\ w.group \in bundles[u]

Latest(W) == CHOOSE w \in W : \A v \in W : v.createdAt <= w.createdAt

\* processWelcomes: each Welcome that a bundle opens replaces the group state of its
\* conversation, the latest last, and its bundle is deleted.
ProcessWelcomes(u) ==
  LET opened == {w \in welcomes : Opens(u, w)}
      For(c) == {w \in opened : w.conversation = c}
  IN /\ group' = [group EXCEPT ![u] = [c \in Conversation |-> IF For(c) = {} THEN @[c] ELSE Latest(For(c)).group]]
     /\ bundles' = [bundles EXCEPT ![u] = @ \ {w.group : w \in opened}]
     /\ welcomes' = welcomes \ opened

\* start: the server's pool is filled up to Target.
OpenTab(u) ==
  /\ chat[u] = Closed
  /\ LET need == Min({Max({Target - Cardinality(pool[u]), 0}), MaxPackages - made[u]})
         fresh == {<<u, k>> : k \in made[u] + 1 .. made[u] + need}
     IN /\ pool' = [pool EXCEPT ![u] = @ \cup fresh]
        /\ bundles' = [bundles EXCEPT ![u] = @ \cup fresh]
        /\ made' = [made EXCEPT ![u] = @ + need]
  /\ chat' = [chat EXCEPT ![u] = Idle]
  /\ UNCHANGED <<conversations, welcomes, group, keys, unaware, faults>>

\* start processes the Welcomes; so does an ingest that cannot decrypt what the peer sent,
\* and retries.
Catch(u) ==
  /\ chat[u] # Closed
  /\ \E w \in welcomes : Opens(u, w)
  /\ ProcessWelcomes(u)
  /\ UNCHANGED <<conversations, pool, made, chat, keys, unaware, faults>>

-----------------------------------------------------------------------------
(* newChat *)

Await(u, at, c) == chat' = [chat EXCEPT ![u] = [Closed EXCEPT !.at = at, !.conversation = c]]

\* ensureGroup goes on to start a group; blind: it has seen no Welcome for the conversation.
Initiate(u, blind) == chat' = [chat EXCEPT ![u].at = "claim", ![u].blind = blind]

\* createDm: any conversation the two share, or a new one.
Find(u) ==
  /\ chat[u] = Idle
  /\ IF conversations = 0 THEN Await(u, "insert", 0)
                          ELSE \E c \in 1 .. conversations : Await(u, "ensure", c)
  /\ UNCHANGED <<server, device, keys, unaware, faults>>

\* createDm, the two inserts: a conversation is nobody's until its members are there.
Insert(u) ==
  /\ chat[u].at = "insert" /\ conversations < MaxConversations
  /\ conversations' = conversations + 1
  /\ Await(u, "ensure", conversations')
  /\ UNCHANGED <<pool, welcomes, device, keys, unaware, faults>>

\* Mutant of EnsureGroup: initiates without looking for a Welcome.
EnsureGroupInitiates(u) ==
  /\ chat[u].at = "ensure"
  /\ IF group[u][chat[u].conversation] # None THEN chat' = [chat EXCEPT ![u] = Idle] ELSE Initiate(u, FALSE)
  /\ UNCHANGED <<server, device, unaware, keys, faults>>

\* ensureGroup: a pending Welcome is joined before a group is started; a failing request
\* for the Welcomes counts as none (processWelcomes returns).
EnsureGroup(u) ==
  LET c == chat[u].conversation IN
  /\ chat[u].at = "ensure"
  /\ \/ /\ group[u][c] # None
        /\ chat' = [chat EXCEPT ![u] = Idle]
        /\ UNCHANGED <<welcomes, group, bundles, faults>>
     \/ /\ group[u][c] = None
        /\ ProcessWelcomes(u)
        /\ IF group'[u][c] # None THEN chat' = [chat EXCEPT ![u] = Idle] ELSE Initiate(u, TRUE)
        /\ UNCHANGED faults
     \/ /\ group[u][c] = None /\ Fault
        /\ Initiate(u, TRUE)
        /\ UNCHANGED <<welcomes, group, bundles>>
  /\ UNCHANGED <<conversations, pool, made, keys, unaware>>

\* claimKeyPackage: the oldest, or 409, which ends newChat.
Claim(u) ==
  /\ chat[u].at = "claim"
  /\ IF pool[Peer(u)] = {} THEN chat' = [chat EXCEPT ![u] = Idle] /\ UNCHANGED pool
     ELSE LET k == Min({p[2] : p \in pool[Peer(u)]}) IN
            /\ pool' = [pool EXCEPT ![Peer(u)] = @ \ {<<Peer(u), k>>}]
            /\ chat' = [chat EXCEPT ![u].at = "start", ![u].group = <<Peer(u), k>>]
  /\ UNCHANGED <<conversations, welcomes, device, keys, unaware, faults>>

\* worker startDm: whatever group the device has meanwhile joined is replaced.
StartDm(u) ==
  /\ chat[u].at = "start"
  /\ group' = [group EXCEPT ![u][chat[u].conversation] = chat[u].group]
  /\ chat' = [chat EXCEPT ![u].at = "relay", ![u].blind = FALSE]
  /\ unaware' = IF chat[u].blind THEN [unaware EXCEPT ![chat[u].conversation] = @ \cup {u}] ELSE unaware
  /\ UNCHANGED <<server, bundles, made, keys, faults>>

RelayWelcome(u) ==
  /\ chat[u].at = "relay"
  /\ welcomes' = welcomes \cup {[to |-> Peer(u), conversation |-> chat[u].conversation, group |-> chat[u].group,
                                createdAt |-> 1 + Max({0} \cup {w.createdAt : w \in welcomes})]}
  /\ chat' = [chat EXCEPT ![u] = Idle]
  /\ UNCHANGED <<conversations, pool, device, keys, unaware, faults>>

\* A request fails: newChat ends, what it has done so far stays.
Throws(u) ==
  /\ Fault /\ chat[u].at \notin {"closed", "idle", "start"}
  /\ chat' = [chat EXCEPT ![u] = Idle]
  /\ UNCHANGED <<server, device, keys, unaware>>

CloseTab(u) ==
  /\ Fault /\ chat[u] # Closed
  /\ chat' = [chat EXCEPT ![u] = Closed] /\ panel' = [panel EXCEPT ![u] = None]
  /\ UNCHANGED <<server, device, confirmed, unaware>>

-----------------------------------------------------------------------------
(* Safety numbers *)

Shown(u, c) == IF group[u][c] = None THEN None ELSE [conversation |-> c, group |-> group[u][c]]

\* loadVerification of a panel that opens, or closes.
ShowKeys(u) ==
  /\ chat[u] # Closed
  /\ \E c \in Conversation : panel' = [panel EXCEPT ![u] = IF @ = None THEN Shown(u, c) ELSE None]
  /\ panel' # panel
  /\ UNCHANGED <<server, device, chat, confirmed, unaware, faults>>

\* The two read the same digits to each other, each from the panel.
NumbersMatch(u) == panel[u] # None /\ panel[Peer(u)] = panel[u]

\* Mutant of Confirm: the number is computed anew when the button is pressed.
ConfirmRecomputed(u) ==
  /\ NumbersMatch(u)
  /\ LET c == panel[u].conversation IN
       /\ confirmed' = [confirmed EXCEPT ![u][c] = group[u][c]]
       /\ panel' = [panel EXCEPT ![u] = Shown(u, c)]
  /\ UNCHANGED <<server, device, chat, unaware, faults>>

\* confirm: the number that is on the screen is stored, and the panel loads again.
Confirm(u) ==
  /\ NumbersMatch(u)
  /\ LET c == panel[u].conversation IN
       /\ confirmed' = [confirmed EXCEPT ![u][c] = panel[u].group]
       /\ panel' = [panel EXCEPT ![u] = Shown(u, c)]
  /\ UNCHANGED <<server, device, chat, unaware, faults>>

\* loadVerification: `verified', `changed' or neither.
Verified(u, c) == confirmed[u][c] # None /\ confirmed[u][c] = group[u][c]

-----------------------------------------------------------------------------

Next ==
  \E u \in User :
    \/ OpenTab(u) \/ Catch(u) \/ Find(u) \/ Insert(u) \/ EnsureGroup(u) \/ Claim(u)
    \/ StartDm(u) \/ RelayWelcome(u) \/ Throws(u) \/ CloseTab(u)
    \/ ShowKeys(u) \/ Confirm(u)

Spec == Init /\ [][Next]_vars

-----------------------------------------------------------------------------
(* Properties *)

\* Whenever both devices hold a group for their conversation it is the same one, unless both
\* started theirs when neither could have seen the other's Welcome: starting twice, a failed
\* relay, a tab closed half-way and a Welcome that arrives while a group is being started all
\* end with one group (ensureGroup: `join a pending Welcome if there is one, otherwise initiate').
OneGroupOrBothUnaware ==
  \A c \in Conversation :
    (\A u \in User : group[u][c] # None) =>
      (\A u, v \in User : group[u][c] = group[v][c]) \/ unaware[c] = User

\* When both users' devices say `verified', they hold the same group, though a Welcome may
\* replace it while the panel is open (VerifyKeys: `nobody is in the middle').
VerifiedIsShared ==
  \A c \in Conversation :
    (\A u \in User : Verified(u, c)) => \A u, v \in User : group[u][c] = group[v][c]

=============================================================================
