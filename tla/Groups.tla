------------------------------- MODULE Groups -------------------------------
(***************************************************************************)
(* One group conversation: the server's roster, key packages, Welcomes and *)
(* message log (apps/api/src/modules/chat.ts, chat/repo.ts), the owner's   *)
(* client that adds and removes members and relays the MLS commits, and    *)
(* the guests' clients that join, apply commits and decrypt                *)
(* (apps/web/src/lib/chatClient.ts, worker/chat.worker.ts,                 *)
(* packages/crypto/src/mls.ts).                                            *)
(*                                                                         *)
(* Only the owner commits (GroupPanel offers the buttons to nobody else),  *)
(* so the group's epochs form one line: epochs[e] is the ratchet tree of   *)
(* epoch e, the owner's stored group state is the last of them, and a      *)
(* guest's state is the epoch it has reached and the one it joined at.  A  *)
(* leaf of a tree is a key package <<user, k>>, the k-th the user made.    *)
(*                                                                         *)
(* A transition is what a client does between two answers of the server;   *)
(* an ingest with its retry is one transition, ChatClient has its parts.   *)
(* The log and the relay are ChatLog's: the handlers of two `send' frames  *)
(* may finish in any order, and so may the frames they relay.              *)
(*                                                                         *)
(* Bounds: MaxEpoch epochs, MaxApps application messages, MaxPackages key  *)
(* packages per guest, MaxFaults closed tabs, lost connections, failed     *)
(* requests and packages claimed for other conversations; the guests of     *)
(* Away have published a package once and do not come back.                *)
(***************************************************************************)
EXTENDS SequencesExt, FiniteSetsExt, Naturals

CONSTANTS Owner, Guest, Away, Target, MaxEpoch, MaxApps, MaxPackages, MaxFaults

ASSUME OwnerAssumption == IsFiniteSet(Guest) /\ Owner \notin Guest /\ Away \subseteq Guest
ASSUME BoundAssumption == {Target, MaxEpoch, MaxApps, MaxPackages, MaxFaults} \subseteq Nat

VARIABLES
  roster,    \* chat_members
  pool,      \* key_packages: the unclaimed packages of each guest
  welcomes,  \* mls_welcomes: [to, leaf, epoch], not acknowledged
  log,       \* chat_messages: [kind, epoch, from]
  wire,      \* `send' frames the server has not handled
  epochs,    \* the ratchet tree of each epoch; the owner's device is at the last one
  op,        \* what the owner's client is doing: [at, who, rest, leaf]
  ownerUp,   \* the owner's WebSocket is open
  dev,       \* the guests' devices
  unrevoked, \* history: the guests that have left of their own accord, or whose removal has failed
  faults

server == <<roster, pool, welcomes, log>>
vars == <<server, wire, epochs, op, ownerUp, dev, unrevoked, faults>>

User == Guest \cup {Owner}
Blank == << >>
Idle == [at |-> "idle", who |-> Owner, rest |-> << >>, leaf |-> Blank]
NoState == [since |-> 0, epoch |-> 0, leaf |-> Blank]

Epoch == Len(epochs)
Tree == Last(epochs)

Init ==
  /\ roster = {} /\ pool = [u \in Guest |-> IF u \in Away THEN {1} ELSE {}] /\ welcomes = {}
  /\ log = << >> /\ wire = {} /\ epochs = << >>
  /\ op = Idle /\ ownerUp = TRUE
  /\ dev = [u \in Guest |-> [at |-> "closed", up |-> FALSE,
              made |-> IF u \in Away THEN 1 ELSE 0, bundles |-> IF u \in Away THEN {<<u, 1>>} ELSE {},
              state |-> NoState, read |-> {}, cursor |-> 0, todo |-> << >>, live |-> {}]]
  /\ unrevoked = {} /\ faults = 0

Fault == faults < MaxFaults /\ faults' = faults + 1

-----------------------------------------------------------------------------
(* MLS *)

\* A new leaf takes the leftmost blank of the ratchet tree.
AddLeaf(t, leaf) ==
  LET blanks == {i \in DOMAIN t : t[i] = Blank}
  IN IF blanks = {} THEN Append(t, leaf) ELSE [t EXCEPT ![Min(blanks)] = leaf]

LeavesOf(t, u) == {i \in DOMAIN t : t[i] # Blank /\ t[i][1] = u}

\* groupMembers(...).find: the first leaf with the user's identity.
RemoveLeaf(t, u) == [t EXCEPT ![Min(LeavesOf(t, u))] = Blank]

\* Mutant of CanDecrypt: a commit of any epoch is applied.
CanDecryptAnyCommit(d, n) ==
  /\ n \notin d.read /\ d.state # NoState
  /\ log[n].kind = "commit" \/ log[n].epoch \in d.state.since .. d.state.epoch

\* A commit applies to the epoch it was made in; a message is read once, with the keys
\* of its epoch, which a device has from the epoch it joined at.
CanDecrypt(d, n) ==
  /\ n \notin d.read /\ d.state # NoState
  /\ IF log[n].kind = "commit"
       THEN log[n].epoch = d.state.epoch
       ELSE log[n].epoch \in d.state.since .. d.state.epoch

\* decrypt: the new group state.  Nobody reaches an epoch whose tree has no leaf of theirs.
Decrypted(d, n) ==
  LET next == log[n].epoch + 1
      stays == log[n].kind = "commit" /\ d.state.leaf \in Range(epochs[next])
  IN [d EXCEPT !.read = @ \cup {n}, !.cursor = n,
               !.state.epoch = IF stays THEN next ELSE @]

-----------------------------------------------------------------------------
(* Welcomes *)

\* The pending Welcomes that one of the device's bundles opens.
Openable(d, u) == {w \in welcomes : w.to = u /\ w.leaf \in d.bundles}

\* processWelcomes: each Welcome, in the order they were made, replaces the group state,
\* and the bundle that opened it is deleted.
Joined(d, u) ==
  IF Openable(d, u) = {} THEN d
  ELSE LET w == CHOOSE w \in Openable(d, u) : \A v \in Openable(d, u) : v.epoch <= w.epoch
       IN [d EXCEPT !.state = [since |-> w.epoch, epoch |-> w.epoch, leaf |-> w.leaf],
                    !.bundles = @ \ {v.leaf : v \in Openable(d, u)}]

\* ingest of message n: own messages are passed over; a failed decryption processes the
\* Welcomes and tries once more.
Ready(d, u, n) == IF CanDecrypt(d, n) THEN d ELSE Joined(d, u)
IngestOk(d, u, n) == log[n].from = u \/ CanDecrypt(Ready(d, u, n), n)
Ingested(d, u, n) ==
  IF log[n].from = u THEN [d EXCEPT !.cursor = n]
  ELSE IF IngestOk(d, u, n) THEN Decrypted(Ready(d, u, n), n) ELSE Ready(d, u, n)
AckedBy(d, u, n) ==
  IF log[n].from = u \/ CanDecrypt(d, n) THEN {} ELSE Openable(d, u)

-----------------------------------------------------------------------------
(* The owner's client *)

\* newGroup: the server's roster holds everybody before anybody is in the MLS group.
NewGroup ==
  /\ op = Idle /\ roster = {}
  /\ \E G \in SUBSET Guest \ {{}} :
       /\ roster' = G \cup {Owner}
       /\ op' = [Idle EXCEPT !.at = "create", !.rest = SetToSeq(G)]
  /\ UNCHANGED <<pool, welcomes, log, wire, epochs, ownerUp, dev, unrevoked, faults>>

NextMember(rest) ==
  IF rest = << >> THEN Idle ELSE [Idle EXCEPT !.at = "claim", !.who = Head(rest), !.rest = Tail(rest)]

CreateGroup ==
  /\ op.at = "create"
  /\ epochs' = << << <<Owner, 0>> >> >>
  /\ op' = NextMember(op.rest)
  /\ UNCHANGED <<server, wire, ownerUp, dev, unrevoked, faults>>

\* addGroupMember: the server's roster first.
AddToRoster(u) ==
  /\ op = Idle /\ epochs # << >> /\ Epoch < MaxEpoch
  /\ u \notin roster
  /\ roster' = roster \cup {u}
  /\ op' = NextMember(<<u>>)
  /\ UNCHANGED <<pool, welcomes, log, wire, epochs, ownerUp, dev, unrevoked, faults>>

\* claimKeyPackage: the oldest package, or 409, which ends the operation.
Claim ==
  /\ op.at = "claim"
  /\ IF pool[op.who] = {}
       THEN op' = Idle /\ UNCHANGED pool
       ELSE LET k == Min(pool[op.who]) IN
              /\ pool' = [pool EXCEPT ![op.who] = @ \ {k}]
              /\ op' = [op EXCEPT !.at = "add", !.leaf = <<op.who, k>>]
  /\ UNCHANGED <<roster, welcomes, log, wire, epochs, ownerUp, dev, unrevoked, faults>>

\* worker addMember: the owner's device is in the new epoch from here on.
AddToTree ==
  /\ op.at = "add" /\ Epoch < MaxEpoch
  /\ epochs' = Append(epochs, AddLeaf(Tree, op.leaf))
  /\ op' = [op EXCEPT !.at = "welcome"]
  /\ UNCHANGED <<server, wire, ownerUp, dev, unrevoked, faults>>

\* relayWelcome, refused if the recipient has left meanwhile.
RelayWelcome ==
  /\ op.at = "welcome"
  /\ IF op.who \in roster
       THEN /\ welcomes' = welcomes \cup {[to |-> op.who, leaf |-> op.leaf, epoch |-> Epoch]}
            /\ op' = [op EXCEPT !.at = "send"]
       ELSE op' = Idle /\ UNCHANGED welcomes
  /\ UNCHANGED <<roster, pool, log, wire, epochs, ownerUp, dev, unrevoked, faults>>

Commit == [kind |-> "commit", epoch |-> Epoch - 1, from |-> Owner]

\* wsSend drops the frame unless the socket is open.
WsSend(frame, up) == wire' = IF up THEN wire \cup {frame} ELSE wire

SendAddCommit ==
  /\ op.at = "send"
  /\ WsSend(Commit, ownerUp)
  /\ op' = NextMember(op.rest)
  /\ UNCHANGED <<server, epochs, ownerUp, dev, unrevoked, faults>>

\* Mutant of RemoveFromTree: the new group state is not stored.
RemoveFromTreeNotStored(u) ==
  /\ op = Idle /\ u \in roster
  /\ op' = [Idle EXCEPT !.at = "removed", !.who = u]
  /\ UNCHANGED <<server, wire, epochs, ownerUp, dev, unrevoked, faults>>

HasLeaf(u) == epochs # << >> /\ LeavesOf(Tree, u) # {}

\* removeGroupMember: the MLS commit goes first.  There is none if the member has no leaf or the
\* owner no group; nor if the worker fails, which is caught, and the leaf stays.
RemoveFromTree(u) ==
  /\ op = Idle /\ u \in roster
  /\ \/ /\ ~ HasLeaf(u)
        /\ op' = [Idle EXCEPT !.at = "removed", !.who = u]
        /\ UNCHANGED <<epochs, unrevoked, faults>>
     \/ /\ HasLeaf(u) /\ Epoch < MaxEpoch
        /\ epochs' = Append(epochs, RemoveLeaf(Tree, u))
        /\ op' = [Idle EXCEPT !.at = "tell", !.who = u]
        /\ UNCHANGED <<unrevoked, faults>>
     \/ /\ Fault /\ HasLeaf(u)
        /\ op' = [Idle EXCEPT !.at = "removed", !.who = u]
        /\ unrevoked' = unrevoked \cup {u}
        /\ UNCHANGED epochs
  /\ UNCHANGED <<server, wire, ownerUp, dev>>

SendRemoveCommit ==
  /\ op.at = "tell"
  /\ WsSend(Commit, ownerUp)
  /\ op' = [op EXCEPT !.at = "removed"]
  /\ UNCHANGED <<server, epochs, ownerUp, dev, unrevoked, faults>>

RemoveFromRoster ==
  /\ op.at = "removed"
  /\ roster' = roster \ {op.who}
  /\ op' = Idle
  /\ UNCHANGED <<pool, welcomes, log, wire, epochs, ownerUp, dev, unrevoked, faults>>

\* A request fails or the owner's tab closes: what is left of the operation is not done.
Abort ==
  /\ Fault /\ op # Idle
  /\ op' = Idle
  /\ UNCHANGED <<server, wire, epochs, ownerUp, dev, unrevoked>>

OwnerDrop == Fault /\ ownerUp /\ ownerUp' = FALSE /\ UNCHANGED <<server, wire, epochs, op, dev, unrevoked>>
OwnerReconnect == ~ ownerUp /\ ownerUp' = TRUE /\ UNCHANGED <<server, wire, epochs, op, dev, unrevoked, faults>>

-----------------------------------------------------------------------------
(* The server *)

\* A `send' is stored if its author is a member, and relayed to the members' open sockets.
Handle ==
  \E f \in wire :
    /\ wire' = wire \ {f}
    /\ IF f.from \in roster
         THEN /\ log' = Append(log, f)
              /\ dev' = [u \in Guest |-> IF dev[u].up /\ u \in roster
                           THEN [dev[u] EXCEPT !.live = @ \cup {Len(log) + 1}] ELSE dev[u]]
         ELSE UNCHANGED <<log, dev>>
    /\ UNCHANGED <<roster, pool, welcomes, epochs, op, ownerUp, unrevoked, faults>>

\* Somebody claims a guest's package for another conversation.
ClaimElsewhere(u) ==
  /\ Fault /\ pool[u] # {}
  /\ pool' = [pool EXCEPT ![u] = @ \ {Min(@)}]
  /\ UNCHANGED <<roster, welcomes, log, wire, epochs, op, ownerUp, dev, unrevoked>>

-----------------------------------------------------------------------------
(* The guests' clients *)

Moves(u, d) == dev' = [dev EXCEPT ![u] = d]

\* Enough new packages for the server's pool to hold Target.
Fresh(u) ==
  LET need == Min({Max({Target - Cardinality(pool[u]), 0}), MaxPackages - dev[u].made})
  IN dev[u].made + 1 .. dev[u].made + need

PublishKeyPackages(u) == pool' = [pool EXCEPT ![u] = @ \cup Fresh(u)]

\* Mutant of Start: the private halves of the published packages are not stored.
StartPublishesOnly(u) ==
  /\ dev[u].at = "closed"
  /\ PublishKeyPackages(u)
  /\ Moves(u, [dev[u] EXCEPT !.at = "welcomes", !.made = @ + Cardinality(Fresh(u))])
  /\ UNCHANGED <<roster, welcomes, log, wire, epochs, op, ownerUp, unrevoked, faults>>

\* start(): new packages, their private halves kept in the device's store.
Start(u) ==
  /\ dev[u].at = "closed"
  /\ PublishKeyPackages(u)
  /\ Moves(u, [dev[u] EXCEPT !.at = "welcomes", !.made = @ + Cardinality(Fresh(u)),
                             !.bundles = @ \cup {<<u, k>> : k \in Fresh(u)}])
  /\ UNCHANGED <<roster, welcomes, log, wire, epochs, op, ownerUp, unrevoked, faults>>

Join(u) ==
  /\ dev[u].at = "welcomes"
  /\ Moves(u, [Joined(dev[u], u) EXCEPT !.at = "list"])
  /\ welcomes' = welcomes \ Openable(dev[u], u)
  /\ UNCHANGED <<roster, pool, log, wire, epochs, op, ownerUp, unrevoked, faults>>

\* connectWs, at the start and two seconds after the socket was lost.
Connect(u) ==
  /\ dev[u].at \notin {"closed", "welcomes"} /\ ~ dev[u].up
  /\ Moves(u, [dev[u] EXCEPT !.up = TRUE])
  /\ UNCHANGED <<server, wire, epochs, op, ownerUp, unrevoked, faults>>

\* loadHistory: the messages beyond the cursor, for a member.
List(u) ==
  /\ dev[u].at = "list"
  /\ Moves(u, [dev[u] EXCEPT !.at = "history",
                 !.todo = IF u \in roster THEN [i \in 1 .. Len(log) - dev[u].cursor |-> dev[u].cursor + i]
                                          ELSE << >>])
  /\ UNCHANGED <<server, wire, epochs, op, ownerUp, unrevoked, faults>>

\* A gap stops the run.
NextInHistory(u) ==
  /\ dev[u].at = "history"
  /\ IF dev[u].todo = << >>
       THEN Moves(u, [dev[u] EXCEPT !.at = "open"]) /\ UNCHANGED welcomes
       ELSE LET n == Head(dev[u].todo) IN
              /\ Moves(u, [Ingested(dev[u], u, n) EXCEPT
                             !.todo = IF IngestOk(dev[u], u, n) THEN Tail(@) ELSE << >>])
              /\ welcomes' = welcomes \ AckedBy(dev[u], u, n)
  /\ UNCHANGED <<roster, pool, log, wire, epochs, op, ownerUp, unrevoked, faults>>

\* Mutant of Live: a message that cannot be decrypted is dropped at once.
LiveNoRetry(u) ==
  \E n \in dev[u].live :
    /\ Moves(u, [(IF log[n].from # u /\ CanDecrypt(dev[u], n) THEN Decrypted(dev[u], n) ELSE dev[u])
                   EXCEPT !.live = @ \ {n}])
    /\ UNCHANGED <<server, wire, epochs, op, ownerUp, unrevoked, faults>>

\* A `message' frame.
Live(u) ==
  \E n \in dev[u].live :
    /\ Moves(u, [Ingested(dev[u], u, n) EXCEPT !.live = @ \ {n}])
    /\ welcomes' = welcomes \ AckedBy(dev[u], u, n)
    /\ UNCHANGED <<roster, pool, log, wire, epochs, op, ownerUp, unrevoked, faults>>

\* The socket is lost, or the tab is closed, at worst between a join and its acknowledgement.
Offline(d) == [d EXCEPT !.up = FALSE, !.live = {}]
Drop(u) ==
  /\ Fault /\ dev[u].up
  /\ Moves(u, Offline(dev[u]))
  /\ UNCHANGED <<server, wire, epochs, op, ownerUp, unrevoked>>
CloseTab(u) ==
  /\ Fault /\ dev[u].at # "closed"
  /\ \E d \in {dev[u], IF dev[u].at = "welcomes" THEN Joined(dev[u], u) ELSE dev[u]} :
       Moves(u, [Offline(d) EXCEPT !.at = "closed", !.todo = << >>])
  /\ UNCHANGED <<server, wire, epochs, op, ownerUp, unrevoked>>

\* leaveGroup: the roster only.
Leave(u) ==
  /\ dev[u].at = "open" /\ u \in roster
  /\ roster' = roster \ {u} /\ unrevoked' = unrevoked \cup {u}
  /\ UNCHANGED <<pool, welcomes, log, wire, epochs, op, ownerUp, dev, faults>>

\* A text: encrypted in the epoch the author's device is in.
Write(u) ==
  /\ Cardinality({n \in DOMAIN log : log[n].kind = "app"})
       + Cardinality({f \in wire : f.kind = "app"}) < MaxApps
  /\ IF u = Owner THEN epochs # << >> ELSE dev[u].at = "open" /\ dev[u].state # NoState
  /\ WsSend([kind |-> "app", epoch |-> IF u = Owner THEN Epoch ELSE dev[u].state.epoch, from |-> u],
            IF u = Owner THEN ownerUp ELSE dev[u].up)
  /\ UNCHANGED <<server, epochs, op, ownerUp, dev, unrevoked, faults>>

-----------------------------------------------------------------------------

OwnerStep ==
  \/ CreateGroup \/ Claim \/ AddToTree \/ RelayWelcome \/ SendAddCommit
  \/ SendRemoveCommit \/ RemoveFromRoster

Resume(u) == Join(u) \/ List(u) \/ NextInHistory(u) \/ Live(u)

Next ==
  \/ NewGroup \/ OwnerStep \/ Abort \/ OwnerDrop \/ OwnerReconnect \/ Handle
  \/ \E u \in Guest :
       \/ AddToRoster(u) \/ RemoveFromTree(u) \/ ClaimElsewhere(u)
       \/ u \notin Away /\ Start(u)
       \/ Connect(u) \/ Resume(u) \/ Drop(u) \/ CloseTab(u) \/ Leave(u)
  \/ \E u \in User : Write(u)

Spec == Init /\ [][Next]_vars

\* The event loops of the guests that come back run.
FairSpec == Spec /\ \A u \in Guest \ Away : WF_vars(Resume(u))

-----------------------------------------------------------------------------
(* Properties *)

\* A key package that the server hands out, or a Welcome made with one, is never a dead
\* end: the device it is for still holds the private half, or has joined with it.
WelcomeCanBeOpened ==
  /\ \A u \in Guest, k \in 1 .. MaxPackages : k \in pool[u] => <<u, k>> \in dev[u].bundles
  /\ \A w \in welcomes : w.leaf \in dev[w.to].bundles \/ dev[w.to].state.since >= w.epoch

\* Who can read what the owner sends now is who the server delivers it to, apart from those
\* who left of their own accord and those whose removal failed in the worker: an addition puts
\* the roster first, a removal puts it last, wherever requests fail, tabs close or members leave
\* in between.
ReadersAreOnRoster ==
  epochs # << >> => \A u \in Guest : LeavesOf(Tree, u) # {} => u \in roster \cup unrevoked

\* A device's group state before and after a step of the system.
Forward(u, d, e) ==
  /\ e.state.since >= d.state.since
  /\ e.state.epoch >= d.state.epoch \/ u \in unrevoked

\* A device's group state never goes back to an epoch it has left, whatever is retried
\* after a crash: "the MLS ratchet is never mutated concurrently" (chat.worker.ts).
\* A member that left, or whose removal failed, and that is added again is the exception: its
\* old leaf is still in the tree, and a late Welcome puts the state back to the epoch of the new
\* one.
RatchetGoesForward == [][\A u \in Guest : Forward(u, dev[u], dev'[u])]_vars

\* A member that is told the commit of its own addition is in the group in the end, though
\* it cannot read that commit.
TheAddedJoin ==
  \A u \in Guest \ Away :
    (\E w \in welcomes : w.to = u /\ \E n \in dev[u].live : log[n] = [kind |-> "commit", epoch |-> w.epoch - 1, from |-> Owner])
      ~> (dev[u].state # NoState \/ ~ dev[u].up)

=============================================================================
