------------------------------ MODULE MCGroups ------------------------------
(* How people come to hold the same MLS group: a group conversation with two *)
(* guests (Groups) and the direct messages of two users (DirectMessages).    *)
(* The two share no state, so in each behaviour one of them runs and the     *)
(* other rests.                                                              *)
EXTENDS Groups

CONSTANTS alice, bob, carol, None, MaxConversations

ASSUME PairAssumption == alice # bob /\ None \notin {alice, bob} \X Nat
ASSUME ConversationsAssumption == MaxConversations \in Nat

VARIABLES conversations, kps, invites, bundles, group, made, chat, panel, confirmed, unaware, failed
VARIABLE turn \* the part that runs

Dm == INSTANCE DirectMessages WITH User <- {alice, bob}, pool <- kps, welcomes <- invites, faults <- failed

dmVars == <<conversations, kps, invites, bundles, group, made, chat, panel, confirmed, unaware, failed>>

MCInit == Init /\ Dm!Init /\ turn \in {"group", "dm"}

GroupTurn == turn = "group"
GroupOnly == UNCHANGED <<turn, dmVars>>
DmTurn == turn = "dm"
DmOnly == UNCHANGED <<turn, vars>>

MCNext ==
  \/ GroupTurn /\ NewGroup /\ GroupOnly
  \/ GroupTurn /\ CreateGroup /\ GroupOnly
  \/ GroupTurn /\ Claim /\ GroupOnly
  \/ GroupTurn /\ AddToTree /\ GroupOnly
  \/ GroupTurn /\ RelayWelcome /\ GroupOnly
  \/ GroupTurn /\ SendAddCommit /\ GroupOnly
  \/ GroupTurn /\ SendRemoveCommit /\ GroupOnly
  \/ GroupTurn /\ RemoveFromRoster /\ GroupOnly
  \/ GroupTurn /\ Abort /\ GroupOnly
  \/ GroupTurn /\ OwnerDrop /\ GroupOnly
  \/ GroupTurn /\ OwnerReconnect /\ GroupOnly
  \/ GroupTurn /\ Handle /\ GroupOnly
  \/ \E u \in Guest :
       \/ GroupTurn /\ AddToRoster(u) /\ GroupOnly
       \/ GroupTurn /\ RemoveFromTree(u) /\ GroupOnly
       \/ GroupTurn /\ ClaimElsewhere(u) /\ GroupOnly
       \/ GroupTurn /\ u \notin Away /\ Start(u) /\ GroupOnly
       \/ GroupTurn /\ Connect(u) /\ GroupOnly
       \/ GroupTurn /\ Join(u) /\ GroupOnly
       \/ GroupTurn /\ List(u) /\ GroupOnly
       \/ GroupTurn /\ NextInHistory(u) /\ GroupOnly
       \/ GroupTurn /\ Live(u) /\ GroupOnly
       \/ GroupTurn /\ Drop(u) /\ GroupOnly
       \/ GroupTurn /\ CloseTab(u) /\ GroupOnly
       \/ GroupTurn /\ Leave(u) /\ GroupOnly
  \/ \E u \in User : GroupTurn /\ Write(u) /\ GroupOnly
  \/ \E u \in {alice, bob} :
       \/ DmTurn /\ Dm!OpenTab(u) /\ DmOnly
       \/ DmTurn /\ Dm!Catch(u) /\ DmOnly
       \/ DmTurn /\ Dm!Find(u) /\ DmOnly
       \/ DmTurn /\ Dm!Insert(u) /\ DmOnly
       \/ DmTurn /\ Dm!EnsureGroup(u) /\ DmOnly
       \/ DmTurn /\ Dm!Claim(u) /\ DmOnly
       \/ DmTurn /\ Dm!StartDm(u) /\ DmOnly
       \/ DmTurn /\ Dm!RelayWelcome(u) /\ DmOnly
       \/ DmTurn /\ Dm!Throws(u) /\ DmOnly
       \/ DmTurn /\ Dm!CloseTab(u) /\ DmOnly
       \/ DmTurn /\ Dm!ShowKeys(u) /\ DmOnly
       \/ DmTurn /\ Dm!Confirm(u) /\ DmOnly

mcVars == <<turn, vars, dmVars>>

\* The fairness of Groups' FairSpec.
MCSpec == MCInit /\ [][MCNext]_mcVars /\ \A u \in Guest \ Away : WF_mcVars(GroupTurn /\ Resume(u) /\ GroupOnly)

\* DirectMessages has the statements.
OneGroupOrBothUnaware == Dm!OneGroupOrBothUnaware
VerifiedIsShared == Dm!VerifiedIsShared
=============================================================================
