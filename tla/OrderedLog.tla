----------------------------- MODULE OrderedLog -----------------------------
(***************************************************************************)
(* What one conversation of the chat server promises to everyone who reads *)
(* it: a single, gap-free, append-only sequence of messages.  A message    *)
(* keeps its place, its author and its identity for ever; deleting it only *)
(* blanks the body, and only its author may do that; a reader is shown a   *)
(* message only after it has its place in the sequence.                    *)
(*                                                                         *)
(* The tables, handlers and sockets that implement this are in ChatLog,    *)
(* which refines this specification (ChatLogProofs!Refinement).            *)
(***************************************************************************)
EXTENDS Naturals, Sequences

CONSTANTS
  Author,   \* the users who may write
  Item,     \* the identities of the messages they write
  Reader    \* the places a message is shown at

VARIABLES
  entries,  \* the conversation, in order
  shown     \* the places in the order a reader has been shown

Entry == [sender : Author, item : Item, deleted : BOOLEAN]

Init ==
  /\ entries = << >>
  /\ shown = [r \in Reader |-> {}]

\* An author's message takes the next place.
Add ==
  /\ \E a \in Author, i \in Item :
       entries' = Append(entries, [sender |-> a, item |-> i, deleted |-> FALSE])
  /\ UNCHANGED shown

\* The author of entry n blanks it; the entry stays where it is.
Blank ==
  /\ \E n \in DOMAIN entries :
       /\ ~ entries[n].deleted
       /\ entries' = [entries EXCEPT ![n].deleted = TRUE]
  /\ UNCHANGED shown

\* Entry n reaches some of the readers at once.
Show ==
  /\ \E n \in DOMAIN entries, R \in SUBSET Reader :
       shown' = [r \in Reader |-> IF r \in R THEN shown[r] \cup {n} ELSE shown[r]]
  /\ UNCHANGED entries

Next == Add \/ Blank \/ Show

Spec == Init /\ [][Next]_<<entries, shown>>

=============================================================================
