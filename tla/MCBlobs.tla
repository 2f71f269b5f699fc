------------------------------ MODULE MCBlobs -------------------------------
(* Instances of Blobs. *)
EXTENDS Blobs, TLC

CONSTANTS alice, bob, x, p, q, m, n, s1, s2, s3

\* Alice uploads the attachments and the pictures; m is her message, n is Bob's, and
\* both name x.
MCOwner == [b \in Blob |-> alice]
MCSender == [i \in Message |-> IF i = n THEN bob ELSE alice]
MCSaver == [s \in Save |-> alice]
MCCarries == [i \in Message |-> {x}]

\* What the theorem about AttachmentStays assumes holds here.
ASSUME EachCarriesItsOwn == OneMessageEach /\ IdsDiffer

\* Messages carry attachments and profiles show pictures: a behaviour has the one, beside one
\* picture that nobody saves, or the other, beside a fresh attachment that no message names;
\* all three saves happen where nothing fails and only pictures are uploaded.
Apart ==
  \/ /\ \A s \in Save : save[s] = Unsaved
     /\ Cardinality({b \in Picture : upload[b] # "none"}) <= 1
  \/ /\ old = {} /\ \A i \in Message : sent[i] = "unsent"
     /\ \/ \E s \in Save : save[s] = Unsaved
        \/ faults = 0 /\ upload[x] = "none"

\* Alice's pictures are interchangeable, and so are her devices' saves.
Symmetric == Permutations(Picture) \cup Permutations(Save)
=============================================================================
