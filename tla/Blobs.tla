------------------------------- MODULE Blobs --------------------------------
(***************************************************************************)
(* Attachments and profile pictures: the blobs table, the object store and *)
(* everything that adds to or takes from them -- uploads, the link from a  *)
(* sent message, the reclaim of a deleted message's files, the sweeper of  *)
(* abandoned uploads, the owner's DELETE and the replaced profile picture  *)
(* (apps/api/src/modules/blobs.ts, storage/blobGc.ts, storage/blobRepo.ts, *)
(* modules/account.ts).                                                    *)
(*                                                                         *)
(* A transition is what a handler does between two awaits.  A blob stands  *)
(* for one upload: its row id and its object key.  All blobs have the same *)
(* size, and the quota counts blobs.                                       *)
(*                                                                         *)
(* Bounds: every blob is uploaded, every message sent and every profile    *)
(* save requested at most once; at most MaxFaults calls of the store or    *)
(* the database fail, a restart of the process counting as one.            *)
(***************************************************************************)
EXTENDS Naturals, FiniteSets

CONSTANTS
  Blob,
  Owner,       \* the user who uploads each blob
  Picture,     \* the blobs of kind `avatar'; the others are attachments
  Message,
  Sender,      \* the user who sends each message
  Carries,     \* the blobIds each `send' frame names
  Save,        \* the requests that save a profile with its image
  Saver,       \* the user who makes each
  Nothing,     \* null
  Quota,       \* blobQuotaBytes, in blobs
  MaxFaults

ASSUME BlobAssumption == IsFiniteSet(Blob) /\ Picture \subseteq Blob /\ Nothing \notin Blob \cup Message \cup Save
ASSUME CarriesAssumption == Carries \in [Message -> SUBSET (Blob \ Picture)]
ASSUME QuotaAssumption == Quota \in Nat \ {0} /\ MaxFaults \in Nat

VARIABLES
  upload,   \* the upload handler of each blob
  objects,  \* the keys in the object store
  rows,     \* the rows of the blobs table
  link,     \* message_seq of each row
  old,      \* the blobs past the grace period
  sent,     \* the `send' handler of each message, from the stored row on
  deleted,  \* messages deleted for everyone
  job,      \* the loop over records of each remover
  image,    \* users.image
  save,     \* the handler of each profile save: the image it brings and previousImage
  faults,
  peak,     \* history: the most uploads each user had past the quota check at once
  replaced, \* history: the pictures that a save has taken off their owner's profile
  disowned, \* history: the blobs whose owner has used DELETE
  leaked    \* history: the blobs whose object a swallowed failure or a restart left behind

vars == <<upload, objects, rows, link, old, sent, deleted, job, image, save, faults, peak, replaced, disowned, leaked>>

Account == {Owner[b] : b \in Blob} \cup {Sender[m] : m \in Message} \cup {Saver[s] : s \in Save}

\* Who removes blobs: a deleted message, the sweeper, the owner's DELETE (named by the blob)
\* and a profile save.
Sweeper == Nothing
Job == Message \cup {Sweeper} \cup Blob \cup Save

\* The garbage collector keeps the row when the store fails; DELETE and the profile
\* save swallow the failure and drop the row all the same.
Keeps(j) == j \notin Blob \cup Save

InFlight(u) == {b \in Blob : Owner[b] = u /\ upload[b] \in {"put", "create"}}
Stored(u) == {b \in rows : Owner[b] = u}

Idle == [at |-> "idle", todo |-> {}, cur |-> Nothing]
Unsaved == [at |-> "none", image |-> Nothing, prev |-> Nothing]
Loop(todo) == [at |-> IF todo = {} THEN "idle" ELSE "object", todo |-> todo, cur |-> Nothing]

Init ==
  /\ upload = [b \in Blob |-> "none"]
  /\ objects = {} /\ rows = {} /\ old = {} /\ deleted = {}
  /\ link = [b \in Blob |-> Nothing]
  /\ sent = [m \in Message |-> "unsent"]
  /\ job = [j \in Job |-> Idle]
  /\ image = [u \in Account |-> Nothing]
  /\ save = [s \in Save |-> Unsaved]
  /\ faults = 0 /\ replaced = {} /\ disowned = {} /\ leaked = {}
  /\ peak = [u \in Account |-> 0]

\* A call of the store or of the database fails.
Fault == faults < MaxFaults /\ faults' = faults + 1

-----------------------------------------------------------------------------
(* Uploads: store() *)

\* Mutant of CheckQuota: the blob being uploaded is not counted.
CheckQuotaBefore(b) ==
  LET u == Owner[b] IN
  /\ upload[b] = "none"
  /\ upload' = [upload EXCEPT ![b] =
       IF Cardinality(Stored(u)) <= Quota THEN "put" ELSE "refused"]
  /\ peak' = [peak EXCEPT ![u] =
       IF Cardinality(InFlight(u)') > @ THEN Cardinality(InFlight(u)') ELSE @]
  /\ UNCHANGED <<objects, rows, link, old, sent, deleted, job, image, save, faults, replaced, disowned, leaked>>

\* usedBytes has answered: refuse, or start the put.  The rate limit, the membership
\* and the size were checked before, and refuse as well.
CheckQuota(b) ==
  LET u == Owner[b] IN
  /\ upload[b] = "none"
  /\ \/ upload' = [upload EXCEPT ![b] = "refused"]
     \/ /\ Cardinality(Stored(u)) + 1 <= Quota
        /\ upload' = [upload EXCEPT ![b] = "put"]
  /\ peak' = [peak EXCEPT ![u] =
       IF Cardinality(InFlight(u)') > @ THEN Cardinality(InFlight(u)') ELSE @]
  /\ UNCHANGED <<objects, rows, link, old, sent, deleted, job, image, save, faults, replaced, disowned, leaked>>

Put(b) ==
  /\ upload[b] = "put"
  /\ \/ /\ upload' = [upload EXCEPT ![b] = "create"]
        /\ objects' = objects \cup {b}
        /\ UNCHANGED faults
     \/ Fault /\ upload' = [upload EXCEPT ![b] = "failed"] /\ UNCHANGED objects
  /\ UNCHANGED <<rows, link, old, sent, deleted, job, image, save, peak, replaced, disowned, leaked>>

\* Mutant of Create: a failed insert leaves the object where it is.
CreateNoUndo(b) ==
  /\ upload[b] = "create"
  /\ \/ /\ upload' = [upload EXCEPT ![b] = "done"]
        /\ rows' = rows \cup {b}
        /\ UNCHANGED faults
     \/ Fault /\ upload' = [upload EXCEPT ![b] = "failed"] /\ UNCHANGED rows
  /\ UNCHANGED <<objects, link, old, sent, deleted, job, image, save, peak, replaced, disowned, leaked>>

Create(b) ==
  /\ upload[b] = "create"
  /\ \/ /\ upload' = [upload EXCEPT ![b] = "done"]
        /\ rows' = rows \cup {b}
        /\ UNCHANGED faults
     \/ Fault /\ upload' = [upload EXCEPT ![b] = "undo"] /\ UNCHANGED rows
  /\ UNCHANGED <<objects, link, old, sent, deleted, job, image, save, peak, replaced, disowned, leaked>>

\* The insert failed: take the object back, then answer 500.
Undo(b) ==
  /\ upload[b] = "undo"
  /\ upload' = [upload EXCEPT ![b] = "failed"]
  /\ \/ objects' = objects \ {b} /\ UNCHANGED <<faults, leaked>>
     \/ Fault /\ leaked' = leaked \cup {b} /\ UNCHANGED objects
  /\ UNCHANGED <<rows, link, old, sent, deleted, job, image, save, peak, replaced, disowned>>

-----------------------------------------------------------------------------
(* Messages *)

\* The row of message m is stored and relayed.  A client names blobs it has just
\* uploaded: none is past the grace period.
Send(m) ==
  /\ sent[m] = "unsent"
  /\ \A b \in Carries[m] : upload[b] = "done" /\ b \notin old
  /\ sent' = [sent EXCEPT ![m] = "linking"]
  /\ UNCHANGED <<upload, objects, rows, link, old, deleted, job, image, save, faults, peak, replaced, disowned, leaked>>

\* Mutant of Link: it links what the frame names, whoever owns it.
LinkAnyones(m) ==
  /\ sent[m] = "linking"
  /\ sent' = [sent EXCEPT ![m] = "linked"]
  /\ link' = [b \in Blob |->
       IF b \in Carries[m] \cap rows /\ link[b] = Nothing THEN m ELSE link[b]]
  /\ UNCHANGED <<upload, objects, rows, old, deleted, job, image, save, faults, peak, replaced, disowned, leaked>>

\* Mutant of Link: the sender is taken for the message.
LinkToSender(m) ==
  /\ sent[m] = "linking"
  /\ sent' = [sent EXCEPT ![m] = "linked"]
  /\ link' = [b \in Blob |->
       IF b \in Carries[m] \cap rows /\ Owner[b] = Sender[m] /\ link[b] = Nothing THEN Sender[m] ELSE link[b]]
  /\ UNCHANGED <<upload, objects, rows, old, deleted, job, image, save, faults, peak, replaced, disowned, leaked>>

\* linkToMessage: the sender's own, unattached attachments; a failure is swallowed.
Link(m) ==
  /\ sent[m] = "linking"
  /\ \/ /\ sent' = [sent EXCEPT ![m] = "linked"]
        /\ link' = [b \in Blob |->
             IF b \in Carries[m] \cap rows /\ Owner[b] = Sender[m] /\ link[b] = Nothing
               THEN m ELSE link[b]]
        /\ UNCHANGED faults
     \/ Fault /\ sent' = [sent EXCEPT ![m] = "unlinked"] /\ UNCHANGED link
  /\ UNCHANGED <<upload, objects, rows, old, deleted, job, image, save, peak, replaced, disowned, leaked>>

\* The sender deletes the message; the handler goes on to listForMessage.
DeleteMessage(m) ==
  /\ sent[m] # "unsent" /\ m \notin deleted
  /\ deleted' = deleted \cup {m}
  /\ job' = [job EXCEPT ![m].at = "list"]
  /\ UNCHANGED <<upload, objects, rows, link, old, sent, image, save, faults, peak, replaced, disowned, leaked>>

ListForMessage(m) ==
  /\ job[m].at = "list"
  /\ \/ job' = [job EXCEPT ![m] = Loop({b \in rows : link[b] = m})] /\ UNCHANGED faults
     \/ Fault /\ job' = [job EXCEPT ![m] = Idle]
  /\ UNCHANGED <<upload, objects, rows, link, old, sent, deleted, image, save, peak, replaced, disowned, leaked>>

-----------------------------------------------------------------------------
(* Removal *)

\* Six hours pass: no legitimate send takes as long, so none that names b is under way.
Age(b) ==
  /\ b \in rows \ old
  /\ \A m \in Message : b \in Carries[m] => sent[m] # "linking"
  /\ old' = old \cup {b}
  /\ UNCHANGED <<upload, objects, rows, link, sent, deleted, job, image, save, faults, peak, replaced, disowned, leaked>>

\* Mutant of Sweep: no grace period.
SweepAtOnce ==
  /\ job[Sweeper].at = "idle"
  /\ job' = [job EXCEPT ![Sweeper] = Loop({b \in rows \ Picture : link[b] = Nothing})]
  /\ UNCHANGED <<upload, objects, rows, link, old, sent, deleted, image, save, faults, peak, replaced, disowned, leaked>>

\* The hourly timer: listOrphans.  (Sweeps do not overlap here.)
Sweep ==
  /\ job[Sweeper].at = "idle"
  /\ \E b \in (rows \cap old) \ Picture : link[b] = Nothing
  /\ job' = [job EXCEPT ![Sweeper] = Loop({b \in (rows \cap old) \ Picture : link[b] = Nothing})]
  /\ UNCHANGED <<upload, objects, rows, link, old, sent, deleted, image, save, faults, peak, replaced, disowned, leaked>>

\* DELETE /api/blobs/:id by the owner.
DeleteBlob(b) ==
  /\ b \in rows /\ job[b].at = "idle"
  /\ job' = [job EXCEPT ![b] = Loop({b})]
  /\ disowned' = disowned \cup {b}
  /\ UNCHANGED <<upload, objects, rows, link, old, sent, deleted, image, save, faults, peak, replaced, leaked>>

\* Mutant of DropObject: the collector drops the row of an object it failed to delete.
DropObjectRegardless(j, b) ==
  /\ job[j].at = "object" /\ b \in job[j].todo
  /\ \/ objects' = objects \ {b} /\ UNCHANGED faults
     \/ Fault /\ UNCHANGED objects
  /\ job' = [job EXCEPT ![j] = [at |-> "row", todo |-> @.todo \ {b}, cur |-> b]]
  /\ UNCHANGED <<upload, rows, link, old, sent, deleted, image, save, peak, replaced, disowned, leaked>>

\* The next record of remover j: delete its object.
DropObject(j, b) ==
  /\ job[j].at = "object" /\ b \in job[j].todo
  /\ \/ /\ objects' = objects \ {b}
        /\ job' = [job EXCEPT ![j] = [at |-> "row", todo |-> @.todo \ {b}, cur |-> b]]
        /\ UNCHANGED <<faults, leaked>>
     \/ /\ Fault
        /\ IF Keeps(j)
             THEN /\ job' = [job EXCEPT ![j] = Loop(@.todo \ {b})]
                  /\ UNCHANGED leaked
             ELSE /\ job' = [job EXCEPT ![j] = [at |-> "row", todo |-> @.todo \ {b}, cur |-> b]]
                  /\ leaked' = leaked \cup {b}
        /\ UNCHANGED objects
  /\ UNCHANGED <<upload, rows, link, old, sent, deleted, image, save, peak, replaced, disowned>>

\* Then its row; a failure is swallowed.
DropRow(j) ==
  /\ job[j].at = "row"
  /\ \/ rows' = rows \ {job[j].cur} /\ UNCHANGED faults
     \/ Fault /\ UNCHANGED rows
  /\ job' = [job EXCEPT ![j] = Loop(@.todo)]
  /\ UNCHANGED <<upload, objects, link, old, sent, deleted, image, save, peak, replaced, disowned, leaked>>

-----------------------------------------------------------------------------
(* The profile picture: POST /api/me/profile { image } *)

\* The pictures a user has uploaded.
Own(u) == {b \in Picture : Owner[b] = u}

\* The handler remembers the picture it is about to replace.  The body's image is a picture
\* just uploaded, null, what the form loaded when it was opened -- which another device may
\* have replaced since -- or any URL typed into its field; Nothing stands for null and for
\* the URLs that are not of blobs.
ReadPrevious(s) ==
  /\ save[s].at = "none"
  /\ \E v \in {b \in Blob : upload[b] = "done"} \cup {Nothing} :
       save' = [save EXCEPT ![s] = [at |-> "update", image |-> v, prev |-> image[Saver[s]]]]
  /\ UNCHANGED <<upload, objects, rows, link, old, sent, deleted, job, image, faults, peak, replaced, disowned, leaked>>

\* The update, or 409: the user name is taken, or the statement fails.
UpdateImage(s) ==
  LET u == Saver[s] IN
  /\ save[s].at = "update"
  /\ \/ /\ save' = [save EXCEPT ![s].at = "reread"]
        /\ image' = [image EXCEPT ![u] = save[s].image]
        /\ replaced' = replaced \cup ((Own(u) \cap {image[u]}) \ {save[s].image})
     \/ save' = [save EXCEPT ![s].at = "done"] /\ UNCHANGED <<image, replaced>>
  /\ UNCHANGED <<upload, objects, rows, link, old, sent, deleted, job, faults, peak, disowned, leaked>>

\* Mutant of Reread: the previous picture is removed without another look at the profile.
RereadNothing(s) ==
  /\ save[s].at = "reread"
  /\ save' = [save EXCEPT ![s].at = IF save[s].prev # Nothing THEN "get" ELSE "done"]
  /\ UNCHANGED <<upload, objects, rows, link, old, sent, deleted, job, image, faults, peak, replaced, disowned, leaked>>

\* The profile as it is now, which is relayed; the previous picture goes if that shows another.
Reread(s) ==
  /\ save[s].at = "reread"
  /\ \/ /\ save' = [save EXCEPT ![s].at =
               IF save[s].prev \notin {Nothing, image[Saver[s]]} THEN "get" ELSE "done"]
        /\ UNCHANGED faults
     \/ Fault /\ save' = [save EXCEPT ![s].at = "done"]
  /\ UNCHANGED <<upload, objects, rows, link, old, sent, deleted, job, image, peak, replaced, disowned, leaked>>

\* deleteOwnAvatarByUrl: only a blob of this user, and only a picture.
DeleteOwnAvatar(s) ==
  /\ save[s].at = "get"
  /\ save' = [save EXCEPT ![s].at = "done"]
  /\ \/ job' = [job EXCEPT ![s] = Loop({save[s].prev} \cap rows \cap Own(Saver[s]))] /\ UNCHANGED faults
     \/ Fault /\ UNCHANGED job
  /\ UNCHANGED <<upload, objects, rows, link, old, sent, deleted, image, peak, replaced, disowned, leaked>>

-----------------------------------------------------------------------------

\* The process restarts: what the handlers had still to do is not done.
Restart ==
  /\ Fault
  /\ upload' = [b \in Blob |-> IF upload[b] \in {"put", "create", "undo"} THEN "failed" ELSE upload[b]]
  /\ sent' = [m \in Message |-> IF sent[m] = "linking" THEN "unlinked" ELSE sent[m]]
  /\ job' = [j \in Job |-> Idle]
  /\ save' = [s \in Save |-> IF save[s].at = "none" THEN save[s] ELSE [save[s] EXCEPT !.at = "done"]]
  /\ leaked' = leaked \cup {b \in objects : upload[b] \in {"create", "undo"}}
  /\ UNCHANGED <<objects, rows, link, old, deleted, image, peak, replaced, disowned>>

Remove(j) == DropRow(j) \/ \E b \in Blob : DropObject(j, b)

Next ==
  \/ \E b \in Blob :
       \/ CheckQuota(b) \/ Put(b) \/ Create(b) \/ Undo(b) \/ Age(b) \/ DeleteBlob(b)
  \/ \E s \in Save : ReadPrevious(s) \/ UpdateImage(s) \/ Reread(s) \/ DeleteOwnAvatar(s)
  \/ \E m \in Message : Send(m) \/ Link(m) \/ DeleteMessage(m) \/ ListForMessage(m)
  \/ \E j \in Job : Remove(j)
  \/ Sweep
  \/ Restart

Spec == Init /\ [][Next]_vars

\* Suspended handlers go on, and the sweeper's timer fires.
FairSpec ==
  /\ Spec
  /\ \A m \in Message : WF_vars(Link(m)) /\ WF_vars(ListForMessage(m))
  /\ \A j \in Job : WF_vars(Remove(j))
  /\ WF_vars(Sweep)

-----------------------------------------------------------------------------
(* Properties *)

Saves == [at : {"none", "update", "reread", "get", "done"},
          image : Blob \cup {Nothing}, prev : Blob \cup {Nothing}]
Records == [at : {"idle", "list", "object", "row"}, todo : SUBSET Blob, cur : Blob \cup {Nothing}]

TypeOK ==
  /\ upload \in [Blob -> {"none", "refused", "put", "create", "undo", "failed", "done"}]
  /\ objects \subseteq Blob /\ rows \subseteq Blob /\ old \subseteq Blob
  /\ link \in [Blob -> Message \cup {Nothing}]
  /\ sent \in [Message -> {"unsent", "linking", "linked", "unlinked"}]
  /\ deleted \subseteq Message
  /\ job \in [Job -> Records]
  /\ image \in [Account -> Blob \cup {Nothing}]
  /\ save \in [Save -> Saves]
  /\ faults \in 0 .. MaxFaults
  /\ peak \in [Account -> Nat]
  /\ replaced \subseteq Blob /\ disowned \subseteq Blob /\ leaked \subseteq Blob

\* The quota is read before the upload and charged after it, so uploads at the same time
\* can pass it; but never by more than the ones that were under way together, less one.
QuotaOvershootBounded ==
  \A u \in Account : peak[u] # 0 =>
    Cardinality(Stored(u)) + Cardinality(InFlight(u)) <= Quota - 1 + peak[u]

\* An object in the store has its row, or a handler that is about to write it or to take
\* the object back, unless a failure that the code swallows or a restart left it behind.
NoOrphanObject ==
  \A b \in objects : b \in rows \cup leaked \/ upload[b] \in {"create", "undo"}

\* What the collector and the sweeper drop a row for is gone from the store, whatever
\* failed: they never leave an object with nothing pointing at it.
CollectorOrphansNothing ==
  [][\A j \in Job : Keeps(j) /\ DropRow(j) => (rows \ rows') \cap objects' = {}]_vars

\* The client uploads a file anew for each message (sendAttachment of chatClient.ts): no two
\* messages of one user name the same blob of theirs.
OneMessageEach ==
  \A i, k \in Message, b \in Blob :
    b \in Carries[i] \cap Carries[k] /\ Owner[b] = Sender[i] /\ Owner[b] = Sender[k] => i = k

\* Messages, blobs and requests are different things.
IdsDiffer == Message \cap (Blob \cup Save) = {}

\* An attachment that its message was linked to is there to be read until its sender
\* deletes the message or the blob: no sweep and no other member's message takes it.
AttachmentStays ==
  \A m \in Message : sent[m] = "linked" /\ m \notin deleted =>
    \A b \in Carries[m] : Owner[b] = Sender[m] /\ b \notin disowned => b \in rows \cap objects

\* A picture is there to be shown until its owner's profile has ceased to show it or its owner
\* deletes it, however the saves of several devices and of other members interleave: a save
\* removes what its user's profile showed before, and nothing else.  (A form that was opened
\* before may then put a removed picture back.)
PictureStays ==
  \A p \in Picture : upload[p] = "done" /\ p \notin replaced \cup disowned => p \in rows \cap objects

\* An upload that no message carries and that its owner does not delete is reclaimed in
\* the end, although single attempts fail.
AbandonedReclaimed ==
  \A b \in Blob \ Picture :
    (b \in rows \cap old /\ link[b] = Nothing) ~> (b \notin objects \/ b \in disowned)

\* "The attachments of a deleted message go with it, immediately" (storage/blobGc.ts:13).
DeletedReclaimed ==
  \A m \in Message : \A b \in Carries[m] :
    (m \in deleted /\ link[b] = m) ~> (b \notin objects)

=============================================================================
