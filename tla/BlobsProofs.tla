----------------------------- MODULE BlobsProofs -----------------------------
(***************************************************************************)
(* Proofs about Blobs for any blobs, users, messages and quota: no object  *)
(* is left without a row but by a failure, the quota is passed by no more  *)
(* than the uploads under way together, and pictures and attachments are   *)
(* there as long as they are used.                                         *)
(***************************************************************************)
EXTENDS Blobs, FiniteSetTheorems, TLAPS

\* What the remover j is to remove.
InHand(j) == job[j].todo \cup (IF job[j].at = "row" THEN {job[j].cur} ELSE {})

\* A row's upload is done, a remover has the blobs of rows in hand, and the object of what
\* it drops the row of is gone, or left behind by a failure that is swallowed.
Life ==
  /\ \A b \in rows : upload[b] = "done"
  /\ \A b \in objects : upload[b] \in {"create", "undo", "failed", "done"}
  /\ \A b \in Blob : upload[b] = "create" => b \in objects
  /\ \A j \in Job : \A b \in InHand(j) : b \in Blob /\ upload[b] = "done"
  /\ \A j \in Job : job[j].at = "row" =>
       job[j].cur \notin objects \/ (job[j].cur \in leaked /\ ~ Keeps(j))

IInv == TypeOK /\ Life /\ NoOrphanObject

-----------------------------------------------------------------------------
(* Types *)

LEMMA LoopType ==
  ASSUME NEW S \in SUBSET Blob
  PROVE  /\ Loop(S) \in Records
         /\ Loop(S).todo = S /\ Loop(S).at # "row"
         /\ Idle \in Records
         /\ Idle.todo = {} /\ Idle.at # "row"
  BY DEF Loop, Idle, Records

LEMMA FaultType ==
  ASSUME TypeOK, Fault
  PROVE  faults' \in 0 .. MaxFaults
  BY QuotaAssumption DEF TypeOK, Fault

LEMMA UploadTypes ==
  ASSUME TypeOK, NEW b \in Blob, CheckQuota(b) \/ Put(b) \/ Create(b) \/ Undo(b)
  PROVE  TypeOK'
<1>1. CASE CheckQuota(b)
  <2>1. upload' \in [Blob -> {"none", "refused", "put", "create", "undo", "failed", "done"}]
    BY <1>1 DEF CheckQuota, TypeOK
  <2>2. \A u : IsFiniteSet(InFlight(u)')
    <3>1. \A u : InFlight(u)' \subseteq Blob
      BY DEF InFlight
    <3>. QED
      BY <3>1, BlobAssumption, FS_Subset
  <2>3. \A u : Cardinality(InFlight(u)') \in Nat
    BY <2>2, FS_CardinalityType
  <2>4. peak' \in [Account -> Nat]
    BY <1>1, <2>3 DEF CheckQuota, TypeOK
  <2>. QED
    BY <1>1, <2>1, <2>4 DEF CheckQuota, TypeOK
<1>2. CASE Put(b)
  BY <1>2, FaultType DEF Put, TypeOK
<1>3. CASE Create(b)
  BY <1>3, FaultType DEF Create, TypeOK
<1>4. CASE Undo(b)
  BY <1>4, FaultType DEF Undo, TypeOK
<1>. QED
  BY <1>1, <1>2, <1>3, <1>4

LEMMA MessageTypes ==
  ASSUME TypeOK, NEW m \in Message, Send(m) \/ Link(m) \/ DeleteMessage(m) \/ ListForMessage(m)
  PROVE  TypeOK'
<1>1. CASE Send(m)
  BY <1>1 DEF Send, TypeOK
<1>2. CASE Link(m)
  BY <1>2, FaultType DEF Link, TypeOK
<1>3. CASE DeleteMessage(m)
  BY <1>3 DEF DeleteMessage, TypeOK, Job, Records
<1>4. CASE ListForMessage(m)
  <2>1. CASE job' = [job EXCEPT ![m] = Loop({b \in rows : link[b] = m})] /\ UNCHANGED faults
    <3>1. Loop({b \in rows : link[b] = m}) \in Records
      BY LoopType DEF TypeOK
    <3>. QED
      BY <1>4, <2>1, <3>1 DEF ListForMessage, TypeOK
  <2>2. CASE Fault /\ job' = [job EXCEPT ![m] = Idle]
    BY <1>4, <2>2, LoopType, FaultType DEF ListForMessage, TypeOK
  <2>. QED
    BY <1>4, <2>1, <2>2 DEF ListForMessage
<1>. QED
  BY <1>1, <1>2, <1>3, <1>4

LEMMA RemovalTypes ==
  ASSUME TypeOK, (\E b \in Blob : Age(b) \/ DeleteBlob(b)) \/ Sweep \/ (\E j \in Job : Remove(j)) \/ Restart
  PROVE  TypeOK'
<1>1. CASE \E b \in Blob : Age(b)
  BY <1>1 DEF Age, TypeOK
<1>2. CASE \E b \in Blob : DeleteBlob(b)
  <2>1. PICK b \in Blob : DeleteBlob(b)
    BY <1>2
  <2>2. Loop({b}) \in Records
    BY LoopType
  <2>. QED
    BY <2>1, <2>2 DEF DeleteBlob, TypeOK
<1>3. CASE Sweep
  <2>1. Loop({b \in (rows \cap old) \ Picture : link[b] = Nothing})
          \in Records
    BY LoopType DEF TypeOK
  <2>. QED
    BY <1>3, <2>1 DEF Sweep, TypeOK
<1>4. ASSUME NEW j \in Job, DropRow(j) PROVE TypeOK'
  <2>1. Loop(job[j].todo) \in Records
    BY LoopType DEF TypeOK, Records
  <2>. QED
    BY <1>4, <2>1, FaultType DEF DropRow, TypeOK
<1>5. ASSUME NEW j \in Job, NEW b \in Blob, DropObject(j, b) PROVE TypeOK'
  <2>1. /\ Loop(job[j].todo \ {b}) \in Records
        /\ [at |-> "row", todo |-> job[j].todo \ {b}, cur |-> b]
             \in Records
    BY LoopType DEF TypeOK, Records
  <2>2. job' \in [Job -> Records]
    BY <1>5, <2>1 DEF DropObject, TypeOK
  <2>3. objects' \subseteq Blob /\ leaked' \subseteq Blob /\ faults' \in 0 .. MaxFaults
    BY <1>5, FaultType DEF DropObject, TypeOK
  <2>. QED
    BY <1>5, <2>2, <2>3 DEF DropObject, TypeOK
<1>6. CASE Restart
  <2>1. save' \in [Save -> Saves]
    BY <1>6 DEF Restart, TypeOK, Saves
  <2>2. job' \in [Job -> Records] /\ faults' \in 0 .. MaxFaults
    BY <1>6, LoopType, FaultType DEF Restart
  <2>. QED
    BY <1>6, <2>1, <2>2 DEF Restart, TypeOK
<1>. QED
  BY <1>1, <1>2, <1>3, <1>4, <1>5, <1>6 DEF Remove

LEMMA PictureTypes ==
  ASSUME TypeOK, NEW s \in Save, ReadPrevious(s) \/ UpdateImage(s) \/ Reread(s) \/ DeleteOwnAvatar(s)
  PROVE  TypeOK'
<1>1. Saver[s] \in Account /\ s \in Job
  BY DEF Account, Job
<1>2. CASE ReadPrevious(s)
  <2>1. PICK v \in Blob \cup {Nothing} :
          save' = [save EXCEPT ![s] = [at |-> "update", image |-> v, prev |-> image[Saver[s]]]]
    BY <1>2 DEF ReadPrevious
  <2>2. [at |-> "update", image |-> v, prev |-> image[Saver[s]]] \in Saves
    BY <1>1 DEF Saves, TypeOK
  <2>3. save' \in [Save -> Saves]
    BY <2>1, <2>2 DEF TypeOK
  <2>. QED
    BY <1>2, <2>3 DEF ReadPrevious, TypeOK
<1>3. CASE UpdateImage(s)
  <2>1. save' \in [Save -> Saves]
    BY <1>3 DEF UpdateImage, TypeOK, Saves
  <2>2. save[s].image \in Blob \cup {Nothing}
    BY DEF TypeOK, Saves
  <2>3. image' \in [Account -> Blob \cup {Nothing}]
    BY <1>1, <1>3, <2>2 DEF UpdateImage, TypeOK
  <2>4. replaced' \subseteq Blob
    BY <1>3, BlobAssumption DEF UpdateImage, Own, TypeOK
  <2>. QED
    BY <1>3, <2>1, <2>3, <2>4 DEF UpdateImage, TypeOK
<1>4. CASE Reread(s)
  <2>1. save' \in [Save -> Saves]
    BY <1>4 DEF Reread, TypeOK, Saves
  <2>. QED
    BY <1>4, <2>1, FaultType DEF Reread, TypeOK
<1>5. CASE DeleteOwnAvatar(s)
  <2>1. save' \in [Save -> Saves]
    BY <1>5 DEF DeleteOwnAvatar, TypeOK, Saves
  <2>2. Loop({save[s].prev} \cap rows \cap Own(Saver[s])) \in Records
    BY LoopType DEF TypeOK
  <2>. QED
    BY <1>1, <1>5, <2>1, <2>2, FaultType DEF DeleteOwnAvatar, TypeOK
<1>. QED
  BY <1>2, <1>3, <1>4, <1>5

LEMMA TypesStay ==
  ASSUME TypeOK, Next
  PROVE  TypeOK'
  BY UploadTypes, MessageTypes, RemovalTypes, PictureTypes DEF Next

-----------------------------------------------------------------------------
(* What a step does to what a remover has in hand, to objects, rows and uploads *)

\* One remover's record is replaced; the others keep theirs.
LEMMA OneHand ==
  ASSUME TypeOK, NEW i \in Job, NEW r, job' = [job EXCEPT ![i] = r], NEW j \in Job
  PROVE  /\ j # i => job'[j] = job[j] /\ InHand(j)' = InHand(j)
         /\ job'[i] = r
         /\ InHand(i)' = r.todo \cup (IF r.at = "row" THEN {r.cur} ELSE {})
  BY DEF TypeOK, InHand

\* A remover that starts its loop has what is to be removed in hand.
LEMMA NewLoop ==
  ASSUME TypeOK, NEW i \in Job, NEW S \in SUBSET Blob, job' = [job EXCEPT ![i] = Loop(S)],
         NEW j \in Job, NEW b \in InHand(j)'
  PROVE  b \in InHand(j) \/ (j = i /\ b \in S)
<1>1. Loop(S).todo = S /\ Loop(S).at # "row"
  BY LoopType
<1>2. InHand(i)' = Loop(S).todo \cup (IF Loop(S).at = "row" THEN {Loop(S).cur} ELSE {})
  BY OneHand
<1>3. InHand(i)' = S
  BY <1>1, <1>2
<1>. QED
  BY <1>3, OneHand

\* Where a remover takes from what it has in hand.
Listed(j, b) == j \in Message /\ ListForMessage(j) /\ b \in rows /\ link[b] = j
Swept(j, b) == j = Sweeper /\ Sweep /\ b \in (rows \cap old) \ Picture /\ link[b] = Nothing
Disowned(j, b) == j \in Blob /\ DeleteBlob(j) /\ b = j
Retired(j, b) == j \in Save /\ DeleteOwnAvatar(j) /\ b = save[j].prev /\ b \in rows /\ b \in Own(Saver[j])

\* A remover has in hand what it had, what it has just listed, the blob its owner deletes or
\* the replaced picture.
LEMMA Taken ==
  ASSUME TypeOK, Next, NEW j \in Job, NEW b \in InHand(j)'
  PROVE  b \in InHand(j) \/ Listed(j, b) \/ Swept(j, b) \/ Disowned(j, b) \/ Retired(j, b)
<1>1. ASSUME NEW c \in Blob, CheckQuota(c) \/ Put(c) \/ Create(c) \/ Undo(c) \/ Age(c)
      PROVE  InHand(j)' = InHand(j)
  BY <1>1 DEF CheckQuota, Put, Create, Undo, Age, InHand
<1>a. ASSUME NEW s \in Save, ReadPrevious(s) \/ UpdateImage(s) \/ Reread(s)
      PROVE  InHand(j)' = InHand(j)
  BY <1>a DEF ReadPrevious, UpdateImage, Reread, InHand
<1>2. ASSUME NEW m \in Message, Send(m) \/ Link(m)
      PROVE  InHand(j)' = InHand(j)
  BY <1>2 DEF Send, Link, InHand
<1>3. ASSUME NEW c \in Blob, DeleteBlob(c)
      PROVE  b \in InHand(j) \/ Disowned(j, b)
  <2>1. c \in Job /\ {c} \in SUBSET Blob /\ job' = [job EXCEPT ![c] = Loop({c})]
    BY <1>3 DEF Job, DeleteBlob
  <2>2. b \in InHand(j) \/ (j = c /\ b \in {c})
    BY <2>1, NewLoop
  <2>. QED
    BY <1>3, <2>2 DEF Disowned
<1>4. ASSUME NEW s \in Save, DeleteOwnAvatar(s)
      PROVE  b \in InHand(j) \/ Retired(j, b)
  <2>. DEFINE S == {save[s].prev} \cap rows \cap Own(Saver[s])
  <2>1. s \in Job /\ S \in SUBSET Blob
    BY DEF Job, TypeOK
  <2>2. CASE job' = [job EXCEPT ![s] = Loop(S)]
    <3>1. b \in InHand(j) \/ (j = s /\ b \in S)
      <4>. HIDE DEF S
      <4>. QED
        BY <2>1, <2>2, NewLoop
    <3>. QED
      BY <1>4, <3>1 DEF Retired
  <2>3. CASE UNCHANGED job
    BY <2>3 DEF InHand
  <2>. QED
    BY <1>4, <2>2, <2>3 DEF DeleteOwnAvatar
<1>5. ASSUME NEW m \in Message, DeleteMessage(m)
      PROVE  InHand(j)' \subseteq InHand(j)
  <2>1. m \in Job
    BY DEF Job
  <2>. QED
    BY <1>5, <2>1 DEF DeleteMessage, InHand, TypeOK
<1>6. ASSUME NEW m \in Message, ListForMessage(m)
      PROVE  b \in InHand(j) \/ Listed(j, b)
  <2>1. m \in Job /\ {c \in rows : link[c] = m} \in SUBSET Blob
    BY DEF Job, TypeOK
  <2>2. CASE job' = [job EXCEPT ![m] = Loop({c \in rows : link[c] = m})]
    <3>1. b \in InHand(j) \/ (j = m /\ b \in {c \in rows : link[c] = m})
      BY <2>1, <2>2, NewLoop
    <3>. QED
      BY <1>6, <3>1 DEF Listed
  <2>3. CASE job' = [job EXCEPT ![m] = Idle]
    <3>1. InHand(m)' = Idle.todo \cup (IF Idle.at = "row" THEN {Idle.cur} ELSE {})
      BY <2>1, <2>3, OneHand
    <3>2. InHand(m)' = {}
      BY <3>1 DEF Idle
    <3>. QED
      BY <2>1, <2>3, <3>2, OneHand
  <2>. QED
    BY <1>6, <2>2, <2>3 DEF ListForMessage
<1>7. CASE Sweep
  <2>1. Sweeper \in Job /\ {c \in (rows \cap old) \ Picture : link[c] = Nothing} \in SUBSET Blob
    BY DEF Job, TypeOK
  <2>2. b \in InHand(j) \/ (j = Sweeper /\ b \in {c \in (rows \cap old) \ Picture : link[c] = Nothing})
    BY <1>7, <2>1, NewLoop DEF Sweep
  <2>. QED
    BY <1>7, <2>2 DEF Swept
<1>8. ASSUME NEW i \in Job, DropRow(i)
      PROVE  InHand(j)' \subseteq InHand(j)
  <2>1. job[i].todo \in SUBSET Blob
    BY DEF TypeOK, Records
  <2>2. Loop(job[i].todo).todo = job[i].todo /\ Loop(job[i].todo).at # "row"
    BY <2>1, LoopType
  <2>3. job' = [job EXCEPT ![i] = Loop(job[i].todo)]
    BY <1>8 DEF DropRow
  <2>. QED
    BY <2>2, <2>3, OneHand DEF InHand
<1>9. ASSUME NEW i \in Job, NEW c \in Blob, DropObject(i, c)
      PROVE  InHand(j)' \subseteq InHand(j)
  <2>. DEFINE S == job[i].todo \ {c}
  <2>1. S \in SUBSET Blob /\ c \in job[i].todo
    BY <1>9 DEF TypeOK, DropObject, Records
  <2>2. Loop(S).todo = S /\ Loop(S).at # "row"
    BY <2>1, LoopType
  <2>3. \/ job' = [job EXCEPT ![i] = Loop(S)]
        \/ job' = [job EXCEPT ![i] = [at |-> "row", todo |-> S, cur |-> c]]
    BY <1>9 DEF DropObject
  <2>. QED
    BY <2>1, <2>2, <2>3, OneHand DEF InHand
<1>10. CASE Restart
  BY <1>10, LoopType DEF Restart, InHand
<1>. QED
  BY <1>1, <1>a, <1>2, <1>3, <1>4, <1>5, <1>6, <1>7, <1>8, <1>9, <1>10 DEF Next, Remove

\* An upload that is done stays done; one under way ends with its row, with its object taken
\* back, or with its object left behind.
UploadGoesOn(b) ==
  /\ upload[b] = "done" => upload'[b] = "done"
  /\ upload'[b] = "done" => upload[b] = "done" \/ (upload[b] = "create" /\ b \in rows' /\ objects' = objects)
  /\ upload'[b] = "create" => upload[b] = "create" \/ b \in objects'
  /\ upload[b] \in {"create", "undo", "failed", "done"} => upload'[b] \in {"create", "undo", "failed", "done"}
  /\ upload[b] \in {"create", "undo"} /\ b \in objects' =>
       upload'[b] \in {"create", "undo"} \/ b \in rows' \/ b \in leaked'
  /\ leaked \subseteq leaked'

LEMMA UploadStep ==
  ASSUME TypeOK, Next, NEW b \in Blob
  PROVE  UploadGoesOn(b)
<1>. USE DEF UploadGoesOn
<1>. USE DEF TypeOK
<1>1. ASSUME NEW c \in Blob, CheckQuota(c) PROVE UploadGoesOn(b)
  BY <1>1 DEF CheckQuota
<1>2. ASSUME NEW c \in Blob, Put(c) PROVE UploadGoesOn(b)
  BY <1>2 DEF Put
<1>3. ASSUME NEW c \in Blob, Create(c) PROVE UploadGoesOn(b)
  BY <1>3 DEF Create
<1>4. ASSUME NEW c \in Blob, Undo(c) PROVE UploadGoesOn(b)
  BY <1>4 DEF Undo
<1>5. ASSUME NEW c \in Blob, Age(c) \/ DeleteBlob(c) PROVE UploadGoesOn(b)
  BY <1>5 DEF Age, DeleteBlob
<1>a. ASSUME NEW s \in Save, ReadPrevious(s) \/ UpdateImage(s) \/ Reread(s) \/ DeleteOwnAvatar(s) PROVE UploadGoesOn(b)
  BY <1>a DEF ReadPrevious, UpdateImage, Reread, DeleteOwnAvatar
<1>6. ASSUME NEW m \in Message, Send(m) \/ Link(m) \/ DeleteMessage(m) \/ ListForMessage(m) PROVE UploadGoesOn(b)
  BY <1>6 DEF Send, Link, DeleteMessage, ListForMessage
<1>7. ASSUME NEW j \in Job, Remove(j) PROVE UploadGoesOn(b)
  BY <1>7 DEF Remove, DropRow, DropObject
<1>8. CASE Sweep
  BY <1>8 DEF Sweep
<1>9. CASE Restart
  BY <1>9 DEF Restart
<1>. QED
  BY <1>1, <1>2, <1>3, <1>4, <1>5, <1>a, <1>6, <1>7, <1>8, <1>9 DEF Next

\* Only a put adds an object; it is removed by the upload that undoes it or by a remover.
ObjectComesAndGoes(b) ==
  /\ b \in objects' => b \in objects \/ upload'[b] = "create"
  /\ b \in objects \ objects' => upload[b] = "undo" \/ \E j \in Job : b \in InHand(j)

LEMMA ObjectsStep ==
  ASSUME TypeOK, Next, NEW b \in Blob
  PROVE  ObjectComesAndGoes(b)
<1>. USE DEF ObjectComesAndGoes
<1>. USE DEF TypeOK
<1>1. ASSUME NEW c \in Blob, CheckQuota(c) \/ Put(c) \/ Create(c) \/ Undo(c) PROVE ObjectComesAndGoes(b)
  BY <1>1 DEF CheckQuota, Put, Create, Undo
<1>2. ASSUME NEW c \in Blob, Age(c) \/ DeleteBlob(c) PROVE ObjectComesAndGoes(b)
  BY <1>2 DEF Age, DeleteBlob
<1>a. ASSUME NEW s \in Save, ReadPrevious(s) \/ UpdateImage(s) \/ Reread(s) \/ DeleteOwnAvatar(s) PROVE ObjectComesAndGoes(b)
  BY <1>a DEF ReadPrevious, UpdateImage, Reread, DeleteOwnAvatar
<1>3. ASSUME NEW m \in Message, Send(m) \/ Link(m) \/ DeleteMessage(m) \/ ListForMessage(m) PROVE ObjectComesAndGoes(b)
  BY <1>3 DEF Send, Link, DeleteMessage, ListForMessage
<1>4. ASSUME NEW j \in Job, DropRow(j) PROVE ObjectComesAndGoes(b)
  BY <1>4 DEF DropRow
<1>5. ASSUME NEW j \in Job, NEW c \in Blob, DropObject(j, c) PROVE ObjectComesAndGoes(b)
  <2>1. c \in InHand(j)
    BY <1>5 DEF DropObject, InHand
  <2>. QED
    BY <1>5, <2>1 DEF DropObject
<1>6. CASE Sweep \/ Restart
  BY <1>6 DEF Sweep, Restart
<1>. QED
  BY <1>1, <1>2, <1>a, <1>3, <1>4, <1>5, <1>6 DEF Next, Remove

\* Only a finished upload adds a row; a remover takes it that has the blob at hand.
RowComesAndGoes(b) ==
  /\ b \in rows' => b \in rows \/ (upload[b] = "create" /\ upload'[b] = "done" /\ objects' = objects)
  /\ b \in rows \ rows' =>
       \E j \in Job : /\ job[j].at = "row" /\ job[j].cur = b
                    /\ objects' = objects /\ leaked' = leaked

LEMMA RowsStep ==
  ASSUME TypeOK, Next, NEW b \in Blob
  PROVE  RowComesAndGoes(b)
<1>. USE DEF RowComesAndGoes
<1>. USE DEF TypeOK
<1>1. ASSUME NEW c \in Blob, CheckQuota(c) \/ Put(c) \/ Create(c) \/ Undo(c) PROVE RowComesAndGoes(b)
  BY <1>1 DEF CheckQuota, Put, Create, Undo
<1>2. ASSUME NEW c \in Blob, Age(c) \/ DeleteBlob(c) PROVE RowComesAndGoes(b)
  BY <1>2 DEF Age, DeleteBlob
<1>a. ASSUME NEW s \in Save, ReadPrevious(s) \/ UpdateImage(s) \/ Reread(s) \/ DeleteOwnAvatar(s) PROVE RowComesAndGoes(b)
  BY <1>a DEF ReadPrevious, UpdateImage, Reread, DeleteOwnAvatar
<1>3. ASSUME NEW m \in Message, Send(m) \/ Link(m) \/ DeleteMessage(m) \/ ListForMessage(m) PROVE RowComesAndGoes(b)
  BY <1>3 DEF Send, Link, DeleteMessage, ListForMessage
<1>4. ASSUME NEW j \in Job, DropRow(j) PROVE RowComesAndGoes(b)
  BY <1>4 DEF DropRow
<1>5. ASSUME NEW j \in Job, NEW c \in Blob, DropObject(j, c) PROVE RowComesAndGoes(b)
  BY <1>5 DEF DropObject
<1>6. CASE Sweep \/ Restart
  BY <1>6 DEF Sweep, Restart
<1>. QED
  BY <1>1, <1>2, <1>a, <1>3, <1>4, <1>5, <1>6 DEF Next, Remove

\* A remover comes to the row when it has deleted the object, or has left it behind where the
\* code does not keep the row for that.
ObjectFirst(j) ==
  \/ job[j].at = "row" /\ job'[j].cur = job[j].cur
  \/ job'[j].cur \notin objects' \/ (job'[j].cur \in leaked' /\ ~ Keeps(j))

LEMMA DroppingStep ==
  ASSUME TypeOK, Next, NEW j \in Job, job'[j].at = "row"
  PROVE  ObjectFirst(j)
<1>. USE DEF ObjectFirst
<1>1. ASSUME NEW c \in Blob, CheckQuota(c) \/ Put(c) \/ Create(c) \/ Undo(c) \/ Age(c)
      PROVE  ObjectFirst(j)
  BY <1>1 DEF CheckQuota, Put, Create, Undo, Age
<1>a. ASSUME NEW s \in Save, ReadPrevious(s) \/ UpdateImage(s) \/ Reread(s)
      PROVE  ObjectFirst(j)
  BY <1>a DEF ReadPrevious, UpdateImage, Reread
<1>2. ASSUME NEW i \in Job, NEW S \in SUBSET Blob, job' = [job EXCEPT ![i] = Loop(S)]
      PROVE  ObjectFirst(j)
  <2>1. job'[i] = Loop(S)
    BY <1>2 DEF TypeOK
  <2>2. job'[i].at # "row"
    BY <2>1, LoopType
  <2>3. j # i => job'[j] = job[j]
    BY <1>2 DEF TypeOK
  <2>. QED
    BY <2>2, <2>3
<1>3. ASSUME NEW i \in Job, job' = [job EXCEPT ![i] = Idle]
      PROVE  ObjectFirst(j)
  <2>1. job'[i] = Idle
    BY <1>3 DEF TypeOK
  <2>2. job'[i].at # "row"
    BY <2>1, LoopType
  <2>3. j # i => job'[j] = job[j]
    BY <1>3 DEF TypeOK
  <2>. QED
    BY <2>2, <2>3
<1>4. ASSUME NEW c \in Blob, DeleteBlob(c)
      PROVE  ObjectFirst(j)
  <2>1. c \in Job
    BY DEF Job
  <2>. QED
    BY <1>2, <1>4, <2>1 DEF DeleteBlob
<1>b. ASSUME NEW s \in Save, DeleteOwnAvatar(s)
      PROVE  ObjectFirst(j)
  <2>. DEFINE S == {save[s].prev} \cap rows \cap Own(Saver[s])
  <2>1. s \in Job /\ S \in SUBSET Blob
    BY DEF Job, TypeOK
  <2>2. job' = [job EXCEPT ![s] = Loop(S)] \/ UNCHANGED job
    BY <1>b DEF DeleteOwnAvatar
  <2>3. CASE UNCHANGED job
    BY <2>3
  <2>. HIDE DEF S
  <2>. QED
    BY <1>2, <2>1, <2>2, <2>3
<1>5. ASSUME NEW m \in Message, Send(m) \/ Link(m) \/ DeleteMessage(m)
      PROVE  ObjectFirst(j)
  BY <1>5 DEF Send, Link, DeleteMessage, TypeOK, Records
<1>6. ASSUME NEW m \in Message, ListForMessage(m)
      PROVE  ObjectFirst(j)
  <2>1. m \in Job /\ {c \in rows : link[c] = m} \in SUBSET Blob
    BY DEF Job, TypeOK
  <2>. QED
    BY <1>2, <1>3, <1>6, <2>1 DEF ListForMessage
<1>7. CASE Sweep
  <2>1. Sweeper \in Job /\ {c \in (rows \cap old) \ Picture : link[c] = Nothing} \in SUBSET Blob
    BY DEF Job, TypeOK
  <2>. QED
    BY <1>2, <1>7, <2>1 DEF Sweep
<1>8. ASSUME NEW i \in Job, DropRow(i)
      PROVE  ObjectFirst(j)
  <2>1. job[i].todo \in SUBSET Blob
    BY DEF TypeOK, Records
  <2>. QED
    BY <1>2, <1>8, <2>1 DEF DropRow
<1>9. ASSUME NEW i \in Job, NEW c \in Blob, DropObject(i, c)
      PROVE  ObjectFirst(j)
  <2>1. job[i].todo \ {c} \in SUBSET Blob
    BY DEF TypeOK, Records
  <2>2. CASE job' = [job EXCEPT ![i] = Loop(job[i].todo \ {c})]
    BY <1>2, <2>1, <2>2
  <2>3. CASE /\ job' = [job EXCEPT ![i] = [at |-> "row", todo |-> job[i].todo \ {c}, cur |-> c]]
             /\ c \notin objects' \/ (c \in leaked' /\ ~ Keeps(i))
    <3>1. job'[i] = [at |-> "row", todo |-> job[i].todo \ {c}, cur |-> c]
      BY <2>3 DEF TypeOK
    <3>2. j # i => job'[j] = job[j]
      BY <2>3 DEF TypeOK
    <3>. QED
      BY <2>3, <3>1, <3>2
  <2>. QED
    BY <1>9, <2>2, <2>3 DEF DropObject
<1>10. CASE Restart
  BY <1>10, LoopType DEF Restart
<1>. QED
  BY <1>1, <1>a, <1>4, <1>b, <1>5, <1>6, <1>7, <1>8, <1>9, <1>10 DEF Next, Remove

-----------------------------------------------------------------------------
(* Objects and rows *)

LEMMA Initially == Init => IInv
<1>. SUFFICES ASSUME Init PROVE IInv
  OBVIOUS
<1>1. TypeOK
  BY QuotaAssumption DEF Init, TypeOK, Idle, Records, Saves, Unsaved
<1>2. \A j \in Job : InHand(j) = {} /\ job[j].at = "idle"
  BY DEF Init, InHand, Idle
<1>. QED
  BY <1>1, <1>2 DEF Init, IInv, Life, NoOrphanObject

LEMMA LifeStays ==
  ASSUME IInv, Next
  PROVE  Life'
<1>. TypeOK /\ TypeOK' /\ Life
  BY TypesStay DEF IInv
<1>1. ASSUME NEW b \in rows' PROVE upload'[b] = "done"
  <2>1. b \in Blob
    BY DEF TypeOK
  <2>. QED
    BY <2>1, RowsStep, UploadStep DEF Life, UploadGoesOn, RowComesAndGoes
<1>2. ASSUME NEW b \in objects' PROVE upload'[b] \in {"create", "undo", "failed", "done"}
  <2>1. b \in Blob
    BY DEF TypeOK
  <2>. QED
    BY <2>1, ObjectsStep, UploadStep DEF Life, UploadGoesOn, ObjectComesAndGoes
<1>3. ASSUME NEW b \in Blob, upload'[b] = "create" PROVE b \in objects'
  <2>1. upload[b] = "create" \/ b \in objects'
    BY <1>3, UploadStep DEF UploadGoesOn
  <2>2. CASE upload[b] = "create"
    <3>1. b \in objects /\ \A j \in Job : b \notin InHand(j)
      BY <2>2 DEF Life
    <3>. QED
      BY <2>2, <3>1, ObjectsStep DEF ObjectComesAndGoes
  <2>. QED
    BY <2>1, <2>2
<1>4. ASSUME NEW j \in Job, NEW b \in InHand(j)' PROVE b \in Blob /\ upload'[b] = "done"
  <2>1. CASE b \in InHand(j)
    BY <2>1, UploadStep DEF Life, UploadGoesOn
  <2>2. CASE Listed(j, b) \/ Swept(j, b) \/ Disowned(j, b) \/ Retired(j, b)
    <3>1. b \in rows
      BY <2>2 DEF Listed, Swept, Disowned, Retired, DeleteBlob
    <3>2. b \in Blob /\ upload[b] = "done"
      BY <3>1 DEF Life, TypeOK
    <3>. QED
      BY <3>2, UploadStep DEF UploadGoesOn
  <2>. QED
    BY <2>1, <2>2, Taken
<1>5. ASSUME NEW j \in Job, job'[j].at = "row"
      PROVE  job'[j].cur \notin objects' \/ (job'[j].cur \in leaked' /\ ~ Keeps(j))
  <2>1. SUFFICES ASSUME job[j].at = "row", job'[j].cur = job[j].cur
                 PROVE  job'[j].cur \notin objects' \/ (job'[j].cur \in leaked' /\ ~ Keeps(j))
    BY <1>5, DroppingStep DEF ObjectFirst
  <2>2. job[j].cur \in InHand(j)
    BY <2>1 DEF InHand
  <2>3. job[j].cur \in Blob /\ upload[job[j].cur] = "done"
    BY <2>2 DEF Life
  <2>4. upload'[job[j].cur] = "done" /\ leaked \subseteq leaked'
    BY <2>3, UploadStep DEF UploadGoesOn
  <2>5. job[j].cur \in objects' => job[j].cur \in objects
    BY <2>3, <2>4, ObjectsStep DEF ObjectComesAndGoes
  <2>. QED
    BY <2>1, <2>4, <2>5 DEF Life
<1>. QED
  BY <1>1, <1>2, <1>3, <1>4, <1>5 DEF Life

LEMMA OrphansStay ==
  ASSUME IInv, Next
  PROVE  NoOrphanObject'
<1>. SUFFICES ASSUME NEW b \in objects'
              PROVE  b \in rows' \cup leaked' \/ upload'[b] \in {"create", "undo"}
  BY DEF NoOrphanObject
<1>. TypeOK /\ TypeOK' /\ Life /\ NoOrphanObject
  BY TypesStay DEF IInv
<1>1. b \in Blob
  BY DEF TypeOK
<1>2. CASE upload'[b] = "create"
  BY <1>2
<1>3. CASE b \in objects /\ upload[b] \in {"create", "undo"}
  BY <1>1, <1>3, UploadStep DEF UploadGoesOn
<1>4. CASE b \in leaked
  BY <1>1, <1>4, UploadStep DEF UploadGoesOn
<1>5. CASE b \in rows
  <2>1. SUFFICES ASSUME b \notin rows' PROVE b \in leaked'
    BY <1>5
  <2>2. PICK j \in Job : job[j].at = "row" /\ job[j].cur = b /\ objects' = objects /\ leaked' = leaked
    BY <1>1, <1>5, <2>1, RowsStep DEF RowComesAndGoes
  <2>. QED
    BY <2>2 DEF Life
<1>. QED
  BY <1>1, <1>2, <1>3, <1>4, <1>5, ObjectsStep DEF NoOrphanObject, ObjectComesAndGoes

LEMMA Invariance == Spec => []IInv
<1>1. IInv /\ [Next]_vars => IInv'
  <2>. SUFFICES ASSUME IInv, [Next]_vars PROVE IInv'
    OBVIOUS
  <2>1. CASE Next
    BY <2>1, TypesStay, LifeStays, OrphansStay DEF IInv
  <2>2. CASE UNCHANGED vars
    BY <2>2 DEF vars, IInv, TypeOK, Life, InHand, NoOrphanObject
  <2>. QED
    BY <2>1, <2>2
<1>. QED
  BY <1>1, Initially, PTL DEF Spec

\* Types.
THEOREM BlobsTypeCorrect == Spec => []TypeOK
  BY Invariance, PTL DEF IInv

\* An object in the store has a row, or a handler that is about to write it or to take it
\* back, or was left behind by a failure that is swallowed or a restart (store(), purge()).
THEOREM EveryObjectAccounted == Spec => []NoOrphanObject
  BY Invariance, PTL DEF IInv

\* The rows the collector and the sweeper drop are of objects that are gone from the store
\* (purgeBlobRecords deletes the object first and goes on only when that succeeded).
THEOREM CollectorDropsNoOrphan == Spec => CollectorOrphansNothing
<1>1. IInv /\ [Next]_vars => [\A j \in Job : Keeps(j) /\ DropRow(j) => (rows \ rows') \cap objects' = {}]_vars
  BY DEF IInv, Life, DropRow
<1>. QED
  BY <1>1, Invariance, PTL DEF Spec, CollectorOrphansNothing

-----------------------------------------------------------------------------
(* The profile picture *)

\* Why a picture that is in use exists: what a save remembers as its user's previous picture is
\* still that, or has been replaced; and removers have only replaced or disowned ones in hand.
PictureInv ==
  /\ \A b \in Blob : link[b] # Nothing => b \notin Picture
  /\ \A s \in Save : save[s].prev \in Own(Saver[s]) =>
       /\ save[s].prev = image[Saver[s]] \/ save[s].prev \in replaced
       /\ save[s].at = "get" => save[s].prev \in replaced
  /\ \A j \in Job : \A p \in InHand(j) \cap Picture : p \in replaced \cup disowned
  /\ PictureStays

\* A save remembers its user's picture and takes another look at it before it goes on to the
\* removal; a picture that ceases to be its owner's has been replaced.
SavesInOrder ==
  /\ replaced \subseteq replaced' /\ disowned \subseteq disowned'
  /\ \A b \in Blob : link'[b] = link[b] \/ b \notin Picture
  /\ \A u \in Account : image[u] \in Own(u) => image'[u] = image[u] \/ image[u] \in replaced'
  /\ \A s \in Save :
       /\ save'[s].prev = save[s].prev \/ save'[s].prev = image'[Saver[s]]
       /\ save'[s].at = "get" =>
            save'[s].prev = save[s].prev /\ (save[s].at = "get" \/ save[s].prev # image[Saver[s]])

LEMMA SaveStep ==
  ASSUME TypeOK, Next
  PROVE  SavesInOrder
<1>. USE DEF SavesInOrder
<1>. USE DEF TypeOK
<1>1. ASSUME NEW c \in Blob, CheckQuota(c) \/ Put(c) \/ Create(c) \/ Undo(c) \/ Age(c) \/ DeleteBlob(c) PROVE SavesInOrder
  BY <1>1 DEF CheckQuota, Put, Create, Undo, Age, DeleteBlob
<1>2. ASSUME NEW s \in Save, ReadPrevious(s) PROVE SavesInOrder
  <2>1. PICK v \in Blob \cup {Nothing} :
          save' = [save EXCEPT ![s] = [at |-> "update", image |-> v, prev |-> image[Saver[s]]]]
    BY <1>2 DEF ReadPrevious
  <2>. QED
    BY <1>2, <2>1 DEF ReadPrevious
<1>3. ASSUME NEW s \in Save, UpdateImage(s) PROVE SavesInOrder
  <2>1. CASE save' = [save EXCEPT ![s].at = "done"] /\ UNCHANGED <<image, replaced>>
    BY <1>3, <2>1 DEF UpdateImage
  <2>2. CASE /\ save' = [save EXCEPT ![s].at = "reread"]
             /\ image' = [image EXCEPT ![Saver[s]] = save[s].image]
             /\ replaced' = replaced \cup ((Own(Saver[s]) \cap {image[Saver[s]]}) \ {save[s].image})
    <3>1. \A u \in Account : image[u] \in Own(u) => image'[u] = image[u] \/ image[u] \in replaced'
      BY <2>2
    <3>2. \A i \in Save : save'[i].prev = save[i].prev /\ (save'[i].at = "get" => save[i].at = "get")
      BY <2>2 DEF Saves
    <3>. QED
      BY <1>3, <2>2, <3>1, <3>2 DEF UpdateImage
  <2>. QED
    BY <1>3, <2>1, <2>2 DEF UpdateImage
<1>4. ASSUME NEW s \in Save, Reread(s) PROVE SavesInOrder
  <2>1. /\ save'[s].prev = save[s].prev
        /\ save'[s].at = "get" => save[s].prev # image[Saver[s]]
        /\ \A i \in Save \ {s} : save'[i] = save[i]
    BY <1>4 DEF Reread, Saves
  <2>2. \A i \in Save :
          /\ save'[i].prev = save[i].prev
          /\ save'[i].at = "get" => save[i].at = "get" \/ save[i].prev # image[Saver[i]]
    BY <2>1
  <2>. QED
    BY <1>4, <2>2 DEF Reread
<1>5. ASSUME NEW s \in Save, DeleteOwnAvatar(s) PROVE SavesInOrder
  BY <1>5 DEF DeleteOwnAvatar
<1>6. ASSUME NEW m \in Message, Send(m) \/ DeleteMessage(m) \/ ListForMessage(m) PROVE SavesInOrder
  BY <1>6 DEF Send, DeleteMessage, ListForMessage
<1>7. ASSUME NEW m \in Message, Link(m) PROVE SavesInOrder
  BY <1>7, CarriesAssumption DEF Link
<1>8. ASSUME NEW j \in Job, Remove(j) PROVE SavesInOrder
  BY <1>8 DEF Remove, DropRow, DropObject
<1>9. CASE Sweep
  BY <1>9 DEF Sweep
<1>10. CASE Restart
  BY <1>10 DEF Restart
<1>. QED
  BY <1>1, <1>2, <1>3, <1>4, <1>5, <1>6, <1>7, <1>8, <1>9, <1>10 DEF Next

LEMMA PictureInvStays ==
  ASSUME IInv, IInv', PictureInv, Next
  PROVE  PictureInv'
<1>. TypeOK /\ Life /\ TypeOK' /\ Life'
  BY DEF IInv
<1>a. Picture \subseteq Blob /\ Nothing \notin Blob \cup Message
  BY BlobAssumption
<1>1. ASSUME NEW b \in Blob, link'[b] # Nothing PROVE b \notin Picture
  BY <1>1, SaveStep DEF PictureInv, SavesInOrder
<1>2. ASSUME NEW s \in Save, save'[s].prev \in Own(Saver[s])
      PROVE  save'[s].prev = image'[Saver[s]] \/ save'[s].prev \in replaced'
  <2>1. Saver[s] \in Account
    BY DEF Account
  <2>2. CASE save'[s].prev = save[s].prev
    <3>1. save[s].prev = image[Saver[s]] \/ save[s].prev \in replaced
      BY <1>2, <2>2 DEF PictureInv
    <3>. QED
      BY <1>2, <2>1, <2>2, <3>1, SaveStep DEF SavesInOrder
  <2>. QED
    BY <2>2, SaveStep DEF SavesInOrder
<1>3. ASSUME NEW s \in Save, save'[s].prev \in Own(Saver[s]), save'[s].at = "get"
      PROVE  save'[s].prev \in replaced'
  <2>1. /\ save'[s].prev = save[s].prev
        /\ save[s].at = "get" \/ save[s].prev # image[Saver[s]]
        /\ replaced \subseteq replaced'
    BY <1>3, SaveStep DEF SavesInOrder
  <2>2. save[s].prev \in replaced
    BY <1>3, <2>1 DEF PictureInv
  <2>. QED
    BY <2>1, <2>2
<1>4. ASSUME NEW j \in Job, NEW p \in InHand(j)', p \in Picture PROVE p \in replaced' \cup disowned'
  <2>1. CASE p \in InHand(j)
    BY <1>4, <2>1, SaveStep DEF PictureInv, SavesInOrder
  <2>2. CASE Listed(j, p)
    <3>1. link[p] = j /\ j \in Message
      BY <2>2 DEF Listed
    <3>. QED
      BY <1>a, <1>4, <3>1 DEF PictureInv
  <2>3. CASE Swept(j, p)
    BY <1>4, <2>3 DEF Swept
  <2>4. CASE Disowned(j, p)
    BY <2>4 DEF Disowned, DeleteBlob
  <2>5. CASE Retired(j, p)
    <3>1. j \in Save /\ save[j].at = "get" /\ p = save[j].prev /\ p \in Own(Saver[j])
      BY <2>5 DEF Retired, DeleteOwnAvatar
    <3>2. p \in replaced
      BY <3>1 DEF PictureInv
    <3>. QED
      BY <3>2, SaveStep DEF SavesInOrder
  <2>. QED
    BY <2>1, <2>2, <2>3, <2>4, <2>5, Taken
<1>5. ASSUME NEW p \in Picture, upload'[p] = "done", p \notin replaced' \cup disowned'
      PROVE  p \in rows' \cap objects'
  <2>1. CASE upload[p] = "done"
    <3>1. p \notin replaced \cup disowned
      BY <1>5, SaveStep DEF SavesInOrder
    <3>2. p \in rows \cap objects /\ \A j \in Job : p \notin InHand(j)
      BY <2>1, <3>1 DEF PictureInv, PictureStays
    <3>3. p \in objects'
      BY <1>a, <2>1, <3>2, ObjectsStep DEF ObjectComesAndGoes
    <3>4. p \in rows'
      BY <1>a, <3>2, RowsStep DEF InHand, RowComesAndGoes
    <3>. QED
      BY <3>3, <3>4
  <2>2. CASE upload[p] # "done"
    <3>1. upload[p] = "create" /\ p \in rows' /\ objects' = objects
      BY <1>a, <1>5, <2>2, UploadStep DEF UploadGoesOn
    <3>. QED
      BY <1>a, <3>1 DEF Life
  <2>. QED
    BY <2>1, <2>2
<1>6. PictureStays'
  BY <1>5 DEF PictureStays
<1>7. \A s \in Save : save'[s].prev \in Own(Saver[s]) =>
       /\ save'[s].prev = image'[Saver[s]] \/ save'[s].prev \in replaced'
       /\ save'[s].at = "get" => save'[s].prev \in replaced'
  BY <1>2, <1>3
<1>. QED
  BY <1>1, <1>4, <1>6, <1>7 DEF PictureInv, Own

\* A picture has its row and its object until its owner's profile has ceased to show it or its
\* owner deletes it: the saves of several devices, whose forms may bring back any picture, the
\* sweeps and the restarts take no other (POST /api/me/profile, deleteOwnAvatarByUrl).
THEOREM PictureIsThere == Spec => []PictureStays
<1>1. Init => PictureInv
  <2>. SUFFICES ASSUME Init PROVE PictureInv
    OBVIOUS
  <2>1. \A j \in Job : InHand(j) = {}
    BY DEF Init, InHand, Idle
  <2>2. \A p \in Picture : upload[p] # "done"
    BY BlobAssumption DEF Init
  <2>3. \A s \in Save : save[s].prev \notin Own(Saver[s])
    BY BlobAssumption DEF Init, Own, Unsaved
  <2>. QED
    BY <2>1, <2>2, <2>3 DEF Init, PictureInv, PictureStays
<1>2. IInv /\ IInv' /\ PictureInv /\ [Next]_vars => PictureInv'
  <2>. SUFFICES ASSUME IInv, IInv', PictureInv, [Next]_vars PROVE PictureInv'
    OBVIOUS
  <2>1. CASE UNCHANGED vars
    BY <2>1 DEF vars, PictureInv, PictureStays, InHand, Own
  <2>. QED
    BY <2>1, PictureInvStays
<1>3. PictureInv => PictureStays
  BY DEF PictureInv
<1>. QED
  BY <1>1, <1>2, <1>3, Invariance, PTL DEF Spec

-----------------------------------------------------------------------------
(* Attachments *)

\* Nobody may remove b: not its owner, not the sweeper, not a message's deletion.
Safe(b) ==
  /\ b \notin Picture \cup disowned
  /\ IF link[b] = Nothing THEN b \notin old ELSE link[b] \notin deleted

AttachmentInv ==
  /\ \A m \in Message : \A b \in Carries[m] :
       sent[m] # "unsent" => upload[b] = "done" /\ (sent[m] = "linking" => b \notin old)
  /\ \A b \in Blob : link[b] # Nothing =>
       b \in Carries[link[b]] /\ Owner[b] = Sender[link[b]] /\ sent[link[b]] = "linked"
  /\ \A m \in Message : \A b \in Carries[m] :
       sent[m] = "linked" /\ Owner[b] = Sender[m] /\ b \notin disowned => link[b] = m
  /\ \A j \in Job : \A b \in InHand(j) : ~ Safe(b)
  /\ \A m \in Message : job[m].at # "idle" => m \in deleted
  /\ \A b \in Blob : upload[b] = "done" /\ Safe(b) => b \in rows \cap objects

\* A blob is linked once, by a message that was under way and names it; what is past the
\* grace period is named by none that is.
LinksInOrder ==
  /\ \A b \in Blob : link'[b] = link[b] \/
       (/\ link[b] = Nothing /\ link'[b] \in Message /\ b \in Carries[link'[b]] \cap rows
        /\ Owner[b] = Sender[link'[b]] /\ sent[link'[b]] = "linking" /\ sent'[link'[b]] = "linked")
  /\ \A m \in Message :
       \/ sent'[m] = sent[m]
       \/ sent[m] = "unsent" /\ sent'[m] = "linking" /\ \A b \in Carries[m] : upload[b] = "done" /\ b \notin old'
       \/ sent[m] = "linking" /\ sent'[m] = "unlinked"
       \/ /\ sent[m] = "linking" /\ sent'[m] = "linked" /\ disowned' = disowned
          /\ \A b \in Carries[m] \cap rows : Owner[b] = Sender[m] /\ link[b] = Nothing => link'[b] = m
  /\ old \subseteq old' /\ disowned \subseteq disowned' /\ deleted \subseteq deleted'
  /\ \A b \in old' \ old : \A m \in Message : b \in Carries[m] => sent'[m] # "linking"

LEMMA MessageStep ==
  ASSUME TypeOK, Next
  PROVE  LinksInOrder
<1>. USE DEF LinksInOrder
<1>. USE DEF TypeOK
<1>1. ASSUME NEW c \in Blob, CheckQuota(c) \/ Put(c) \/ Create(c) \/ Undo(c)
      PROVE  LinksInOrder
  BY <1>1 DEF CheckQuota, Put, Create, Undo
<1>a. ASSUME NEW s \in Save, ReadPrevious(s) \/ UpdateImage(s) \/ Reread(s) \/ DeleteOwnAvatar(s)
      PROVE  LinksInOrder
  BY <1>a DEF ReadPrevious, UpdateImage, Reread, DeleteOwnAvatar
<1>2. ASSUME NEW c \in Blob, Age(c) PROVE LinksInOrder
  BY <1>2 DEF Age
<1>3. ASSUME NEW c \in Blob, DeleteBlob(c) PROVE LinksInOrder
  BY <1>3 DEF DeleteBlob
<1>4. ASSUME NEW m \in Message, Send(m) PROVE LinksInOrder
  BY <1>4 DEF Send
<1>5. ASSUME NEW m \in Message, Link(m) PROVE LinksInOrder
  BY <1>5, CarriesAssumption DEF Link
<1>6. ASSUME NEW m \in Message, DeleteMessage(m) \/ ListForMessage(m) PROVE LinksInOrder
  BY <1>6 DEF DeleteMessage, ListForMessage
<1>7. ASSUME NEW j \in Job, Remove(j) PROVE LinksInOrder
  BY <1>7 DEF Remove, DropRow, DropObject
<1>8. CASE Sweep
  BY <1>8 DEF Sweep
<1>9. CASE Restart
  BY <1>9 DEF Restart
<1>. QED
  BY <1>1, <1>a, <1>2, <1>3, <1>4, <1>5, <1>6, <1>7, <1>8, <1>9 DEF Next

\* Only a deleted message's files are looked for.
Collects(m) ==
  job[m].at # "idle" \/ m \in deleted'

LEMMA CollectStep ==
  ASSUME TypeOK, IdsDiffer, Next, NEW m \in Message, job'[m].at # "idle"
  PROVE  Collects(m)
<1>. USE DEF Collects
<1>. USE DEF TypeOK
<1>a. m \in Job /\ m \notin Blob \cup Save /\ m # Sweeper
  BY BlobAssumption DEF IdsDiffer, Job, Sweeper
<1>1. ASSUME NEW c \in Blob, CheckQuota(c) \/ Put(c) \/ Create(c) \/ Undo(c) \/ Age(c) \/ DeleteBlob(c)
      PROVE  Collects(m)
  BY <1>a, <1>1 DEF CheckQuota, Put, Create, Undo, Age, DeleteBlob
<1>2. ASSUME NEW s \in Save, ReadPrevious(s) \/ UpdateImage(s) \/ Reread(s) \/ DeleteOwnAvatar(s)
      PROVE  Collects(m)
  BY <1>a, <1>2 DEF ReadPrevious, UpdateImage, Reread, DeleteOwnAvatar
<1>3. ASSUME NEW i \in Message, Send(i) \/ Link(i) \/ DeleteMessage(i)
      PROVE  Collects(m)
  BY <1>a, <1>3 DEF Send, Link, DeleteMessage
<1>4. ASSUME NEW i \in Message, ListForMessage(i)
      PROVE  Collects(m)
  BY <1>a, <1>4 DEF ListForMessage
<1>5. ASSUME NEW j \in Job, Remove(j)
      PROVE  Collects(m)
  BY <1>a, <1>5 DEF Remove, DropRow, DropObject
<1>6. CASE Sweep
  BY <1>a, <1>6 DEF Sweep
<1>7. CASE Restart
  BY <1>a, <1>7 DEF Restart, Idle
<1>. QED
  BY <1>1, <1>2, <1>3, <1>4, <1>5, <1>6, <1>7 DEF Next

LEMMA AttachmentInvStays ==
  ASSUME IInv, IInv', OneMessageEach, IdsDiffer, AttachmentInv, Next
  PROVE  AttachmentInv'
<1>. TypeOK /\ Life /\ TypeOK' /\ Life'
  BY DEF IInv
<1>a. /\ Nothing \notin Blob \cup Message
      /\ \A m \in Message : Carries[m] \subseteq Blob \ Picture
      /\ \A b \in Blob : link[b] \in Message \cup {Nothing}
      /\ \A b \in Blob : link'[b] \in Message \cup {Nothing}
  BY BlobAssumption, CarriesAssumption DEF TypeOK
<1>1. ASSUME NEW m \in Message, NEW b \in Carries[m], sent'[m] # "unsent"
      PROVE  upload'[b] = "done" /\ (sent'[m] = "linking" => b \notin old')
  <2>1. b \in Blob
    BY <1>a
  <2>2. upload[b] = "done"
    BY <1>1, MessageStep DEF AttachmentInv, LinksInOrder
  <2>3. sent'[m] = "linking" => b \notin old'
    BY <1>1, MessageStep DEF AttachmentInv, LinksInOrder
  <2>. QED
    BY <2>1, <2>2, <2>3, UploadStep DEF UploadGoesOn
<1>2. ASSUME NEW b \in Blob, link'[b] # Nothing
      PROVE  b \in Carries[link'[b]] /\ Owner[b] = Sender[link'[b]] /\ sent'[link'[b]] = "linked"
  <2>1. CASE link'[b] = link[b]
    <3>1. link[b] \in Message /\ sent[link[b]] = "linked"
      BY <1>a, <1>2, <2>1 DEF AttachmentInv
    <3>2. sent'[link[b]] = "linked"
      BY <3>1, MessageStep DEF LinksInOrder
    <3>. QED
      BY <1>2, <2>1, <3>2 DEF AttachmentInv
  <2>2. CASE link'[b] # link[b]
    BY <2>2, MessageStep DEF LinksInOrder
  <2>. QED
    BY <2>1, <2>2
<1>3. ASSUME NEW b \in Blob, Safe(b)' PROVE Safe(b)
  <2>1. b \notin Picture \cup disowned
    BY <1>3, MessageStep DEF Safe, LinksInOrder
  <2>2. CASE link'[b] = link[b]
    BY <1>3, <2>1, <2>2, MessageStep DEF Safe, LinksInOrder
  <2>3. CASE link'[b] # link[b]
    <3>1. link[b] = Nothing /\ b \notin old
      BY <2>3, MessageStep DEF AttachmentInv, LinksInOrder
    <3>. QED
      BY <2>1, <3>1 DEF Safe
  <2>. QED
    BY <2>2, <2>3
<1>4. ASSUME NEW j \in Job, NEW b \in InHand(j)' PROVE ~ Safe(b)'
  <2>1. b \in Blob
    BY DEF Life
  <2>2. CASE b \in InHand(j)
    BY <1>3, <2>1, <2>2 DEF AttachmentInv
  <2>3. CASE Listed(j, b)
    <3>1. j \in Message /\ link[b] = j /\ job[j].at # "idle"
      BY <2>3 DEF Listed, ListForMessage
    <3>2. j \in deleted /\ link[b] # Nothing
      BY <1>a, <3>1 DEF AttachmentInv
    <3>. QED
      BY <1>3, <2>1, <3>1, <3>2 DEF Safe
  <2>4. CASE Swept(j, b)
    BY <1>3, <2>1, <2>4 DEF Swept, Safe
  <2>5. CASE Disowned(j, b)
    BY <2>5 DEF Disowned, DeleteBlob, Safe
  <2>6. CASE Retired(j, b)
    <3>1. b \in Picture
      BY <2>6 DEF Retired, Own
    <3>. QED
      BY <3>1 DEF Safe
  <2>. QED
    BY <2>2, <2>3, <2>4, <2>5, <2>6, Taken
<1>5. ASSUME NEW b \in Blob, upload'[b] = "done", Safe(b)' PROVE b \in rows' \cap objects'
  <2>1. CASE upload[b] = "done"
    <3>1. b \in rows \cap objects /\ \A j \in Job : b \notin InHand(j)
      BY <1>3, <1>5, <2>1 DEF AttachmentInv
    <3>2. b \in objects'
      BY <2>1, <3>1, ObjectsStep DEF ObjectComesAndGoes
    <3>3. b \in rows'
      BY <3>1, RowsStep DEF InHand, RowComesAndGoes
    <3>. QED
      BY <3>2, <3>3
  <2>2. CASE upload[b] # "done"
    BY <1>5, <2>2, UploadStep DEF Life, UploadGoesOn
  <2>. QED
    BY <2>1, <2>2
<1>6. ASSUME NEW m \in Message, NEW b \in Carries[m], sent'[m] = "linked", Owner[b] = Sender[m], b \notin disowned'
      PROVE  link'[b] = m
  <2>1. b \in Blob /\ b \notin Picture /\ b \notin disowned
    BY <1>a, <1>6, MessageStep DEF LinksInOrder
  <2>2. CASE sent[m] = "linked"
    <3>1. link[b] = m
      BY <1>6, <2>1, <2>2 DEF AttachmentInv
    <3>. QED
      BY <1>a, <2>1, <3>1, MessageStep DEF LinksInOrder
  <2>3. CASE sent[m] # "linked"
    <3>1. sent[m] = "linking" /\ \A c \in Carries[m] \cap rows : Owner[c] = Sender[m] /\ link[c] = Nothing => link'[c] = m
      BY <1>6, <2>3, MessageStep DEF LinksInOrder
    <3>2. upload[b] = "done" /\ b \notin old
      BY <3>1 DEF AttachmentInv
    <3>3. link[b] = Nothing
      <4>1. SUFFICES ASSUME link[b] # Nothing PROVE FALSE
        OBVIOUS
      <4>2. /\ link[b] \in Message /\ b \in Carries[link[b]]
            /\ Owner[b] = Sender[link[b]] /\ sent[link[b]] = "linked"
        BY <1>a, <2>1, <4>1 DEF AttachmentInv
      <4>3. link[b] = m
        BY <1>6, <2>1, <4>2 DEF OneMessageEach
      <4>. QED
        BY <2>3, <4>2, <4>3
    <3>4. b \in rows
      BY <2>1, <3>2, <3>3 DEF Safe, AttachmentInv
    <3>. QED
      BY <1>6, <3>1, <3>3, <3>4
  <2>. QED
    BY <2>2, <2>3
<1>7. ASSUME NEW m \in Message, job'[m].at # "idle" PROVE m \in deleted'
  BY <1>7, CollectStep, MessageStep DEF AttachmentInv, LinksInOrder, Collects
<1>. QED
  BY <1>1, <1>2, <1>4, <1>5, <1>6, <1>7 DEF AttachmentInv

\* An attachment its message was linked to is there until its sender deletes the message or the
\* blob, where no two of one user's messages name one blob (linkToMessage, listOrphans).
THEOREM AttachmentIsThere ==
  ASSUME OneMessageEach, IdsDiffer
  PROVE  Spec => []AttachmentStays
<1>1. Init => AttachmentInv
  <2>. SUFFICES ASSUME Init PROVE AttachmentInv
    OBVIOUS
  <2>1. \A j \in Job : InHand(j) = {} /\ job[j].at = "idle"
    BY DEF Init, InHand, Idle
  <2>2. \A m \in Message : m \in Job
    BY DEF Job
  <2>. QED
    BY <2>1, <2>2 DEF Init, AttachmentInv
<1>2. IInv /\ IInv' /\ AttachmentInv /\ [Next]_vars => AttachmentInv'
  <2>. SUFFICES ASSUME IInv, IInv', AttachmentInv, [Next]_vars PROVE AttachmentInv'
    OBVIOUS
  <2>1. CASE UNCHANGED vars
    BY <2>1 DEF vars, AttachmentInv, Safe, InHand
  <2>. QED
    BY <2>1, AttachmentInvStays
<1>3. AttachmentInv => AttachmentStays
  <2>. SUFFICES ASSUME AttachmentInv, NEW m \in Message, sent[m] = "linked", m \notin deleted,
                       NEW b \in Carries[m], Owner[b] = Sender[m], b \notin disowned
                PROVE  b \in rows \cap objects
    BY DEF AttachmentStays
  <2>1. b \in Blob \ Picture /\ m # Nothing
    BY BlobAssumption, CarriesAssumption
  <2>2. upload[b] = "done" /\ link[b] = m
    BY DEF AttachmentInv
  <2>. QED
    BY <2>1, <2>2 DEF AttachmentInv, Safe
<1>. QED
  BY <1>1, <1>2, <1>3, Invariance, PTL DEF Spec

-----------------------------------------------------------------------------
(* The quota *)

\* The uploads under way never outnumber the peak.
QuotaInv ==
  \A u \in Account :
    /\ Cardinality(InFlight(u)) <= peak[u]
    /\ peak[u] # 0 => Cardinality(Stored(u)) + Cardinality(InFlight(u)) <= Quota - 1 + peak[u]

LEMMA Counts ==
  ASSUME NEW S \in SUBSET Blob
  PROVE  /\ IsFiniteSet(S) /\ Cardinality(S) \in Nat
         /\ \A T \in SUBSET S : Cardinality(T) \in Nat /\ Cardinality(T) <= Cardinality(S)
         /\ \A b \in Blob \ S : Cardinality(S \cup {b}) = Cardinality(S) + 1
<1>1. IsFiniteSet(S)
  BY BlobAssumption, FS_Subset
<1>2. \A T \in SUBSET S : IsFiniteSet(T) /\ Cardinality(T) <= Cardinality(S)
  BY <1>1, FS_Subset
<1>3. \A b \in Blob \ S : Cardinality(S \cup {b}) = Cardinality(S) + 1
  BY <1>1, FS_AddElement
<1>. QED
  BY <1>1, <1>2, <1>3, FS_CardinalityType

\* A step starts an upload within the quota, finishes one, or adds to neither count.
Charges(u) ==
  \/ /\ InFlight(u)' \subseteq InFlight(u) /\ Stored(u)' \subseteq Stored(u) /\ peak'[u] = peak[u]
  \/ \E b \in InFlight(u) : /\ InFlight(u)' = InFlight(u) \ {b}
                          /\ Stored(u)' = Stored(u) \cup {b} /\ peak'[u] = peak[u]
  \/ /\ Stored(u)' = Stored(u) /\ Cardinality(Stored(u)) + 1 <= Quota
     /\ peak'[u] = IF Cardinality(InFlight(u)') > peak[u] THEN Cardinality(InFlight(u)') ELSE peak[u]
  \/ /\ Stored(u)' = Stored(u) /\ InFlight(u)' = InFlight(u)
     /\ peak'[u] = IF Cardinality(InFlight(u)') > peak[u] THEN Cardinality(InFlight(u)') ELSE peak[u]

LEMMA ChargeStep ==
  ASSUME TypeOK, Next, NEW u \in Account
  PROVE  Charges(u)
<1>. USE DEF Charges
<1>. USE DEF TypeOK
<1>1. ASSUME NEW b \in Blob, CheckQuota(b) PROVE Charges(u)
  <2>1. Stored(u)' = Stored(u)
    BY <1>1 DEF CheckQuota, Stored
  <2>2. CASE u = Owner[b]
    <3>1. peak'[u] = IF Cardinality(InFlight(u)') > peak[u] THEN Cardinality(InFlight(u)') ELSE peak[u]
      BY <1>1, <2>2 DEF CheckQuota
    <3>2. CASE upload' = [upload EXCEPT ![b] = "refused"]
      <4>1. upload[b] = "none"
        BY <1>1 DEF CheckQuota
      <4>2. InFlight(u)' = InFlight(u)
        BY <3>2, <4>1 DEF InFlight
      <4>. QED
        BY <2>1, <3>1, <4>2
    <3>3. CASE Cardinality(Stored(u)) + 1 <= Quota
      BY <2>1, <3>1, <3>3
    <3>. QED
      BY <1>1, <2>2, <3>2, <3>3 DEF CheckQuota
  <2>3. CASE u # Owner[b]
    <3>1. peak'[u] = peak[u]
      BY <1>1, <2>3 DEF CheckQuota
    <3>2. InFlight(u)' = InFlight(u)
      BY <1>1, <2>3 DEF CheckQuota, InFlight
    <3>. QED
      BY <2>1, <3>1, <3>2
  <2>. QED
    BY <2>2, <2>3
<1>2. ASSUME NEW b \in Blob, Create(b) PROVE Charges(u)
  <2>1. CASE u = Owner[b] /\ upload' = [upload EXCEPT ![b] = "done"] /\ rows' = rows \cup {b}
    <3>1. b \in InFlight(u) /\ peak' = peak
      BY <1>2, <2>1 DEF Create, InFlight
    <3>2. InFlight(u)' = InFlight(u) \ {b}
      BY <2>1 DEF InFlight
    <3>3. Stored(u)' = Stored(u) \cup {b}
      BY <2>1 DEF Stored
    <3>. QED
      BY <3>1, <3>2, <3>3
  <2>2. CASE u # Owner[b] \/ (upload' = [upload EXCEPT ![b] = "undo"] /\ rows' = rows)
    BY <1>2, <2>2 DEF Create, InFlight, Stored
  <2>. QED
    BY <1>2, <2>1, <2>2 DEF Create
<1>3. ASSUME NEW b \in Blob, Put(b) \/ Undo(b) \/ Age(b) \/ DeleteBlob(b) PROVE Charges(u)
  BY <1>3 DEF Put, Undo, Age, DeleteBlob, InFlight, Stored
<1>4. ASSUME NEW s \in Save, ReadPrevious(s) \/ UpdateImage(s) \/ Reread(s) \/ DeleteOwnAvatar(s) PROVE Charges(u)
  BY <1>4 DEF ReadPrevious, UpdateImage, Reread, DeleteOwnAvatar, InFlight, Stored
<1>5. ASSUME NEW m \in Message, Send(m) \/ Link(m) \/ DeleteMessage(m) \/ ListForMessage(m) PROVE Charges(u)
  BY <1>5 DEF Send, Link, DeleteMessage, ListForMessage, InFlight, Stored
<1>6. ASSUME NEW j \in Job, Remove(j) PROVE Charges(u)
  BY <1>6 DEF Remove, DropRow, DropObject, InFlight, Stored
<1>7. CASE Sweep
  BY <1>7 DEF Sweep, InFlight, Stored
<1>8. CASE Restart
  BY <1>8 DEF Restart, InFlight, Stored
<1>. QED
  BY <1>1, <1>2, <1>3, <1>4, <1>5, <1>6, <1>7, <1>8 DEF Next

LEMMA QuotaInvStays ==
  ASSUME IInv, QuotaInv, Next
  PROVE  QuotaInv'
<1>. SUFFICES ASSUME NEW u \in Account
              PROVE  /\ Cardinality(InFlight(u)') <= peak'[u]
                     /\ peak'[u] # 0 => Cardinality(Stored(u)') + Cardinality(InFlight(u)') <= Quota - 1 + peak'[u]
  BY DEF QuotaInv
<1>1. TypeOK /\ Life /\ TypeOK'
  BY TypesStay DEF IInv
<1>2. InFlight(u) \subseteq Blob /\ Stored(u) \subseteq Blob /\ InFlight(u)' \subseteq Blob /\ Stored(u)' \subseteq Blob
  BY <1>1 DEF InFlight, Stored, TypeOK
<1>3. /\ Cardinality(InFlight(u)) \in Nat /\ Cardinality(Stored(u)) \in Nat
      /\ Cardinality(InFlight(u)') \in Nat /\ Cardinality(Stored(u)') \in Nat
      /\ peak[u] \in Nat /\ Quota \in Nat
  BY <1>1, <1>2, Counts, QuotaAssumption DEF TypeOK
<1>4. /\ Cardinality(InFlight(u)) <= peak[u]
      /\ peak[u] # 0 => Cardinality(Stored(u)) + Cardinality(InFlight(u)) <= Quota - 1 + peak[u]
  BY DEF QuotaInv
<1>5. CASE InFlight(u)' \subseteq InFlight(u) /\ Stored(u)' \subseteq Stored(u) /\ peak'[u] = peak[u]
  <2>1. Cardinality(InFlight(u)') <= Cardinality(InFlight(u)) /\ Cardinality(Stored(u)') <= Cardinality(Stored(u))
    BY <1>2, <1>5, Counts
  <2>. QED
    BY <1>3, <1>4, <1>5, <2>1
<1>6. ASSUME NEW b \in InFlight(u), InFlight(u)' = InFlight(u) \ {b}, Stored(u)' = Stored(u) \cup {b}, peak'[u] = peak[u]
      PROVE  /\ Cardinality(InFlight(u)') <= peak'[u]
             /\ peak'[u] # 0 => Cardinality(Stored(u)') + Cardinality(InFlight(u)') <= Quota - 1 + peak'[u]
  <2>1. b \in Blob /\ b \notin Stored(u) /\ b \notin InFlight(u)'
    BY <1>1, <1>6 DEF InFlight, Stored, Life
  <2>2. InFlight(u) = InFlight(u)' \cup {b}
    BY <1>6
  <2>3. Cardinality(InFlight(u)' \cup {b}) = Cardinality(InFlight(u)') + 1
    BY <1>2, <2>1, Counts
  <2>4. Cardinality(Stored(u)') = Cardinality(Stored(u)) + 1
    BY <1>2, <1>6, <2>1, Counts
  <2>5. Cardinality(InFlight(u)) = Cardinality(InFlight(u)') + 1
    BY <2>2, <2>3
  <2>. QED
    BY <1>3, <1>4, <1>6, <2>4, <2>5
<1>7. CASE /\ Stored(u)' = Stored(u)
           /\ Cardinality(Stored(u)) + 1 <= Quota \/ InFlight(u)' = InFlight(u)
           /\ peak'[u] = IF Cardinality(InFlight(u)') > peak[u] THEN Cardinality(InFlight(u)') ELSE peak[u]
  BY <1>3, <1>4, <1>7
<1>. QED
  BY <1>1, <1>5, <1>6, <1>7, ChargeStep DEF Charges

\* Uploads at the same time pass the quota by no more than the ones under way together, less
\* one (store() of modules/blobs.ts reads usedBytes before the upload).
THEOREM OvershootBounded == Spec => []QuotaOvershootBounded
<1>1. Init => QuotaInv
  <2>. SUFFICES ASSUME Init, NEW u \in Account PROVE Cardinality(InFlight(u)) <= peak[u] /\ peak[u] = 0
    BY DEF QuotaInv
  <2>1. InFlight(u) = {} /\ peak[u] = 0
    BY DEF Init, InFlight
  <2>. QED
    BY <2>1, FS_EmptySet
<1>2. IInv /\ QuotaInv /\ [Next]_vars => QuotaInv'
  <2>. SUFFICES ASSUME IInv, QuotaInv, [Next]_vars PROVE QuotaInv'
    OBVIOUS
  <2>1. CASE UNCHANGED vars
    BY <2>1 DEF vars, QuotaInv, InFlight, Stored
  <2>. QED
    BY <2>1, QuotaInvStays
<1>3. QuotaInv => QuotaOvershootBounded
  BY DEF QuotaInv, QuotaOvershootBounded
<1>. QED
  BY <1>1, <1>2, <1>3, Invariance, PTL DEF Spec
=============================================================================
