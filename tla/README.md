# Chatforge in TLA+

Specifications of the parts of chatforge in which order, concurrency and failure decide
whether the program is right: the chat server's message log and presence, the life of an
uploaded blob, the chat client's cache of decrypted messages, the MLS groups behind group
and direct conversations, the admin console, the Spotify status, the vault; and of the
converter, where the data does. Each module is a translation of the TypeScript it names;
`PROJECT.json` maps every definition to its lines.

Run, inside this directory:

    tlc -workers 2 -config ChatLog.cfg MCChatLog.tla     # any .cfg, with its MC module
    tlapm ChatLogProofs.tla                              # the proofs
    tlapm PresenceProofs.tla
    tlapm BlobsProofs.tla
    tlapm ChatClientProofs.tla
    tlapm GroupsProofs.tla
    tlapm AdminProofs.tla
    tlapm AccountProofs.tla
    tlapm ConverterProofs.tla

## Inventory of the system

chatforge is a web application (React, `apps/web`), an API server (Hono on Node,
`apps/api`), and three libraries (`packages/core`, the converter; `packages/crypto`, MLS
and vault cryptography; `packages/types`). Postgres keeps the tables, an S3-compatible
store keeps blobs, IndexedDB keeps what one browser knows.

The API server is one Node process. Handlers are async functions that nobody queues: two
frames of one socket are handled at the same time, and handlers interleave at every
`await`. The exceptions are inside Postgres, where a transaction or a single statement is
atomic, and in the browser's workers, which take their requests one after the other.

| Component | State | Operations | What is hard |
|---|---|---|---|
| Chat log: `chat/gateway.ts`, `chat/repo.ts`, `db/schema.ts` | `chat_messages`, `chat_members`, the frames sent to sockets | send, delete, typing, read; roster changes | seq is computed by a read and used by a later write; the roster is a snapshot; send and delete of one message race |
| Presence: `chat/gateway.ts` | `registry`, `awayState`, `isAlive`, `user_presence` | connect, close, `active`, `sub`, heartbeat | listeners are attached late; every handler acts after awaits on what it read before |
| Conversations API: `modules/chat.ts`, `chat/repo.ts` | conversations, members, contacts, key packages, welcomes | create DM or group, add, remove, contacts, claim and publish key packages, relay welcomes | find-then-create, check-then-insert, single-use packages |
| Blobs: `modules/blobs.ts`, `storage/*`, `modules/account.ts` | `blobs`, the object store, `users.image` | upload, link, delete, sweep, replace the profile picture | two stores that fail separately; quota read before and charged after; restarts |
| Chat client: `lib/chatClient.ts`, `lib/chatDb.ts` | message list, IndexedDB cache and cursor, WebSocket | start, history, live frames, send, delete, groups | live frames, history and the worker interleave; a key decrypts once; tabs close |
| MLS: `packages/crypto/src/mls.ts`, `worker/chat.worker.ts`, `lib/keyVerification.ts` | group states and key bundles in IndexedDB, confirmed safety numbers | create, join, add, remove, encrypt, decrypt, compare numbers | epochs; commits go through the message log; Welcomes cross; half-done additions |
| Admin, RBAC: `modules/admin.ts`, `admin/repo.ts`, `rbac.ts` | roles, users' roles and statuses, grants, flags, audit | change role or status, grant, deny, edit roles and flags, bootstrap an owner | checks read before the write: what the actor may give, "the last owner" |
| Sessions: `auth/logto.ts` | `logto_sessions` | sign in, callback, sign out, refresh | read whole, written back whole |
| Accounts: `modules/account.ts` | profile, vault salt | save profile, ensure a salt | read-then-write |
| Vault: `modules/vault.ts`, `lib/vaultCrypto.ts`, `lib/vault.ts` | encrypted conversions; keys in IndexedDB and in each tab's memory | save, open, delete, switch between device key and passphrase | first key and first salt are read-then-write; a tab caches its key |
| Now playing: `integrations/*`, `modules/integrations.ts` | Spotify tokens, last status written | OAuth, poll, disconnect | passes overlap and outlive a disconnect; the profile form writes the same column |
| Converter: `packages/core`, `features/converter`, its worker | the page's document, edits, artifact and report | import, edit, convert | formats that must read back; answers that arrive after an edit |
| Web UI, configuration, migrations, deployment | | | not specified |

How they interact: a client's frames go through the gateway to the chat log, and come back
as frames to every member's sockets; the send handler links the blobs a message carries
after it has answered, the delete handler reclaims them before it relays the deletion;
the Conversations API changes the roster under running handlers; the profile handler
removes the picture that it has replaced through the blob module and sets the status that the poller
watches; the client posts every ciphertext to its worker and stores the plaintext itself;
MLS commits travel as messages of the log, Welcomes through the Conversations API; the
admin console decides what the middleware lets any other handler do; the vault derives its
passphrase key from the account's salt and the page that fills it is the converter.

What makes each part right:

- Chat log: one gap-free sequence per conversation; frames agree with it; messages go to
  members only; only the author deletes; `deleted` never comes before `message`; every
  send is answered.
- Presence: the cap holds; an open connection is registered; a live connection is never
  reaped and a dead one is; nobody who never left is shown offline; `sub` is answered.
- Blobs: no object without a row, no attachment removed while its message is there and no
  picture before its owner's profile has ceased to show it, a bounded overshoot of the quota, abandoned uploads and those of deleted messages reclaimed.
- Chat client: plaintext whose key is spent is never lost; what is listed survives a
  reload; what is purged stays purged; the cursor is the highest seq processed.
- Groups and MLS: who can read is who is delivered to; a Welcome can be opened; the ratchet
  never goes back; two people who open a conversation end in one group; what both have
  verified is the same.
- Admin: nobody gives a permission that he does not have; there is an owner; roles that are
  assigned exist; the audit log names every change.
- Now playing: the poller knows its own status again; a disconnect drops the tokens for good
  and clears the status. Vault: what was saved can be opened where the page says so.
- Converter: an export reads back as the same conversation, or the report says what was
  lost; the report on the screen is that of the document on the screen; work ends.

## Modules

| Module | Models | Kind |
|---|---|---|
| `OrderedLog` | what one conversation promises its readers | abstract specification |
| `ChatLog` | gateway `send`/`delete` handlers, tables, sockets | detailed, implements `OrderedLog` |
| `ChatLogProofs` | theorems about `ChatLog`: the log, the relay, the refinement, deletion | proofs |
| `Presence` | registry, away state, heartbeat, presence frames | detailed |
| `PresenceProofs` | theorems about `Presence` | proofs |
| `Blobs` | uploads, quota, links, garbage collection, pictures | detailed |
| `BlobsProofs` | theorems about `Blobs` | proofs |
| `ChatClient` | one device: live frames, history, worker, IndexedDB | detailed |
| `ChatClientProofs` | theorems about `ChatClient` | proofs |
| `Groups` | one group conversation: roster, key packages, Welcomes, commits, epochs | detailed |
| `DirectMessages` | two users who start a direct conversation, and their safety numbers | detailed |
| `GroupsProofs` | theorems about `Groups` and `DirectMessages` | proofs |
| `RichText`, `Formats`, `Engine` | the conversion engine, as operators | pure |
| `Converter` | the converter page and its worker, over `Engine` | detailed |
| `ConverterProofs` | theorems about `Converter` and `Formats` | proofs |
| `Admin` | the console's requests, permission resolution, first sign-in, bootstrap | detailed |
| `AdminProofs` | theorems about `Admin` | proofs |
| `NowPlaying` | the Spotify poller, OAuth, disconnect, edits of the status | detailed |
| `Vault` | device and passphrase keys, saved conversations, tabs | detailed |
| `AccountProofs` | theorems about `NowPlaying` and `Vault` | proofs |
| `MCServer`, `MCGroups`, `MCAccount` | instances that hold several components | compositions |
| `MCChatLog`, `MCPresence`, `MCBlobs`, `MCChatClient`, `MCConverter` | instances of one component | model values, symmetry |

In the modules of concurrent code a transition is what a handler does between two awaits,
and the handler's position is a variable (`pc`, `bye`, `act`, `sent`, `job`, `save`,
`task`, `hist`, `op`, `chat`, `req`, `pass`, `tab`). What a handler read before an await
and uses after it is a variable too (`seq` and `roster` in ChatLog, `asked` and `looked` in
Presence, `prev` and `todo` in Blobs, `seen`, `last` and `skip` in ChatClient, `by`, `seen`
and `target` of a request in Admin, `row`, `rows` and `ours` of a pass in NowPlaying, `cached` of a tab in
Vault), so a stale value is as stale as in the code. Definitions named "Mutant of ..." are
plausible bugs; they take no part in the specification and show that each property can
fail.

Parts that share no state are put into one instance with a variable `turn`, chosen in the
initial state: in a behaviour one of them runs and the others rest. Their interleavings
would only multiply the states. `MCServer` holds Presence and Blobs, `MCGroups` Groups and
DirectMessages, `MCAccount` Admin, NowPlaying and Vault.

### ChatLog

`Receive` starts the handler of a `send` or `delete` frame, `CheckMember` is `isMember`,
`ReadMax` and `Insert` are the two statements of `appendMessage` (Postgres at its default
isolation: the unique constraint, not the transaction, keeps two sends apart), `BlankRow`
is the one UPDATE of `deleteMessage`, `ReadRoster` is `memberIds`, `Relay` and
`RelayDeleted` are the fan-out, which has no await in it. `Fail` is any query that throws.
Roster changes, closing sockets and a restart of the process happen at any time. Texts
and identities are the request itself; a client deletes what it has been told of
(`KnownTo`). Attachments' reclamation, on the way of a delete, is in Blobs.

`OrderedLog` is the promise: append, blank by the author, show. ChatLog implements it with
`entries <- log` and `shown <-` the seqs of the `message` frames each socket was sent.

### Presence

`Connect`, `Register`, `Announce` are the connection handler between its awaits,
`Unauthorized` its refusal, `CloseEvent`, `ForgetAway`, `TellOffline` the close handler,
`Active`/`TellActive` and `Sub`/`AnswerOnline`/`LookUp`/`AnswerOffline` the frame handlers,
`Heartbeat` the timer. A socket is `open`, `dead` (the client has vanished, the server does
not know), `closing` or `closed`; frames written to an open socket reach its client at once,
so `view` is what the client shows. Before `pc = "ready"` no listener is attached: `Sub`
is dropped, and so is the close event, after which the socket stays in the registry.
`Kept` is what the eviction at the cap leaves of a user's sockets, the oldest first to go.

### Blobs

`CheckQuota`, `Put`, `Create`, `Undo` are `store()`; `Send`, `Link`, `DeleteMessage`,
`ListForMessage` the gateway's part; `Sweep` the hourly timer, with `Age` for the six hours;
`DropObject` and `DropRow` the loop of `remove()`, of the owner's DELETE and of the picture
clean-up, which differ in what a failure of the store does (`Keeps`); `ReadPrevious`,
`UpdateImage`, `Reread`, `DeleteOwnAvatar` the profile handler. The body of a profile save
brings any image: the page's form sends what it loaded when it was opened with every save,
so that an earlier picture comes back, and has a field for the URL. Every blob has size 1. `MaxFaults` calls fail;
a restart counts as a fault.

### ChatClient

`OnMessage`, `StorePlain`, `Show`, `Retry` are `ingest`, of a live frame and of the history
alike; `ShowStored`, `GetList`, `NextInHistory`, `Ingested`, `EndHistory` are `loadHistory`;
`WorkerDecrypt` and `WorkerEncrypt` one turn of the worker; `OnDeleted`, `OnDelivered` the
frame handlers; `Write` and `WsSend` are `sendMessage`. The server is what ChatLog
establishes: seqs are contiguous, frames agree with the log, `deleted` follows `message`
(`MessageBeforeDeleted`), and frames of different messages come in any order. `CloseTab`
leaves IndexedDB only. MLS is represented by `spent`: a message decrypts once.

### Groups

Only the owner's client commits: the panel offers the buttons to nobody else. The epochs of
the group are therefore one line, `epochs`, each a ratchet tree, and the owner's device is at
the last. `NewGroup`, `AddToRoster`, `Claim`, `AddToTree`, `RelayWelcome`, `SendAddCommit`
are `newGroup` and `addGroupMember` between the answers of the server; `RemoveFromTree`,
`SendRemoveCommit`, `RemoveFromRoster` are `removeGroupMember`, in the code's order (roster
first to add, last to remove). `Abort` ends either anywhere. `Handle` is ChatLog's send
handler seen from outside: a stored frame of a member, relayed to the members' open
sockets. A guest's device `Start`s (publishes packages and stores their private halves),
`Join`s (`processWelcomes`), `List`s and ingests history and live frames, with the retry
after a failed decryption; a message is decrypted in the epochs of its sender's device,
once. `ClaimElsewhere` is a stranger who claims a guest's package. The guests of `Away` have
published a package and do not come back: their Welcomes stay. A guest who has left keeps its
leaf in the tree and its group state, and so does one whose removal fails in the worker:
`removeGroupMember` takes that for a member without a leaf and goes on to the roster (the third
branch of `RemoveFromTree`). Both are `unrevoked`, the exception in `ReadersAreOnRoster` and in
`RatchetGoesForward`.

### DirectMessages

Two users, one device each, who may both open the conversation. `Find` and `Insert` are
`createDm` of `repo.ts`; `EnsureGroup`, `Claim`, `StartDm`, `RelayWelcome` are `ensureGroup`
and `startDm`, one step for each answer awaited, so that two of them cross anywhere; `Catch`
is `processWelcomes` outside of `newChat`. `ShowKeys` and `Confirm` are the panel of safety
numbers: it shows the number of the group it was opened with, and stores that one. An MLS
group is identified by the key package it was made with. `welcomes` is the table: a set of rows with the
time they were made, which is the order `processWelcomes` gets them in (`Latest` is the last of
a conversation, whose state stays).

### RichText, Formats, Engine, Converter

The engine's functions are operators. `RichText` has segments, the renderers and the WhatsApp
markup parser; `Formats` the importers and exporters of WhatsApp and Telegram; `Engine` the
HTML, Markdown and JSON exporters, detection, the fidelity report, `ImportConversation`,
`ExportConversation` and `ApplyEdits`. What is abstracted is named in `Formats`: a character
is a letter, a blank, a marker or a token that stands for an attachment or for a line that
looks like a header; a time is a number of hours in a calendar of twelve months of 31 days,
which keeps the order of day and month, two-digit years, noon and midnight, and the carry
between months and years; ids are their keys, unhashed.

`Converter` is the page's store and the two buttons. A request to the worker carries its
answer, computed from what the page held at the click; `AnswerImport` and `AnswerExport`
show it, in the order of the requests, whatever the user has done meanwhile. `touched` says
that the conversation, an edit or the target changed while a conversion ran.

### Admin

A request is a record `req[s]`: `at` is the database call it waits for, `by` its actor as
the middleware found it (role and permissions at that moment), `seen` and `target` what it
has read. The routes differ in the calls they make: `Look` reads the person's row, `Check`
the role's, `Count` counts owners or assignments, `Write` is the mutation, `Log` the audit
entry. `AfterLook`, `AfterCheck`, `AfterCount` hold the guards of each route. `RequestOnFallback` is a request for
which the grants could not be read, and the permissions of the built-in role are used;
`SignIn` is `ensureAppUser`, with the bootstrap of the first owner; `Boot` a restart with
`ensureBootstrapAdmin`. `overlapped` says that a request has written while another was
between its first read and its write: the code has no transactions there, so that is when
its checks may be stale.

### NowPlaying

`PollOnce` to `Mark` are one pass of the poller, call by call; passes are not excluded from
one another, since `setInterval` does not wait, so the model has several. `Refresh` uses
the refresh token the pass has read, and Spotify may replace it; `ReadStatus` and
`WriteStatus` are `writeStatus`, with `Manual` its test for a status typed by hand; `Mark`
stores `lastStatusText`. `Disconnect` to `ClearStatusWrites` is the DELETE route. `Callback`
creates or updates the row. `EditStatus` is POST /profile, which stores any text: one that the
user has typed, none, or the one that the form had loaded (ProfileCard.tsx:51-52 sends it with
every save), Spotify's too, current or old. `status[u].by` is history, and the same text saved
again is still whose it was; `row[u].first`, the token a row was made with, is history too.
`adrift` are the users whose status is out of the poller's hands: two of its passes were past
`writeStatus`'s read for the user together, or a pass could not note what it had written, since
the row was gone or the update failed, or the user disconnected while the status was there.

### Vault

Tabs, each with its memory, and browsers, each with one IndexedDB. `GetKey` and `PutKey` are
`deviceKey` when the tab has none yet; `ReadSalt` and `WriteSalt` are `/vault-salt`;
`UnlockVault`, `LockVault`, `ResolveSaveMode`, `Save`, `Post`, `OpenItem` are the vault page
and the save button. Keys and salts are numbers, and an item records the key that sealed it.
`crossed` says that two first keys of a browser, or two first salts, have been made
together.

## Runs

| Run | Bounds | States | Shows |
|---|---|---|---|
| `chat_log` | 2 users, 1 socket each, 2 sends, 1 delete | 157 thousand | one gap-free log that frames agree with, relayed to members, deleted by authors; `OrderedLog` implemented; every send answered |
| `server` | 2 devices of one user, 1 peer, cap 1; 1 attachment, 1 picture, 1 message, 1 fault | 47 thousand | the cap and the registration of open sockets, no false "offline", the heartbeat spares the living and removes the dead; abandoned uploads are reclaimed |
| `sub_dropped` (violation) | 1 device, 1 subscriber | | a `sub` sent on open can be dropped unanswered |
| `blobs` | 1 attachment, 2 pictures, 2 messages, 3 profile saves, 1 fault | 602 thousand | bounded overshoot, no unexplained orphan, attachments stay while their message does, pictures until they are replaced |
| `blobs_deleted` (violation) | 1 attachment, 1 message, no fault | | link after delete: the attachment is kept for ever |
| `chat_client` | 2 messages, 1 of this device, 2 history runs, 1 loss | 2.4 million | spent plaintext is kept, what is listed is stored |
| `client_purge` (violation) | 1 message, 1 history run | | a purged message is stored again |
| `client_cursor` (violation) | 2 messages, 1 history run | | the cursor goes back |
| `groups` | owner and 2 guests, one of them away, 3 epochs, 1 text, 2 packages each, 1 fault; 2 users, 2 conversations, 1 fault | 939 thousand | Welcomes can be opened, readers are on the roster, the ratchet goes forward, who was added joins; one group for two, and what both verified is shared |
| `converter` | 3 clicks, 1 edit; every WhatsApp text of two parts and chosen ones of three and four, sample chats of both platforms, a zip, a foreign file | 262 thousand | exports of WhatsApp and Telegram read back as they were, the report says what is lost and is that of the page, work ends |
| `account` | 4 persons, 2 requests at a time, 1 fault; 1 listener, 2 passes, 1 edit, 2 rows, 1 error; 2 tabs of a browser, 2 items, 2 keys or salts | 1.0 million | nobody gives what he does not have, roles exist, the audit names changes, an owner stays; the poller knows its own status, the tokens of a dropped connection stay dropped; what was saved opens |
| `account_disconnect` (violation) | as `account`, 1 row | | a disconnect leaves the status |

Why the bounds are enough: two sends are the smallest number whose seqs can collide, a
delete needs one of them, and the handlers of a third add no new pair of conflicting
steps. A cap of one with two devices evicts a socket while the other's handler is still
running; what depends on larger caps is proved. Three saves with two
pictures are a picture set, replaced, and put back by a form that was opened before; a behaviour
of the run has saves or messages, not both (`Apart`), since the two touch different blobs, and
the proofs have them together; two messages that name one attachment make its link contested, by
another member's too; a quota of two with three blobs is passed by concurrent uploads. Two
messages have one order to invert, and the second history run meets the cache the first one
left. Three epochs are creation, an addition and a removal, or two additions, the second
while the first's Welcome is pending; a second key package lets a device join twice. Two
conversations let two users create one each at the same time. Three clicks are an import, a
conversion and a third that overtakes one of them. Two requests are what the admin console's
stale reads need; the proofs hold for any number. Two passes overlap, two rows are a
reconnect. One fault reaches each step that can fail; a second would only repeat an
interrupted operation.

Deadlock is checked in `chat_log`, which cannot come to rest (its roster keeps changing);
elsewhere the bounds of uploads, messages, epochs, clicks, requests and faults let the
system stop, so the configurations switch the check off. Symmetry is used only in runs
without liveness, over sockets, pictures or passes that no constant tells apart.

## Fairness

Only what the runtime does without being asked is fair: Node resumes a handler whose query
was answered (`Step`, `Resume`, `Link`, `ListForMessage`, `Remove`), timers fire
(`Heartbeat`, `Sweep`), a client that is there answers a ping (`Pong`, by the WebSocket
protocol), and a page's event loop and its worker run (`Resume` of a guest that comes
back; `ReadFile`, `AnswerImport` and `AnswerExport` in Converter). No client is forced to
send, connect or leave, no user to click; no failure is forced, and a query that fails is a
step of its own. `Heartbeat`'s guard (`owed`, the pings sent and not answered) states the
timing its code relies on: a client that is there pongs within the 30 seconds between two
pings. `Age`'s states that of the grace period: no send is under way for six hours
(`blobGc.ts:17`). In a composed instance fairness is that of the part whose turn it is.

## Where the code departs from its documents

- `sub_dropped`: the listener for frames is attached after three awaits (gateway.ts:151), a
  `sub` sent on open may be lost; docs/architecture.md:122-125 says that every one is
  answered.
- `blobs_deleted`: attachments are linked after `delivered` (gateway.ts:212); a delete in
  between reclaims nothing, and neither does anything later; blobGc.ts:13 says that they go
  with the message, immediately.
- `client_purge`: `deleted` purges the cache, the ingest under way stores again
  (chatClient.ts:193, 491); chatClient.ts:400 says that this must never be.
- `client_cursor`: the last ingest to end sets the cursor (chatClient.ts:199);
  chatDb.ts:108 calls it the highest seq processed. A reload then starts at a message that
  cannot be decrypted again, and stops.
- `account_disconnect`: a disconnect clears the status through `writeStatus` with nothing to
  compare it with (nowPlaying.ts:132), which takes any text for one typed by hand and leaves
  it; integrations.ts:79 says "drop the tokens and clear any status this integration set".

Properties that hold with an exception name it in their formula, so that the exception is
visible: `ReportIsCurrent` excuses what changed while a conversion ran (`touched`; the
answer then shows an older document), `LastOwnerStays` and `AssignedRolesExist` excuse
overlapping requests (two demotions at once leave no owner), `Vouched` lists by what else a
permission is gained, `KnownLoss` what the exporters lose without a word, `SavedItemsOpen`
two first keys or salts made together, `OneGroupOrBothUnaware` two starts of which neither could
see the other's Welcome, `ReadersAreOnRoster` a member whose removal the worker failed, and one who left, `RatchetGoesForward`
such a one who is added again,
`OwnStatusIsKnown` the users who are `adrift`, `OfflineOnlyAfterLeaving` a user who has left and is
back before the announcement (`left`), `HeartbeatSparesTheLiving` clients that take longer than
the interval to pong (the guard of `Heartbeat`), `NoOrphanObject` an object that a restart or a
swallowed failure has left (`leaked`), `AuditNamesChanges` a mutation whose entry could not be
written (`faults`). In each of these the code does behave so; the property is about the rest.

## Proofs

The theorems hold for any users, sockets, persons, roles, blobs, messages, epochs, key packages,
tabs and requests; the runs show the same properties on an instance, inside a composition whose
other parts leave the variables alone. Each rests on an inductive invariant (`IInv` where a
module has one), which TLC has checked on an instance first; that it holds initially and that
the steps keep it is proved action by action.

`ChatLogProofs`:

- `Invariance`: `IInv` is an invariant of `Spec`;
- `TypeCorrect`, `NoHole`, `FramesAgree`, `RelayedToMembers`: the type invariant,
  `SeqsContiguous`, `FramesMatchLog` and `RelayOnlyToWitnesses`;
- `Refinement`: `Spec => OrderedSpec`, the tables and handlers implement the abstract log.

The assumptions are the module's own: the owner is a user, every socket has a user, sends
and deletes are different requests. `SeqsContiguous` is not inductive: that `Insert` extends
the interval by one needs the handler to hold `seq <= LastSeq + 1` between its read and its
write, and `FramesMatchLog` needs what a handler past its insert holds to be in the log as
its own row; `RelayOnlyToWitnesses` needs the roster it read to be within the witnesses of
its row. `IInv` is the conjunction of those with the three properties and the type
invariant. Its proof has one lemma per kind of step (refuse, insert, blank, a query, relay,
environment); `Refinement` shows that an insert is `Add`, a blank is `Blank` by the row's
author, a relay is `Show`, and every other step a stutter.

Its second part goes on from `Invariance` and proves `MessageBeforeDeleted`
(`NoticeComesLast`), `DeletedByAuthor` (`AuthorDeletes`) and `DeletedNoticeIsTrue`
(`NoticeIsTrue`) by a second invariant, `DInv`. The order of `message` and `deleted` is not
inductive: a send whose row is stored but not yet relayed could be overtaken by a delete.
`NotRelayedYet` says why it is not: while a send is between its insert and its fan-out, no
inbox and no delete names its seq. A delete names only what its client was told of, and a
fan-out tells everybody in one step. One lemma, `RowsKept`, covers every step that leaves the
rows alone; the insert, the blanking, the arrival of a request and the environment have
their own. So every safety property of the run `chat_log` is proved, and the refinement.

`PresenceProofs` proves the type invariant (`PresenceTypeCorrect`), `RegistryIsSound`
(`RegistrySound`), `OfflineOnlyAfterLeaving` (`NeverWronglyOffline`) and
`HeartbeatSparesTheLiving` (`LivingAreSpared`). Three facts make them inductive. `Registered`:
what is in the registry belongs to the user it is filed under and has passed
authentication, and a socket that has not connected has no handler and no ping, so that a
registration adds a new one. `SilentIsOwed`: a client that is there and counts as silent
was pinged after its last answer, so that the guard of the next `Heartbeat` (it has
ponged in time) excludes it. `OfflineHasLeft`: whoever is said to be offline, by a close
handler or in an answer to `sub`, whatever it awaits, had no socket when that was
looked up; the registry may have changed since. Lemmas about what the eviction at the cap
(`Kept`) and the removal of a socket (`Without`) do to a sequence without repetitions come
first. Of the run `server` the liveness is left to TLC.

`AdminProofs` proves `TypeOK` (`AdminTypeCorrect`), `AssignedRolesExist` (`RolesExist`),
`AuditNamesChanges` (`ChangesAreNamed`), `LastOwnerStays` (`LastOwnerIsProtected`) and
`GainsAreVouchedFor` (`NobodyGivesMore`), from `AdminAssumption` (the names of built-in and
custom roles differ, and so on) and `StartAssumption` (the tables start with no role missing
that somebody has). `ReadsAreFresh` is the core: unless requests have overlapped, what a
handler has read (the person's role, that the role exists, that there is another owner,
that nobody has the role to delete) is still so when it writes. `Calls` says which calls
each route makes; `RowsStay`, that a person's row does not go away, is what `AuditNamesChanges`
needs to compare with the start. `GainsAreVouchedFor` holds whatever overlaps, and has an
invariant of its own: `Vetted` says what a handler has made sure of about its actor at the
call where it stands, which no other request can undo, since it is about the actor as the
middleware found it.

`BlobsProofs` proves every safety property of the run `blobs`, so that only its liveness is
left to TLC. The interleavings are in eight lemmas (`UploadStep`, `ObjectsStep`, `RowsStep`,
`DroppingStep`, `Taken`, `SaveStep`, `MessageStep`, `ChargeStep`), each with a case per action, that say how one
step moves an upload, an object, a row, what a remover has in hand, a profile save, a link
and the two counts of the quota; the invariants follow from those without the actions.
`Life` (a row's upload is done, a remover has only such blobs in hand, and what it drops the
row of is gone from the store or was left behind) gives `NoOrphanObject`
(`EveryObjectAccounted`) and `CollectorOrphansNothing` (`CollectorDropsNoOrphan`).
`PictureStays` (`PictureIsThere`) rests on what a suspended save remembers: the picture it found
is still its user's or has been replaced since, and the second look at the profile (`Reread`)
lets only one that has been replaced go on to the removal; so removers hold no other picture
but those their owners delete.
`AttachmentStays` (`AttachmentIsThere`) rests on `Safe`: an attachment that is neither past
the grace period nor linked to a deleted message nor disowned is in nobody's hands, and one that has
been lost to that stays lost; it assumes `OneMessageEach` and `IdsDiffer`, which `MCBlobs` has TLC
evaluate on its instance. `QuotaOvershootBounded` (`OvershootBounded`) needs that the uploads
under way never outnumber `peak`, and that one leaves their count when it enters the rows'.

`ChatClientProofs` proves `SpentIsKept` (`SpentKept`) and `ShownIsStored` (`ShownStored`), so that
both properties of the run `chat_client` hold for any number of messages, drafts, runs of
`loadHistory`, lost connections and closed tabs. That a spent plaintext is kept is inductive
only with `RelayedOnce` (a message is relayed in one frame, so that its live ingest starts
once), `OneIngest` (`loadHistory` ingests one message at a time and none without a page) and
`AskedOnce` (an ingest that waits for the worker has one request in the queue, so that it gets
one answer, and the key it spends is answered to somebody). `StoredFirst` says the same of what
an ingest is about to list and of what `loadHistory` has read from the cache. Lemmas about
insertion into and removal from a queue come first, then one per kind of step. It assumes
`FromAssumption`, `BoundAssumption` and `DraftAssumption` (a message is told from the draft it
was written as).

`GroupsProofs` proves `WelcomeCanBeOpened` (`WelcomesOpened`), `ReadersAreOnRoster`
(`ReadersOnRoster`) and `RatchetGoesForward` (`RatchetForward`) of Groups, for any finite set of
guests. They hold together in one invariant. `WelcomesOpen` says that a Welcome which a bundle
still opens takes the device forward, and one that none opens was used; it needs `ClaimOpens` (the
package the owner has claimed opens no other Welcome and is in no pool), `StateInTree` (the
device's state is of an epoch whose tree has its leaf, of a package it has used up) and
`OneLeaf` (a guest who is not `unrevoked` has one leaf in every tree). `OneLeaf` needs that nobody
is added twice, which is `ReadersAreOnRoster` with `Operating` (`newGroup` goes on only to
members without a leaf, whatever has failed before). The operators on trees (`AddLeaf`, the
leftmost blank, truncation) and on the Welcomes have their lemmas, which rest on
`LeastElement`: a non-empty set of naturals has a least one.

The second part proves `OneGroupOrBothUnaware` (`OneGroup`) and `VerifiedIsShared` (`VerifiedShared`)
of DirectMessages. For the first, `Following` says of a device that has not started a group
unawares that its group, the Welcomes for it and the one on its way are all the peer's, and
that the peer has no group while the peer is still claiming a package. For the second,
`Past` is a group that a device cannot come to any more: its package is not in the pool, its
bundle is gone, and no `newChat` holds it. What a device holds, shows or has confirmed is past
(`NumbersArePast`), so a replaced group does not come back; a panel with another number than
the confirmed one was therefore opened after that one was replaced (`PanelIsLater`), and of two
different confirmed numbers one is of a group that neither has any more (`OneIsOver`).
`PartsRun` shows that the composition `MCGroups` has the behaviours of both parts, so that the
theorems are about what the run `groups` checks. Assumed are `OwnerAssumption` (the guests are
finitely many and the owner is none), `BoundAssumption`, `ConversationsAssumption` and
`PairAssumption` (the two are different, and `None` is no key package).

`AccountProofs` proves `OwnStatusIsKnown` (`StoredTextIsKnown`) from `KnownInv`: for a user who is
not adrift at most one pass is between its read of the profile and its mark (`OneWriter`), a status
of Spotify's has the text that this pass has written (`MarkedText`), and where there is no such
pass the stored one (`StoredText`). The property alone is not inductive: that `Mark` stores the
right text needs the pass to be the only one.

It proves `OldTokensStayDropped` (`OldTokensAreDropped`) from `TokenInv`: a row that a pass has read
(`Snapshot`) has an id that has been given, and a row of the same id that the user has now is the
same connection, which has kept the token it was made with; a new row has an id that no pass has
(`RowsGoOn`). So a late update by id either meets the connection whose token was refreshed, or
none. Assumed is `TextAssumption`, that `None` is no text.

It proves `SavedItemsOpen` (`SavedCanBeOpened`) from `VaultAssumption` (a key is not
the empty slot): unless two tabs have made a key or a salt together (`clashed`), one that is
about to make it is the only one and finds none (`OneMaker`), the keys in a tab's memory are
the stored ones (`KeysAreStored`), and so are those the items were sealed with
(`ItemsOpen`). `MCAccount` has TLC evaluate both assumptions.

`ConverterProofs` proves `ReportIsCurrent` (`ReportCurrent`) for any files, edits and targets, with
the engine as a black box: a request carries the answer of its own conversation and target
(`AnswerIsExport`), and unless something was touched those are the page's (`PendingIsCurrent`).

Its second part is about the engine. `TimesReadBack`: the times of a WhatsApp export are read
back as they were, since no date with the day first has a first number over 31 or a second
one over 12 (`FormattedIs` undoes the calendar). `TextSurvivesTelegram`: a text cut into
Telegram's parts is put together again, whatever its entities. The cuts are the sorted bounds
of the entities, from the beginning to the end (`SortedIs`, by the rank of a number in the
set, `SortedEnds`), and what the parts up to the k-th make is the text up to the k-th cut
(`FlattenCuts`, by induction on k). `SurvivesTelegramExport` is what `TelegramRoundTrip` says of
a message, for every chat of `Messages`: ids, senders, names, texts and entities are any,
and a message has one file or none, of a kind that Telegram tells apart, since of more the export
writes the first (exporters/telegram.ts:111) and other kinds come back as `file`. The message it
answers is compared by position (`PositionOfPosition`). Left to TLC of that property are the
entities, the sender's name, the kind of chat and the detection, which fold over the parts and
the participants.

Model-checked only: liveness (`EverySendAnswered`, `DeadLeave`, `AbandonedReclaimed`, `TheAddedJoin`,
`WorkEnds`), since fairness and ENABLED are beyond the prover; and of the converter
`WhatsAppRoundTrip`, `ReportIsHonest` and the rest of `TelegramRoundTrip`, which are about what
parsers and folds over texts and messages compute. The library's induction theorems take an
operator as a parameter, which the installed provers cannot instantiate; `GroupsProofs` and
`ConverterProofs` have induction over the naturals in the form of a set (`Induction`), which
unfolds one recursive function (`FlattenCuts`) but leaves the parsers as long proofs.

## Seen in the code, and held by no property

- gateway.ts:223: the roster of a delete is read after the row is blanked; if that query
  fails the author gets `error`, nobody gets `deleted`, and a second delete finds nothing.
- repo.ts:229: `setLastRead` writes what the frame says, and two read frames may be handled
  in the other order.
- gateway.ts:252: a close announces `offline` after three awaits without looking again; who has
  connected meanwhile is shown offline (`left` in `OfflineOnlyAfterLeaving`).
- gateway.ts:242: a socket that closes while its connection handler awaits has no `close`
  listener yet and stays registered, out of the heartbeat's sight, until the cap evicts it
  (`DeadLeave` is about sockets with their listeners). gateway.ts:251: `awayState.delete`
  may drop what a reconnected tab has just reported. Presence has both.
- blobGc.ts:31: when the store fails while a deleted message's attachments are removed, the
  row is kept, but the sweeper lists no row with a message. Blobs has it
  (`DeletedReclaimed` fails without this fault already).
- ProfileCard.tsx:48: the profile form sends the image it loaded when it was opened with
  every save. One that was opened before another device replaced the picture puts the removed
  picture back, and account.ts:84-86 then removes the current one. Blobs has it, and
  `PictureStays` is what remains true.
- nowPlaying.ts:109-116: what the user saves by hand between the read and the update of
  `writeStatus` is overwritten, though nowPlaying.ts:12-13 says "careful never to clobber a status
  the user set by hand". NowPlaying has it (`EditStatus` between `ReadStatus` and `WriteStatus`).
- ProfileCard.tsx:51-52: the profile form sends the status it has loaded with every save. A form
  opened during an earlier song puts that text back; the poller finds a text that is not its
  `lastStatusText`, takes it for one set by hand, and leaves it for good. NowPlaying has it.
- nowPlaying.ts:22: passes may overlap; two that write for one user leave a status and a
  `lastStatusText` that differ, with the same effect. So does a pass whose last update fails, or
  ends after a disconnect (`adrift`). Two that refresh one row may store the older token last.
- chatClient.ts:156: `loadHistory` drops own messages that still await `delivered`.
- chatClient.ts:440: after a reconnect nothing reloads the history; what was sent meanwhile
  comes with the next `loadHistory`. A commit among it leaves the device behind until then.
- chatClient.ts:447: a commit written to a closed socket is dropped, and the others stay an
  epoch behind. Groups has it.
- chatClient.ts `leaveGroup`: the leaver goes from the roster, not from the ratchet tree,
  until the owner removes the leaf (`unrevoked` in `ReadersAreOnRoster`).
- chatClient.ts:275: a worker that fails to remove a member is taken for one that found no leaf
  (`commit: null`), and the member goes from the roster (277) with the leaf in the tree: it can
  still read what it comes by, though chatClient.ts:270-271 says that the MLS commit "is what
  actually revokes their access". The owner sees no error. Groups has it (`unrevoked`).
- chat.worker.ts:62: a member who has left and is added again reads the next commits with its old
  leaf, so nothing fails and the Welcome is not looked for; whenever it is (the next start), `join`
  replaces the group state without looking at it, by that of an earlier epoch. The commits since
  then are read and below the cursor, so the device stays behind, though chatClient.ts:230-231 says
  that who processed message N has processed every commit before it. The exception in
  `RatchetGoesForward` is this behaviour; without it TLC refutes the property at four epochs.
- chat.worker.ts:131: each tab has a worker of its own on one IndexedDB; two workers may read
  one state. Not modelled.
- repo.ts:63: `createDm` looks for any conversation the two share, of whatever kind: two
  users who share a group get the group. DirectMessages assumes that they share none.
- logto.ts:76: the session's blob is read whole and written back whole.
- middleware.ts:32: the fallback for unreadable grants uses the built-in role alone, so that a deny
  does not count meanwhile (`RequestOnFallback`).

## Not modelled, and why

- Typing and read frames: nothing else depends on them, except `last_read_seq` (above).
- Rate limits (token buckets) and timestamps: real time.
- Cryptography: key derivation, AES, MLS key schedules. What matters of it to the order of
  things is modelled: that a key is used once, that a message has an epoch, that a
  Welcome needs its bundle, that what one key has sealed no other key opens.
- Contacts and their requests, names, biographies, preferences: one statement on one row.
- The storage of Logto sessions: it is called from inside `@logto/node`, whose reads and
  writes are not in the repository. `ensureAppUser` is in Admin.
- The importers of Discord, Instagram and Messenger exports: stubs, which never match.
- The download path of blobs, which changes nothing.
- The client's reactions, attachments and read receipts, and several tabs of one client.
- The web interface as such, configuration, migrations and deployment.

## Plan

Done: the chat log and its refinement, presence, blobs, the client's cache; groups and
direct messages; the converter; the admin console, the Spotify status, the vault; proofs
of every safety property of ChatLog, Presence, Blobs, ChatClient, Groups, DirectMessages,
Admin, NowPlaying and Vault, and of the messages of a Telegram round trip.

Next, each with its run and mutants:

1. More proofs about the converter's functions: the entities and senders of the Telegram round
   trip, the lines and attachments of the WhatsApp one.
2. ChatClient with reactions and attachments, then with two tabs on one IndexedDB, each with
   its worker.
3. Contacts, and read receipts with the order of `setLastRead`.
