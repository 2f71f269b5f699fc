---- MODULE MCAccount ----
(* The three parts of the account side share no state, so their interleavings
   add nothing: in each behaviour one of them runs and the others rest. *)
EXTENDS Admin, TLC

CONSTANTS olga, otto, ann, uma, s1, s2

CONSTANTS Listener, Track, Typed, Pass, MaxEdits, MaxRows, MaxTokens, MaxErrors
CONSTANTS Tab, Passphrase, Chat, MaxItems, MaxMade, t1, t2, p1, p2

VARIABLES status, row, spotify, flows, pass, leaving, rowIds, edits, errors, adrift
VARIABLES salt, items, rosters, idb, tab, made, ids, clashed
VARIABLE turn \* the part that runs

Row(role) == [role |-> role, status |-> "active"]
MCStart == [p \in Person |-> CASE p \in {olga, otto} -> Row("owner") [] p = ann -> Row("admin") [] OTHER -> Row(None)]
MCStartRoles == [n \in Custom |-> {"chat:use", "permissions:grant"}]
MCRoleSets == {{"roles:manage", "roles:assign"}, {"chat:use"}}
BrowserOf == [t \in Tab |-> "laptop"]
Symmetric == Permutations(Pass)

Status == INSTANCE NowPlaying
Vault == INSTANCE Vault WITH crossed <- clashed

ASSUME TextsAndKeys == Status!TextAssumption /\ Vault!VaultAssumption

statusVars == <<status, row, spotify, flows, pass, leaving, rowIds, edits, errors, adrift>>
vaultVars == <<salt, items, rosters, idb, tab, made, ids, clashed>>

AccountInit == Init /\ Status!Init /\ Vault!Init /\ turn \in {"admin", "status", "vault"}

AdminTurn == turn = "admin"
AdminOnly == UNCHANGED <<turn, statusVars, vaultVars>>
StatusTurn == turn = "status"
StatusOnly == UNCHANGED <<turn, vars, vaultVars>>
VaultTurn == turn = "vault"
VaultOnly == UNCHANGED <<turn, vars, statusVars>>

AccountNext ==
  \/ AdminTurn /\ Boot /\ AdminOnly
  \/ \E s \in Slot :
       \/ AdminTurn /\ Request(s) /\ AdminOnly
       \/ AdminTurn /\ RequestOnFallback(s) /\ AdminOnly
       \/ AdminTurn /\ SignIn(s) /\ AdminOnly
       \/ AdminTurn /\ Look(s) /\ AdminOnly
       \/ AdminTurn /\ Check(s) /\ AdminOnly
       \/ AdminTurn /\ Count(s) /\ AdminOnly
       \/ AdminTurn /\ Write(s) /\ AdminOnly
       \/ AdminTurn /\ Log(s) /\ AdminOnly
       \/ AdminTurn /\ CallFails(s) /\ AdminOnly
  \/ \E u \in Listener :
       \/ StatusTurn /\ Status!SignState(u) /\ StatusOnly
       \/ StatusTurn /\ Status!StateExpires(u) /\ StatusOnly
       \/ StatusTurn /\ Status!Callback(u) /\ StatusOnly
       \/ StatusTurn /\ Status!EditStatus(u) /\ StatusOnly
       \/ StatusTurn /\ Status!Disconnect(u) /\ StatusOnly
       \/ StatusTurn /\ Status!DeleteRow(u) /\ StatusOnly
       \/ StatusTurn /\ Status!Compare(u) /\ StatusOnly
       \/ StatusTurn /\ Status!ClearStatus(u) /\ StatusOnly
       \/ StatusTurn /\ Status!ClearStatusWrites(u) /\ StatusOnly
  \/ \E p \in Pass :
       \/ StatusTurn /\ Status!PollOnce(p) /\ StatusOnly
       \/ StatusTurn /\ Status!Refresh(p) /\ StatusOnly
       \/ StatusTurn /\ Status!StoreTokens(p) /\ StatusOnly
       \/ StatusTurn /\ Status!Ask(p) /\ StatusOnly
       \/ StatusTurn /\ Status!ReadStatus(p) /\ StatusOnly
       \/ StatusTurn /\ Status!WriteStatus(p) /\ StatusOnly
       \/ StatusTurn /\ Status!Mark(p) /\ StatusOnly
       \/ StatusTurn /\ Status!SyncFails(p) /\ StatusOnly
  \/ VaultTurn /\ Vault!Link /\ VaultOnly
  \/ VaultTurn /\ Vault!Remove /\ VaultOnly
  \/ VaultTurn /\ Vault!LeaveChat /\ VaultOnly
  \/ \E t \in Tab :
       \/ VaultTurn /\ Vault!Reload(t) /\ VaultOnly
       \/ VaultTurn /\ Vault!ResolveSaveMode(t) /\ VaultOnly
       \/ VaultTurn /\ Vault!LockVault(t) /\ VaultOnly
       \/ VaultTurn /\ Vault!UnlockVault(t) /\ VaultOnly
       \/ VaultTurn /\ Vault!ReadSalt(t) /\ VaultOnly
       \/ VaultTurn /\ Vault!WriteSalt(t) /\ VaultOnly
       \/ VaultTurn /\ Vault!GetKey(t) /\ VaultOnly
       \/ VaultTurn /\ Vault!PutKey(t) /\ VaultOnly
       \/ VaultTurn /\ Vault!Save(t) /\ VaultOnly
       \/ VaultTurn /\ Vault!Post(t) /\ VaultOnly
       \/ VaultTurn /\ Vault!OpenItem(t) /\ VaultOnly

AccountSpec == AccountInit /\ [][AccountNext]_<<turn, vars, statusVars, vaultVars>>

\* "Drop the tokens" (integrations.ts:79): NowPlaying has the statement.
OldTokensStayDropped == Status!OldTokensStayDropped

\* The text the integration has stored is the one its status has: NowPlaying has the statement and its exceptions.
OwnStatusIsKnown == Status!OwnStatusIsKnown

\* "Drop the tokens and clear any status this integration set" (integrations.ts:79): NowPlaying has the statement.
DisconnectClears == [][Status!DisconnectLeavesNoStatus]_statusVars

\* What is saved can be opened again: Vault has the statement and its exceptions.
SavedItemsOpen == Vault!SavedItemsOpen
====
