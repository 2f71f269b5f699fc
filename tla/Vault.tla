-------------------------------- MODULE Vault --------------------------------
(***************************************************************************)
(* The vault of one user: saved conversations the server has as            *)
(* ciphertexts only (apps/api/src/modules/vault.ts), the public salt it    *)
(* keeps for the passphrase (modules/account.ts), and the browsers that    *)
(* seal and open them with a device key of their own or with a key derived *)
(* from passphrase and salt (apps/web/src/lib/vaultCrypto.ts, vault.ts and *)
(* the components SaveToVault, VaultView and VaultPassphraseCard).         *)
(*                                                                         *)
(* Each tab has its own memory; the tabs of a browser share its IndexedDB. *)
(* A tab runs from one answer of the server or the key store to the next   *)
(* in one step, and does one thing at a time (its buttons are disabled     *)
(* meanwhile).  Keys and salts are numbers, drawn from `made'; a           *)
(* passphrase key is <<passphrase, salt>>.                                 *)
(*                                                                         *)
(* MaxItems bounds the items, MaxMade the keys and salts generated.        *)
(***************************************************************************)
EXTENDS FiniteSets, Naturals

CONSTANTS Tab, BrowserOf, Passphrase, Chat, None, MaxItems, MaxMade

\* Keys and salts are numbers; an empty slot is not.
VaultAssumption == None \notin Nat

VARIABLES
  salt,      \* user.vault_salt
  items,     \* vault_conversations: [id, mode, key, link], `from' the browser it was made in
  rosters,   \* the chats the user is a member of
  idb,       \* the device key each browser has stored
  tab,       \* [at, cached, passKey, mode, locked, ...]
  made, ids,
  crossed    \* history: two first keys of a browser, or two first salts, have been made together

vaultVars == <<salt, items, rosters, idb, tab, made, ids, crossed>>

Browsers == {BrowserOf[t] : t \in Tab}
Fresh == [at |-> "idle", cached |-> None, passKey |-> None, mode |-> "device", locked |-> FALSE, saves |-> FALSE, arg |-> None]

Init ==
  /\ salt = None /\ items = {} /\ rosters = Chat
  /\ idb = [b \in Browsers |-> None] /\ tab = [t \in Tab |-> Fresh]
  /\ made = 0 /\ ids = 0 /\ crossed = FALSE

Set(t, r) == tab' = [tab EXCEPT ![t] = r]
Server == <<salt, items, rosters, ids>>

-----------------------------------------------------------------------------
(* The tab *)

Reload(t) ==
  /\ tab[t] # Fresh /\ Set(t, Fresh)
  /\ UNCHANGED <<Server, idb, made, crossed>>

\* resolveSaveMode, when SaveToVault appears: the mode stays what it was then.
ResolveSaveMode(t) ==
  /\ tab[t].at = "idle"
  /\ Set(t, [tab[t] EXCEPT !.mode = IF salt = None THEN "device" ELSE "passphrase",
                           !.locked = salt # None /\ tab[t].passKey = None])
  /\ UNCHANGED <<Server, idb, made, crossed>>

LockVault(t) ==
  /\ tab[t].at = "idle" /\ tab[t].passKey # None
  /\ Set(t, [tab[t] EXCEPT !.passKey = None])
  /\ UNCHANGED <<Server, idb, made, crossed>>

\* unlockVault: any passphrase is accepted, the first one and a wrong one alike.
UnlockVault(t) ==
  /\ tab[t].at = "idle" /\ tab[t].passKey = None
  /\ \E w \in Passphrase : Set(t, [tab[t] EXCEPT !.at = "salt", !.arg = w])
  /\ UNCHANGED <<Server, idb, made, crossed>>

DeriveKey(t, s) == [tab[t] EXCEPT !.at = "idle", !.passKey = <<tab[t].arg, s>>, !.arg = None]

\* POST /vault-salt: a salt is made when there is none, and written after another await.
ReadSalt(t) ==
  /\ tab[t].at = "salt"
  /\ IF salt = None
     THEN /\ made < MaxMade /\ Set(t, [tab[t] EXCEPT !.at = "new-salt"])
          /\ crossed' = (crossed \/ \E u \in Tab \ {t} : tab[u].at = "new-salt")
     ELSE Set(t, DeriveKey(t, salt)) /\ UNCHANGED crossed
  /\ UNCHANGED <<Server, idb, made>>

WriteSalt(t) ==
  /\ tab[t].at = "new-salt" /\ made < MaxMade
  /\ made' = made + 1 /\ salt' = made'
  /\ Set(t, DeriveKey(t, made'))
  /\ UNCHANGED <<items, rosters, ids, idb, crossed>>

-----------------------------------------------------------------------------
(* The device key *)

\* The key is at hand: post what it seals, or show what it opens.
WithKey(t, key, saves) == [tab[t] EXCEPT !.at = IF saves THEN "post" ELSE "idle", !.saves = FALSE, !.cached = key,
                                         !.arg = IF saves THEN key ELSE None]

\* Mutant: the key store is not asked.
GetKeyNever(t) ==
  /\ tab[t].at = "key" /\ Set(t, [tab[t] EXCEPT !.at = "new-key"])
  /\ UNCHANGED <<Server, idb, made, crossed>>

GetKey(t) ==
  LET b == BrowserOf[t]
  IN /\ tab[t].at = "key"
     /\ IF idb[b] # None
        THEN Set(t, WithKey(t, idb[b], tab[t].saves)) /\ UNCHANGED crossed
        ELSE /\ Set(t, [tab[t] EXCEPT !.at = "new-key"])
             /\ crossed' = (crossed \/ \E u \in Tab \ {t} : BrowserOf[u] = b /\ tab[u].at = "new-key")
     /\ UNCHANGED <<Server, idb, made>>

PutKey(t) ==
  /\ tab[t].at = "new-key" /\ made < MaxMade
  /\ made' = made + 1
  /\ idb' = [idb EXCEPT ![BrowserOf[t]] = made']
  /\ Set(t, WithKey(t, made', tab[t].saves))
  /\ UNCHANGED <<Server, crossed>>

\* deviceKey, to save or to open an item: from memory, else from the key store.
DeviceKey(t, saves) ==
  IF tab[t].cached # None THEN WithKey(t, tab[t].cached, saves) ELSE [tab[t] EXCEPT !.at = "key", !.saves = saves]

-----------------------------------------------------------------------------
(* Saved conversations *)

\* vaultEncrypt; in passphrase mode the vault must be unlocked.
Save(t) ==
  /\ tab[t].at = "idle" /\ ~tab[t].locked /\ ids < MaxItems
  /\ tab[t].mode = "passphrase" => tab[t].passKey # None
  /\ Set(t, IF tab[t].mode = "device" THEN DeviceKey(t, TRUE)
            ELSE [tab[t] EXCEPT !.at = "post", !.arg = tab[t].passKey])
  /\ UNCHANGED <<Server, idb, made, crossed>>

\* POST /: the server stores what it gets.
Post(t) ==
  /\ tab[t].at = "post" /\ ids < MaxItems
  /\ ids' = ids + 1
  /\ items' = items \cup {[id |-> ids', mode |-> tab[t].mode, key |-> tab[t].arg, link |-> None, from |-> BrowserOf[t]]}
  /\ Set(t, [tab[t] EXCEPT !.at = "idle", !.arg = None])
  /\ UNCHANGED <<salt, rosters, idb, made, crossed>>

\* VaultView: opening a device item makes a device key where there is none; what it shows, whether the key fits or
\* not, and opening a passphrase item change nothing.
OpenItem(t) ==
  /\ tab[t].at = "idle" /\ tab[t].cached = None
  /\ \E i \in items : i.mode = "device"
  /\ Set(t, DeviceKey(t, FALSE))
  /\ UNCHANGED <<Server, idb, made, crossed>>

\* A link asks for membership, when it is made.
Link ==
  /\ \E i \in items, c \in rosters \cup {None} : items' = (items \ {i}) \cup {[i EXCEPT !.link = c]}
  /\ UNCHANGED <<salt, rosters, ids, idb, tab, made, crossed>>

Remove ==
  /\ \E i \in items : items' = items \ {i}
  /\ UNCHANGED <<salt, rosters, ids, idb, tab, made, crossed>>

LeaveChat ==
  /\ \E c \in rosters : rosters' = rosters \ {c}
  /\ UNCHANGED <<salt, items, ids, idb, tab, made, crossed>>

Next ==
  \/ Link \/ Remove \/ LeaveChat
  \/ \E t \in Tab :
       \/ Reload(t) \/ ResolveSaveMode(t) \/ LockVault(t) \/ UnlockVault(t) \/ ReadSalt(t) \/ WriteSalt(t)
       \/ GetKey(t) \/ PutKey(t) \/ Save(t) \/ Post(t) \/ OpenItem(t)

Spec == Init /\ [][Next]_vaultVars

-----------------------------------------------------------------------------
(* Properties *)

\* "Decrypts only on the device that saved it" (vaultCrypto.ts:4), and there it does; "works across all your
\* devices" (vaultCrypto.ts:7): the key of every device item is the one its browser has stored, and the key of
\* every passphrase item the one that any device derives from that passphrase, unless two tabs of a browser have
\* made its first key together, or two devices the first salt.
SavedItemsOpen ==
  crossed \/ \A i \in items : IF i.mode = "device" THEN i.key = idb[i.from] ELSE i.key[2] = salt
=============================================================================
