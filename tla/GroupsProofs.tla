---------------------------- MODULE GroupsProofs ----------------------------
(***************************************************************************)
(* Proofs about Groups for any finite set of guests, any number of key     *)
(* packages, epochs, messages and faults: a Welcome and a key package are  *)
(* never a dead end, the tree's members are on the roster, and a device's  *)
(* ratchet does not go back.                                               *)
(*                                                                         *)
(* The three hang together.  That the ratchet goes forward needs one leaf  *)
(* per guest in every tree, which needs that nobody is added who is in the *)
(* tree already, which is that the tree's members are on the roster.       *)
(*                                                                         *)
(* And proofs about DirectMessages for any number of conversations, key    *)
(* packages and faults: the two hold one group unless both started one     *)
(* unawares, and two verified numbers are of one group.                    *)
(***************************************************************************)
EXTENDS MCGroups, Integers, FiniteSetTheorems, SequenceTheorems, TLAPS

Leaf == User \X Nat
Slot == Leaf \cup {Blank}
RatchetTree == Seq(Slot)
Message == [kind : {"commit", "app"}, epoch : Nat, from : User]
State == [since : Nat, epoch : Nat, leaf : Slot]
Device == [at : {"closed", "welcomes", "list", "history", "open"}, up : BOOLEAN, made : Nat,
           bundles : SUBSET Leaf, state : State, read : SUBSET Nat, cursor : Nat, todo : Seq(Nat), live : SUBSET Nat]
Operation == [at : {"idle", "create", "claim", "add", "welcome", "send", "tell", "removed"},
              who : User, rest : Seq(Guest), leaf : Slot]

TypeOK ==
  /\ roster \subseteq User
  /\ pool \in [Guest -> SUBSET Nat]
  /\ welcomes \subseteq [to : Guest, leaf : Leaf, epoch : Nat]
  /\ log \in Seq(Message) /\ wire \subseteq Message
  /\ epochs \in Seq(RatchetTree)
  /\ op \in Operation
  /\ dev \in [Guest -> Device]
  /\ unrevoked \subseteq Guest

\* The key packages that the device of u has made.
Made(u, d) == {u} \X (1 .. d.made)

\* A package in the pool has its private half on the device.
PoolOpens(u, d) ==
  /\ d.bundles \subseteq Made(u, d)
  /\ \A k \in pool[u] : k \in 1 .. d.made /\ <<u, k>> \in d.bundles

\* A Welcome that a bundle opens takes the device forward; one that none opens has been used.
WelcomesOpen(u, d) ==
  \A w \in welcomes : w.to = u =>
    /\ w.leaf \in Made(u, d) /\ w.leaf[2] \notin pool[u]
    /\ IF w.leaf \in d.bundles THEN w.epoch >= d.state.since /\ (u \in unrevoked \/ w.epoch > d.state.epoch)
                               ELSE d.state.since >= w.epoch

\* The device is in an epoch whose tree has its leaf, which is of a package it has used up.
StateInTree(u, d) ==
  d.state # NoState =>
    /\ d.state.epoch \in DOMAIN epochs /\ d.state.since <= d.state.epoch
    /\ d.state.leaf \in Range(epochs[d.state.epoch])
    /\ d.state.leaf \in Made(u, d) \ d.bundles

\* The package that the owner has claimed opens no other Welcome and will not be claimed again.
ClaimOpens(u, d) ==
  op.at \in {"add", "welcome"} /\ op.who = u =>
    /\ op.leaf \in d.bundles /\ op.leaf[2] \notin pool[u]
    /\ \A w \in welcomes : w.leaf # op.leaf

\* What the device is to read is in the log.
ToRead(d) == Range(d.todo) \cup d.live \subseteq DOMAIN log

DeviceOK(u, d) ==
  d \in Device /\ PoolOpens(u, d) /\ WelcomesOpen(u, d) /\ StateInTree(u, d) /\ ClaimOpens(u, d) /\ ToRead(d)

Devices == \A u \in Guest : DeviceOK(u, dev[u])

\* A Welcome and a commit are of an epoch that there is.
Relayed ==
  /\ \A w \in welcomes : w.epoch \in DOMAIN epochs /\ w.leaf \in Range(epochs[w.epoch])
  /\ \A m \in wire \cup Range(log) : m.kind = "commit" => m.epoch + 1 \in DOMAIN epochs

\* No tree has two leaves of a guest, unless the guest has left, or a removal failed, and was added
\* again.
OneLeaf ==
  \A u \in Guest \ unrevoked, e \in DOMAIN epochs : \A i, j \in LeavesOf(epochs[e], u) : i = j

\* A guest who may be added: on the roster, with no leaf.
MayJoin(u) == u \in roster \cup unrevoked /\ (epochs # << >> /\ u \notin unrevoked => LeavesOf(Tree, u) = {})

Operating ==
  /\ roster = {} \/ Owner \in roster
  /\ roster = {} => epochs = << >> /\ op = Idle
  /\ op.at = "create" => epochs = << >>
  /\ op.at \notin {"idle", "create"} => op.who \in Guest /\ (op.at = "removed" \/ epochs # << >>)
  /\ op.at \in {"claim", "add"} => MayJoin(op.who)
  /\ op.at \in {"add", "welcome"} => op.leaf \in {op.who} \X Nat
  /\ op.at = "welcome" => op.leaf \in Range(Tree)
  /\ op.at \in {"tell", "removed"} => op.who \in unrevoked \/ epochs = << >> \/ LeavesOf(Tree, op.who) = {}
  /\ \A i \in DOMAIN op.rest : op.rest[i] # op.who /\ MayJoin(op.rest[i])
  /\ \A i, j \in DOMAIN op.rest : op.rest[i] = op.rest[j] => i = j

IInv == TypeOK /\ Devices /\ Relayed /\ OneLeaf /\ Operating /\ ReadersAreOnRoster

-----------------------------------------------------------------------------
(* Numbers *)

\* Induction over the natural numbers, by counting: were m missing, n |-> n + 1 would map the
\* members of S below m one to one into fewer.
LEMMA Induction ==
  ASSUME NEW S \in SUBSET Nat, 0 \in S, \A n \in S : n + 1 \in S
  PROVE  S = Nat
<1>. SUFFICES ASSUME NEW m \in Nat, m \notin S PROVE FALSE
  OBVIOUS
<1>. DEFINE T == S \cap (0 .. m)
            f == [n \in T |-> n + 1]
<1>1. IsFiniteSet(T)
  <2>1. IsFiniteSet(0 .. m)
    BY FS_Interval
  <2>. QED
    BY <2>1, FS_Subset
<1>2. 0 \in T
  OBVIOUS
<1>3. f \in Injection(T, T \ {0})
  <2>1. f \in [T -> T \ {0}]
    OBVIOUS
  <2>. QED
    BY <2>1 DEF Injection, IsInjective
<1>4. IsFiniteSet(T \ {0}) /\ Cardinality(T \ {0}) = Cardinality(T) - 1 /\ Cardinality(T) \in Nat
  BY <1>1, <1>2, FS_RemoveElement, FS_CardinalityType
<1>5. Cardinality(T) <= Cardinality(T \ {0})
  BY <1>3, <1>4, FS_Injection
<1>. QED
  BY <1>4, <1>5

LEMMA LeastElement ==
  ASSUME NEW S \in SUBSET Nat, S # {}
  PROVE  \E x \in S : \A y \in S : x <= y
<1>. SUFFICES ASSUME \A x \in S : \E y \in S : ~ (x <= y) PROVE FALSE
  OBVIOUS
<1>. DEFINE L == {n \in Nat : \A y \in S : n <= y}
<1>1. 0 \in L /\ \A n \in L : n + 1 \in L
  OBVIOUS
<1>2. L \in SUBSET Nat
  OBVIOUS
<1>3. L = Nat
  <2>. HIDE DEF L
  <2>. QED
    BY <1>1, <1>2, Induction
<1>4. PICK y \in S : TRUE
  OBVIOUS
<1>5. y + 1 \in L
  BY <1>3
<1>. QED
  BY <1>5

LEMMA MinIs ==
  ASSUME NEW S \in SUBSET Nat, S # {}
  PROVE  Min(S) \in S
  BY LeastElement DEF Min

LEMMA MinOrMaxOfTwo ==
  ASSUME NEW a \in Int, NEW b \in Int
  PROVE  Min({a, b}) \in {a, b} /\ Max({a, b}) \in {a, b}
<1>1. \E x \in {a, b} : \A y \in {a, b} : x <= y
  BY a <= b \/ b <= a
<1>2. \E x \in {a, b} : \A y \in {a, b} : x >= y
  BY a <= b \/ b <= a
<1>. QED
  BY <1>1, <1>2 DEF Min, Max

\* start() makes the next packages of its device, none it has made before.
LEMMA FreshIs ==
  ASSUME NEW u \in Guest, dev[u] \in Device, \A k \in pool[u] : k \in 1 .. dev[u].made
  PROVE  \E need \in Nat : Fresh(u) = dev[u].made + 1 .. dev[u].made + need /\ Cardinality(Fresh(u)) = need
<1>. DEFINE had == dev[u].made
            need == Min({Max({Target - Cardinality(pool[u]), 0}), MaxPackages - had})
<1>1. had \in Nat
  BY DEF Device
<1>2. Cardinality(pool[u]) \in Nat
  <2>1. IsFiniteSet(1 .. had)
    BY <1>1, FS_Interval
  <2>2. IsFiniteSet(pool[u])
    BY <2>1, FS_Subset
  <2>. QED
    BY <2>2, FS_CardinalityType
<1>3. need \in Int
  <2>1. Max({Target - Cardinality(pool[u]), 0}) \in Int
    <3>1. Target - Cardinality(pool[u]) \in Int
      BY <1>2, BoundAssumption
    <3>2. 0 \in Int
      OBVIOUS
    <3>3. Max({Target - Cardinality(pool[u]), 0}) \in {Target - Cardinality(pool[u]), 0}
      BY <3>1, <3>2, MinOrMaxOfTwo, Zenon
    <3>. QED
      BY <3>1, <3>2, <3>3, Zenon
  <2>2. MaxPackages - had \in Int
    BY <1>1, BoundAssumption
  <2>. HIDE DEF had
  <2>. QED
    BY <2>1, <2>2, MinOrMaxOfTwo
<1>4. Fresh(u) = had + 1 .. had + need
  BY DEF Fresh
<1>. HIDE DEF had, need
<1>5. Cardinality(Fresh(u)) = IF need < 0 THEN 0 ELSE need
  <2>1. had + 1 \in Int /\ had + need \in Int
    BY <1>1, <1>3
  <2>2. Cardinality(had + 1 .. had + need) =
          IF had + 1 > had + need THEN 0 ELSE (had + need) - (had + 1) + 1
    BY <2>1, FS_Interval
  <2>. QED
    BY <1>1, <1>3, <1>4, <2>2
<1>6. CASE need < 0
  <2>1. Fresh(u) = had + 1 .. had + 0
    BY <1>1, <1>3, <1>4, <1>6
  <2>. QED
    BY <1>5, <1>6, <2>1 DEF had
<1>7. CASE ~ need < 0
  BY <1>3, <1>4, <1>5, <1>7 DEF had
<1>. QED
  BY <1>6, <1>7

-----------------------------------------------------------------------------
(* Ratchet trees *)

LEMMA LeafIsNotBlank ==
  ASSUME NEW leaf \in Leaf
  PROVE  leaf # Blank
<1>1. DOMAIN leaf = 1 .. 2
  BY DEF Leaf
<1>2. 1 \in DOMAIN leaf
  BY <1>1
<1>3. DOMAIN Blank = {}
  BY DEF Blank
<1>. QED
  BY <1>2, <1>3

\* A new leaf is the only change to the tree.
LEMMA AddLeafIs ==
  ASSUME NEW t \in RatchetTree, NEW leaf \in Leaf
  PROVE  /\ AddLeaf(t, leaf) \in RatchetTree
         /\ leaf \in Range(AddLeaf(t, leaf))
         /\ \A u : u # leaf[1] => LeavesOf(AddLeaf(t, leaf), u) = LeavesOf(t, u)
         /\ LeavesOf(t, leaf[1]) = {} =>
              \A i, j \in LeavesOf(AddLeaf(t, leaf), leaf[1]) : i = j
<1>. DEFINE s == AddLeaf(t, leaf)
            blanks == {i \in DOMAIN t : t[i] = Blank}
<1>1. leaf # Blank /\ leaf \in Slot /\ t \in Seq(Slot)
  BY LeafIsNotBlank DEF Slot, RatchetTree
<1>2. /\ s \in Seq(Slot)
      /\ \E p \in DOMAIN s : /\ DOMAIN s = DOMAIN t \cup {p} /\ s[p] = leaf
                             /\ \A i \in DOMAIN t \ {p} : s[i] = t[i]
                             /\ p \in DOMAIN t => t[p] = Blank
  <2>1. CASE blanks = {}
    <3>1. s = Append(t, leaf)
      BY <2>1 DEF AddLeaf
    <3>2. Append(t, leaf) \in Seq(Slot) /\ DOMAIN Append(t, leaf) = 1 .. Len(t) + 1
          /\ \A i \in 1 .. Len(t) : Append(t, leaf)[i] = t[i]
          /\ Append(t, leaf)[Len(t) + 1] = leaf /\ DOMAIN t = 1 .. Len(t) /\ Len(t) \in Nat
      BY <1>1
    <3>. QED
      BY <3>1, <3>2
  <2>2. CASE blanks # {}
    <3>1. Min(blanks) \in blanks
      <4>1. blanks \in SUBSET Nat
        BY <1>1
      <4>. QED
        BY <2>2, <4>1, MinIs
    <3>2. s = [t EXCEPT ![Min(blanks)] = leaf]
      BY <2>2 DEF AddLeaf
    <3>3. Min(blanks) \in DOMAIN t /\ t[Min(blanks)] = Blank
      BY <3>1
    <3>. HIDE DEF s, blanks
    <3>4. s \in Seq(Slot) /\ DOMAIN s = DOMAIN t /\ s[Min(blanks)] = leaf
          /\ \A i \in DOMAIN t \ {Min(blanks)} : s[i] = t[i]
      BY <1>1, <3>2, <3>3
    <3>. QED
      BY <3>3, <3>4
  <2>. QED
    BY <2>1, <2>2
<1>3. PICK p \in DOMAIN s : /\ DOMAIN s = DOMAIN t \cup {p} /\ s[p] = leaf
                            /\ \A i \in DOMAIN t \ {p} : s[i] = t[i]
                            /\ p \in DOMAIN t => t[p] = Blank
  BY <1>2
<1>. HIDE DEF s
<1>4. leaf \in Range(s)
  BY <1>3 DEF Range
<1>5. \A u : u # leaf[1] => LeavesOf(s, u) = LeavesOf(t, u)
  BY <1>3 DEF LeavesOf
<1>6. ASSUME LeavesOf(t, leaf[1]) = {}, NEW i \in LeavesOf(s, leaf[1])
      PROVE  i = p
  BY <1>3, <1>6 DEF LeavesOf
<1>. QED
  BY <1>2, <1>4, <1>5, <1>6 DEF s, RatchetTree

LEMMA RemoveLeafIs ==
  ASSUME NEW t \in RatchetTree, NEW u, LeavesOf(t, u) # {}
  PROVE  /\ RemoveLeaf(t, u) \in RatchetTree
         /\ \A v : LeavesOf(RemoveLeaf(t, u), v) \subseteq LeavesOf(t, v)
         /\ (\A i, j \in LeavesOf(t, u) : i = j) => LeavesOf(RemoveLeaf(t, u), u) = {}
<1>. DEFINE s == RemoveLeaf(t, u)
<1>1. t \in Seq(Slot) /\ Blank \in Slot
  BY DEF RatchetTree, Slot
<1>2. PICK i \in LeavesOf(t, u) : s = [t EXCEPT ![i] = Blank]
  <2>1. LeavesOf(t, u) \in SUBSET Nat
    BY <1>1 DEF LeavesOf
  <2>. QED
    BY <2>1, MinIs DEF RemoveLeaf
<1>3. s \in Seq(Slot) /\ DOMAIN s = DOMAIN t /\ s[i] = Blank /\ \A j \in DOMAIN t \ {i} : s[j] = t[j]
  BY <1>1, <1>2 DEF LeavesOf
<1>. HIDE DEF s
<1>4. \A v : LeavesOf(s, v) \subseteq LeavesOf(t, v) \ {i}
  BY <1>3 DEF LeavesOf
<1>. QED
  BY <1>3, <1>4 DEF s, RatchetTree

-----------------------------------------------------------------------------
(* A device joins and decrypts *)

\* Two devices that differ in nothing but where the client is.
SameKeys(d, e) == e.made = d.made /\ e.bundles = d.bundles /\ e.state = d.state

LEMMA SameKeysOK ==
  ASSUME NEW u \in Guest, NEW d, NEW e, DeviceOK(u, d), SameKeys(d, e), e \in Device, ToRead(e)
  PROVE  DeviceOK(u, e) /\ Forward(u, d, e)
  BY DEF DeviceOK, SameKeys, PoolOpens, WelcomesOpen, StateInTree, ClaimOpens, Forward, Made, Device, State

\* The epochs bound the Welcomes, so there is a latest one.
LEMMA LatestWelcome ==
  ASSUME TypeOK, Relayed, NEW O \in SUBSET welcomes, O # {}
  PROVE  \E w \in O : \A v \in O : v.epoch <= w.epoch
<1>. DEFINE ages == {Len(epochs) - w.epoch : w \in O}
<1>1. Len(epochs) \in Nat /\ \A w \in O : w.epoch \in 1 .. Len(epochs)
  BY DEF TypeOK, Relayed
<1>2. ages \in SUBSET Nat /\ ages # {}
  BY <1>1
<1>3. PICK x \in ages : \A y \in ages : x <= y
  <2>. HIDE DEF ages
  <2>. QED
    BY <1>2, LeastElement
<1>4. PICK w \in O : x = Len(epochs) - w.epoch
  BY <1>3
<1>5. ASSUME NEW v \in O PROVE v.epoch <= w.epoch
  <2>1. x <= Len(epochs) - v.epoch
    BY <1>3
  <2>2. v.epoch \in Int /\ w.epoch \in Int /\ Len(epochs) \in Int
    BY <1>1, <1>4
  <2>. HIDE DEF ages
  <2>3. Len(epochs) - w.epoch <= Len(epochs) - v.epoch
    BY <1>4, <2>1, Zenon
  <2>. QED
    BY <2>2, <2>3
<1>. QED
  BY <1>4, <1>5, Zenon

LEMMA JoinedIs ==
  ASSUME TypeOK, Relayed, NEW u \in Guest, NEW d \in Device, Openable(d, u) # {}
  PROVE  \E w \in Openable(d, u) :
           /\ \A v \in Openable(d, u) : v.epoch <= w.epoch
           /\ Joined(d, u).state = [since |-> w.epoch, epoch |-> w.epoch, leaf |-> w.leaf]
           /\ Joined(d, u).bundles = d.bundles \ {v.leaf : v \in Openable(d, u)}
           /\ Joined(d, u) \in Device
<1>. DEFINE w == CHOOSE w \in Openable(d, u) : \A v \in Openable(d, u) : v.epoch <= w.epoch
            state == [since |-> w.epoch, epoch |-> w.epoch, leaf |-> w.leaf]
            kept == d.bundles \ {v.leaf : v \in Openable(d, u)}
<1>1. w \in Openable(d, u) /\ \A v \in Openable(d, u) : v.epoch <= w.epoch
  <2>1. Openable(d, u) \in SUBSET welcomes
    BY DEF Openable
  <2>. QED
    BY <2>1, LatestWelcome
<1>2. Joined(d, u) = [d EXCEPT !.state = state, !.bundles = kept]
  BY DEF Joined
<1>3. state \in State
  BY <1>1 DEF TypeOK, Openable, State, Slot
<1>4. kept \in SUBSET Leaf
  BY DEF Device
<1>. HIDE DEF state, kept, w
<1>5. Joined(d, u).state = state /\ Joined(d, u).bundles = kept /\ Joined(d, u) \in Device
  BY <1>2, <1>3, <1>4 DEF Device
<1>. QED
  BY <1>1, <1>5 DEF state, kept

\* What joining leaves alone.
LEMMA JoinedElse ==
  ASSUME NEW u \in Guest, NEW d \in Device
  PROVE  LET e == Joined(d, u)
         IN  /\ e.made = d.made /\ e.todo = d.todo /\ e.live = d.live /\ e.read = d.read
             /\ e.at = d.at /\ e.up = d.up /\ e.cursor = d.cursor
  BY DEF Joined, Device

\* processWelcomes: the latest Welcome is of a later epoch than the device's state, and every
\* Welcome that was opened is of an epoch the device has.
LEMMA JoinedOK ==
  ASSUME TypeOK, Relayed, NEW u \in Guest, NEW d, DeviceOK(u, d)
  PROVE  DeviceOK(u, Joined(d, u)) /\ Forward(u, d, Joined(d, u))
<1>0. d \in Device
  BY DEF DeviceOK
<1>1. CASE Openable(d, u) = {}
  BY <1>0, <1>1, SameKeysOK DEF Joined, DeviceOK, SameKeys
<1>2. CASE Openable(d, u) # {}
  <2>. DEFINE e == Joined(d, u)
  <2>1. PICK w \in Openable(d, u) :
           /\ \A v \in Openable(d, u) : v.epoch <= w.epoch
           /\ e.state = [since |-> w.epoch, epoch |-> w.epoch, leaf |-> w.leaf]
           /\ e.bundles = d.bundles \ {v.leaf : v \in Openable(d, u)}
           /\ e \in Device
    BY <1>0, <1>2, JoinedIs
  <2>2. e.made = d.made /\ e.todo = d.todo /\ e.live = d.live
    BY <1>0, JoinedElse
  <2>. HIDE DEF e
  <2>3. /\ w \in welcomes /\ w.to = u /\ w.leaf \in d.bundles /\ w.epoch \in Nat
        /\ w.epoch \in DOMAIN epochs /\ w.leaf \in Range(epochs[w.epoch])
        /\ w.leaf \in Made(u, d) /\ w.leaf[2] \notin pool[u]
        /\ w.epoch >= d.state.since /\ (u \in unrevoked \/ w.epoch > d.state.epoch)
    BY DEF Openable, TypeOK, Relayed, DeviceOK, WelcomesOpen
  <2>4. e.state.since = w.epoch /\ e.state.epoch = w.epoch /\ e.state.leaf = w.leaf
    BY <2>1
  <2>5. PoolOpens(u, e)
    <3>1. \A v \in Openable(d, u) : v.leaf = <<u, v.leaf[2]>> /\ v.leaf[2] \notin pool[u]
      BY DEF Openable, DeviceOK, WelcomesOpen, Made
    <3>2. \A k \in pool[u], v \in Openable(d, u) : <<u, k>> # v.leaf
      BY <3>1
    <3>. QED
      BY <2>1, <2>2, <3>2 DEF DeviceOK, PoolOpens, Made
  <2>6. WelcomesOpen(u, e)
    <3>. SUFFICES ASSUME NEW v \in welcomes, v.to = u
                  PROVE  /\ v.leaf \in Made(u, e) /\ v.leaf[2] \notin pool[u]
                         /\ v.leaf \notin e.bundles /\ e.state.since >= v.epoch
      BY DEF WelcomesOpen
    <3>1. v.leaf \in Made(u, e) /\ v.leaf[2] \notin pool[u] /\ v.epoch \in Nat /\ d.state.since \in Nat
      BY <1>0, <2>2 DEF DeviceOK, WelcomesOpen, Made, TypeOK, Device, State
    <3>2. CASE v.leaf \in d.bundles
      BY <2>1, <2>4, <3>1, <3>2 DEF Openable
    <3>3. CASE v.leaf \notin d.bundles
      BY <2>1, <2>3, <2>4, <3>1, <3>3 DEF DeviceOK, WelcomesOpen
    <3>. QED
      BY <3>1, <3>2, <3>3
  <2>7. StateInTree(u, e)
    BY <2>1, <2>2, <2>3, <2>4 DEF StateInTree, Made
  <2>8. ClaimOpens(u, e)
    BY <2>1 DEF DeviceOK, ClaimOpens, Openable
  <2>9. ToRead(e)
    BY <2>2 DEF DeviceOK, ToRead
  <2>10. Forward(u, d, e)
    BY <1>0, <2>3, <2>4 DEF Forward, Device, State
  <2>. QED
    BY <2>1, <2>5, <2>6, <2>7, <2>8, <2>9, <2>10 DEF DeviceOK, e
<1>. QED
  BY <1>1, <1>2

\* A guest with one leaf in a tree has it there and nowhere else.
LEMMA SameLeaf ==
  ASSUME TypeOK, OneLeaf, NEW u \in Guest \ unrevoked, NEW e \in DOMAIN epochs,
         NEW x \in Range(epochs[e]) \cap ({u} \X Nat), NEW y \in Range(epochs[e]) \cap ({u} \X Nat)
  PROVE  x = y
<1>1. PICK i \in DOMAIN epochs[e], j \in DOMAIN epochs[e] : epochs[e][i] = x /\ epochs[e][j] = y
  BY DEF Range
<1>2. x # Blank /\ y # Blank
  BY LeafIsNotBlank DEF Leaf, User
<1>3. i \in LeavesOf(epochs[e], u) /\ j \in LeavesOf(epochs[e], u)
  BY <1>1, <1>2 DEF LeavesOf
<1>. QED
  BY <1>1, <1>3 DEF OneLeaf

\* decrypt: the epoch after a commit, if the device's leaf is in its tree.  A Welcome that is
\* still to be opened is not of that epoch: the leaf is in use, the Welcome's is not.
LEMMA DecryptedOK ==
  ASSUME TypeOK, Relayed, OneLeaf, NEW u \in Guest, NEW d, DeviceOK(u, d), NEW n \in DOMAIN log, CanDecrypt(d, n)
  PROVE  DeviceOK(u, Decrypted(d, n)) /\ Forward(u, d, Decrypted(d, n))
<1>. DEFINE e == Decrypted(d, n)
            next == log[n].epoch + 1
            stays == log[n].kind = "commit" /\ d.state.leaf \in Range(epochs[next])
<1>1. d \in Device /\ d.state \in State /\ d.state # NoState /\ n \in Nat /\ log[n] \in Message
  BY DEF DeviceOK, Device, CanDecrypt, TypeOK
<1>2. /\ e.made = d.made /\ e.bundles = d.bundles /\ e.todo = d.todo /\ e.live = d.live /\ e.at = d.at /\ e.up = d.up
      /\ e.state = IF stays THEN [d.state EXCEPT !.epoch = next] ELSE [d.state EXCEPT !.epoch = d.state.epoch]
      /\ e.read = d.read \cup {n} /\ e.cursor = n
      /\ e = [d EXCEPT !.state = e.state, !.read = e.read, !.cursor = n]
  BY <1>1 DEF Decrypted, Device
<1>3. next \in Nat
  BY <1>1 DEF Message
<1>4. e.state \in State /\ e.state.since = d.state.since /\ e.state.leaf = d.state.leaf
      /\ e.state.epoch = (IF stays THEN next ELSE d.state.epoch)
  BY <1>1, <1>2, <1>3 DEF State
<1>5. stays => d.state.epoch + 1 = next /\ next \in DOMAIN epochs
  BY <1>1 DEF CanDecrypt, Relayed, Range, TypeOK, Message
<1>. HIDE DEF e, next, stays
<1>6. e \in Device
  BY <1>1, <1>2, <1>4 DEF Device
<1>7. Forward(u, d, e)
  BY <1>1, <1>4, <1>5 DEF Forward, State
<1>8. ASSUME stays, NEW w \in welcomes, w.to = u, w.leaf \in d.bundles, u \notin unrevoked
      PROVE  w.epoch > next
  <2>1. w.epoch > d.state.epoch /\ w.epoch \in Nat /\ d.state.epoch \in Nat
    BY <1>1, <1>8 DEF DeviceOK, WelcomesOpen, TypeOK, State
  <2>2. w.epoch # next
    <3>. SUFFICES ASSUME w.epoch = next PROVE FALSE
      OBVIOUS
    <3>1. w.leaf \in Range(epochs[next]) \cap ({u} \X Nat)
      BY <1>8 DEF Relayed, DeviceOK, WelcomesOpen, Made
    <3>2. d.state.leaf \in Range(epochs[next]) \cap ({u} \X Nat) /\ d.state.leaf \notin d.bundles
      BY <1>1, <1>8 DEF stays, DeviceOK, StateInTree, Made
    <3>. QED
      BY <1>5, <1>8, <3>1, <3>2, SameLeaf
  <2>. QED
    BY <1>3, <1>5, <1>8, <2>1, <2>2
<1>9. WelcomesOpen(u, e)
  <2>. SUFFICES ASSUME NEW w \in welcomes, w.to = u
                PROVE  /\ w.leaf \in Made(u, e) /\ w.leaf[2] \notin pool[u]
                       /\ IF w.leaf \in e.bundles THEN w.epoch >= e.state.since /\ (u \in unrevoked \/ w.epoch > e.state.epoch)
                                                  ELSE e.state.since >= w.epoch
    BY DEF WelcomesOpen
  <2>. QED
    BY <1>2, <1>4, <1>8 DEF DeviceOK, WelcomesOpen, Made
<1>10. StateInTree(u, e)
  <2>1. d.state.epoch \in DOMAIN epochs /\ d.state.since <= d.state.epoch /\ d.state.leaf \in Made(u, d) \ d.bundles
        /\ d.state.leaf \in Range(epochs[d.state.epoch])
    BY <1>1 DEF DeviceOK, StateInTree
  <2>2. CASE stays
    BY <1>1, <1>2, <1>4, <1>5, <2>1, <2>2 DEF StateInTree, Made, stays, State
  <2>3. CASE ~ stays
    BY <1>2, <1>4, <2>1, <2>3 DEF StateInTree, Made
  <2>. QED
    BY <2>2, <2>3
<1>11. PoolOpens(u, e) /\ ClaimOpens(u, e) /\ ToRead(e)
  BY <1>2 DEF DeviceOK, PoolOpens, Made, ClaimOpens, ToRead
<1>. QED
  BY <1>6, <1>7, <1>9, <1>10, <1>11 DEF DeviceOK, e

\* ingest: what it leaves of the device, whether it ends well or not.
LEMMA IngestedOK ==
  ASSUME TypeOK, Relayed, OneLeaf, NEW u \in Guest, NEW d, DeviceOK(u, d), NEW n \in DOMAIN log
  PROVE  DeviceOK(u, Ingested(d, u, n)) /\ Forward(u, d, Ingested(d, u, n))
<1>. DEFINE r == Ready(d, u, n)
<1>0. d \in Device /\ n \in Nat
  BY DEF DeviceOK, TypeOK
<1>1. DeviceOK(u, r) /\ Forward(u, d, r)
  BY <1>0, JoinedOK DEF Ready, Forward, Device, State
<1>2. CASE log[n].from = u
  <2>. DEFINE e == [d EXCEPT !.cursor = n]
  <2>1. e \in Device /\ SameKeys(d, e) /\ e.todo = d.todo /\ e.live = d.live
    BY <1>0 DEF Device, SameKeys
  <2>2. Ingested(d, u, n) = e
    BY <1>2 DEF Ingested
  <2>. HIDE DEF e
  <2>3. ToRead(e)
    BY <2>1 DEF DeviceOK, ToRead
  <2>. QED
    BY <2>1, <2>2, <2>3, SameKeysOK
<1>3. CASE log[n].from # u /\ IngestOk(d, u, n)
  <2>1. Ingested(d, u, n) = Decrypted(r, n) /\ CanDecrypt(r, n)
    BY <1>3 DEF Ingested, IngestOk
  <2>2. DeviceOK(u, Decrypted(r, n)) /\ Forward(u, r, Decrypted(r, n))
    BY <1>1, <2>1, DecryptedOK
  <2>3. r \in Device /\ Decrypted(r, n) \in Device
    BY <1>1, <2>2 DEF DeviceOK
  <2>4. Forward(u, d, Decrypted(r, n))
    BY <1>0, <1>1, <2>2, <2>3 DEF Forward, Device, State
  <2>. QED
    BY <2>1, <2>2, <2>4
<1>4. CASE log[n].from # u /\ ~ IngestOk(d, u, n)
  BY <1>1, <1>4 DEF Ingested
<1>. QED
  BY <1>2, <1>3, <1>4

\* What an ingest leaves alone.
LEMMA IngestedElse ==
  ASSUME NEW u \in Guest, NEW d \in Device, NEW n
  PROVE  LET e == Ingested(d, u, n)
         IN  e.made = d.made /\ e.todo = d.todo /\ e.live = d.live /\ e.at = d.at /\ e.up = d.up
<1>. DEFINE r == Ready(d, u, n)
<1>1. r.made = d.made /\ r.todo = d.todo /\ r.live = d.live /\ r.at = d.at /\ r.up = d.up /\ DOMAIN r = DOMAIN d
  BY JoinedElse DEF Ready, Joined, Device
<1>. HIDE DEF r
<1>2. LET e == Decrypted(r, n)
      IN  e.made = r.made /\ e.todo = r.todo /\ e.live = r.live /\ e.at = r.at /\ e.up = r.up
  BY <1>1 DEF Decrypted, Device
<1>3. LET e == [d EXCEPT !.cursor = n]
      IN  e.made = d.made /\ e.todo = d.todo /\ e.live = d.live /\ e.at = d.at /\ e.up = d.up
  BY DEF Device
<1>. QED
  BY <1>1, <1>2, <1>3 DEF Ingested, r

-----------------------------------------------------------------------------
(* The guests' steps *)

\* What every step does: the invariant stays, and no device goes back.
NoneGoesBack == \A u \in Guest : Forward(u, dev[u], dev'[u])
Keeps == IInv' /\ NoneGoesBack

\* No epoch is undone, and the owner holds no package that it did not hold before.
EpochsKept == \A e \in DOMAIN epochs : e \in DOMAIN epochs' /\ epochs'[e] = epochs[e]
Claimed == op.at \in {"add", "welcome"}
ClaimKept == Claimed' => Claimed /\ op'.who = op.who /\ op'.leaf = op.leaf

\* A device with the keys of d is as well off when Welcomes are acknowledged, packages are
\* claimed, epochs and the log grow and guests leave.
LEMMA DeviceStays ==
  ASSUME NEW u \in Guest, NEW d, DeviceOK(u, d), SameKeys(d, dev'[u]), dev'[u] \in Device, ToRead(dev[u])',
         \A w \in welcomes' \ welcomes : w.to = u =>
           /\ w.leaf \in d.bundles /\ w.leaf[2] \notin pool[u]
           /\ w.epoch >= d.state.since /\ (u \in unrevoked \/ w.epoch > d.state.epoch),
         pool'[u] \subseteq pool[u], EpochsKept, unrevoked \subseteq unrevoked',
         \/ ClaimKept /\ welcomes' \subseteq welcomes
         \/ ClaimOpens(u, dev[u])'
  PROVE  DeviceOK(u, dev[u])'
<1>1. PoolOpens(u, dev[u])'
  BY DEF DeviceOK, SameKeys, PoolOpens, Made
<1>2. WelcomesOpen(u, dev[u])'
  <2>. SUFFICES ASSUME NEW w \in welcomes', w.to = u
                PROVE  /\ w.leaf \in Made(u, d) /\ w.leaf[2] \notin pool[u]
                       /\ IF w.leaf \in d.bundles THEN w.epoch >= d.state.since /\ (u \in unrevoked \/ w.epoch > d.state.epoch)
                                                 ELSE d.state.since >= w.epoch
    BY DEF SameKeys, WelcomesOpen, Made
  <2>1. CASE w \in welcomes
    BY <2>1 DEF DeviceOK, WelcomesOpen
  <2>2. CASE w \notin welcomes
    BY <2>2 DEF DeviceOK, PoolOpens
  <2>. QED
    BY <2>1, <2>2
<1>3. StateInTree(u, dev[u])'
  BY DEF DeviceOK, SameKeys, StateInTree, Made, NoState, Blank, EpochsKept
<1>4. ClaimOpens(u, dev[u])'
  BY DEF DeviceOK, SameKeys, ClaimOpens, ClaimKept, Claimed
<1>. QED
  BY <1>1, <1>2, <1>3, <1>4 DEF DeviceOK, Device, State, Slot, Leaf, User, Blank

\* The same, for all the devices and a step of somebody else.
LEMMA DevicesStay ==
  ASSUME IInv, UNCHANGED dev, welcomes' \subseteq welcomes, \A u \in Guest : pool'[u] \subseteq pool[u],
         EpochsKept, ClaimKept, unrevoked \subseteq unrevoked', DOMAIN log \subseteq DOMAIN log'
  PROVE  Devices' /\ \A u \in Guest : Forward(u, dev[u], dev'[u])
<1>. SUFFICES ASSUME NEW u \in Guest PROVE DeviceOK(u, dev[u])' /\ Forward(u, dev[u], dev'[u])
  BY DEF Devices
<1>1. DeviceOK(u, dev[u]) /\ dev[u] \in Device /\ ToRead(dev[u])
  BY DEF IInv, Devices, DeviceOK
<1>2. SameKeys(dev[u], dev'[u]) /\ dev'[u] \in Device /\ ToRead(dev[u])'
  BY <1>1 DEF SameKeys, ToRead
<1>3. DeviceOK(u, dev[u])'
  BY <1>1, <1>2, DeviceStays
<1>4. Forward(u, dev[u], dev'[u])
  BY <1>1 DEF Forward, Device, State
<1>. QED
  BY <1>3, <1>4

LEMMA RelayedStays ==
  ASSUME Relayed, EpochsKept, welcomes' \subseteq welcomes,
         \A m \in wire' \cup Range(log)' :
           m \in wire \cup Range(log) \/ (m.kind = "commit" => m.epoch + 1 \in DOMAIN epochs')
  PROVE  Relayed'
  BY DEF Relayed, EpochsKept

\* What is said of the trees and of the operation, when only guests have left.
LEMMA RestStays ==
  ASSUME IInv, UNCHANGED <<epochs, op>>, unrevoked \subseteq unrevoked', roster' \subseteq roster,
         roster \cup unrevoked \subseteq roster' \cup unrevoked', Owner \in roster => Owner \in roster'
  PROVE  OneLeaf' /\ Operating' /\ ReadersAreOnRoster' /\ EpochsKept /\ ClaimKept
<1>1. OneLeaf' /\ ReadersAreOnRoster'
  BY DEF IInv, OneLeaf, LeavesOf, ReadersAreOnRoster, Tree, Blank
<1>2. Operating'
  <2>1. \A u : MayJoin(u) => MayJoin(u)'
    BY DEF MayJoin, LeavesOf, Tree, Blank
  <2>. QED
    BY <2>1 DEF IInv, Operating, LeavesOf, Tree, Idle, Blank
<1>. QED
  BY <1>1, <1>2 DEF EpochsKept, ClaimKept, Claimed

\* A step of one guest's client that makes no key package.
LEMMA GuestStep ==
  ASSUME IInv, NEW u \in Guest, NEW d, DeviceOK(u, d), Forward(u, dev[u], d), Moves(u, d),
         welcomes' \subseteq welcomes, UNCHANGED <<roster, pool, log, wire, epochs, op, unrevoked>>
  PROVE  Keeps
<1>1. \A v \in Guest : dev'[v] = IF v = u THEN d ELSE dev[v]
  BY DEF Moves, IInv, TypeOK
<1>2. TypeOK'
  BY DEF Moves, IInv, TypeOK, DeviceOK
<1>3. OneLeaf' /\ Operating' /\ ReadersAreOnRoster' /\ EpochsKept /\ ClaimKept
  BY RestStays
<1>4. Devices' /\ Relayed'
  <2>1. ASSUME NEW v \in Guest PROVE DeviceOK(v, dev[v])'
    <3>. DEFINE e == IF v = u THEN d ELSE dev[v]
    <3>1. DeviceOK(v, e) /\ dev'[v] = e
      BY <1>1 DEF IInv, Devices
    <3>. HIDE DEF e
    <3>2. SameKeys(e, dev'[v]) /\ dev'[v] \in Device /\ ToRead(dev[v])'
      BY <3>1 DEF DeviceOK, SameKeys, ToRead
    <3>. QED
      BY <1>3, <3>1, <3>2, DeviceStays
  <2>2. Relayed'
    BY <1>3, RelayedStays DEF IInv
  <2>. QED
    BY <2>1, <2>2 DEF Devices
<1>5. \A v \in Guest : Forward(v, dev[v], dev[v])
  BY DEF Forward, IInv, TypeOK, Device, State
<1>. QED
  BY <1>1, <1>2, <1>3, <1>4, <1>5 DEF IInv, Keeps, NoneGoesBack

LEMMA JoinStep ==
  ASSUME IInv, NEW u \in Guest, Join(u)
  PROVE  Keeps
<1>. DEFINE j == Joined(dev[u], u)
            d == [j EXCEPT !.at = "list"]
<1>1. DeviceOK(u, j) /\ Forward(u, dev[u], j)
  BY JoinedOK DEF IInv, Devices
<1>2. d \in Device /\ SameKeys(j, d) /\ d.todo = j.todo /\ d.live = j.live
  BY <1>1 DEF DeviceOK, Device, SameKeys
<1>3. Moves(u, d) /\ welcomes' \subseteq welcomes /\ UNCHANGED <<roster, pool, log, wire, epochs, op, unrevoked>>
  BY DEF Join
<1>. HIDE DEF d, j
<1>4. DeviceOK(u, d)
  BY <1>1, <1>2, SameKeysOK DEF DeviceOK, ToRead
<1>5. Forward(u, dev[u], d)
  BY <1>1, <1>2 DEF Forward, SameKeys
<1>. QED
  BY <1>3, <1>4, <1>5, GuestStep

\* A step that moves the client of u to d and touches no key.
LEMMA ClientStep ==
  ASSUME IInv, NEW u \in Guest, NEW d \in Device, SameKeys(dev[u], d), ToRead(d), Moves(u, d),
         UNCHANGED <<server, wire, epochs, op, unrevoked>>
  PROVE  Keeps
<1>1. DeviceOK(u, d) /\ Forward(u, dev[u], d)
  BY SameKeysOK DEF IInv, Devices
<1>. QED
  BY <1>1, GuestStep DEF server

LEMMA ConnectStep ==
  ASSUME IInv, NEW u \in Guest, Connect(u)
  PROVE  Keeps
<1>. DEFINE d == [dev[u] EXCEPT !.up = TRUE]
<1>1. dev[u] \in Device /\ ToRead(dev[u])
  BY DEF IInv, Devices, DeviceOK
<1>2. d \in Device /\ SameKeys(dev[u], d) /\ d.todo = dev[u].todo /\ d.live = dev[u].live
  BY <1>1 DEF Device, SameKeys
<1>3. Moves(u, d) /\ UNCHANGED <<server, wire, epochs, op, unrevoked>>
  BY DEF Connect
<1>. HIDE DEF d
<1>. QED
  BY <1>1, <1>2, <1>3, ClientStep DEF ToRead

LEMMA ListStep ==
  ASSUME IInv, NEW u \in Guest, List(u)
  PROVE  Keeps
<1>. DEFINE todo == IF u \in roster THEN [i \in 1 .. Len(log) - dev[u].cursor |-> dev[u].cursor + i] ELSE << >>
            d == [dev[u] EXCEPT !.at = "history", !.todo = todo]
<1>1. dev[u] \in Device /\ ToRead(dev[u])
  BY DEF IInv, Devices, DeviceOK
<1>2. dev[u].cursor \in Nat /\ Len(log) \in Nat /\ DOMAIN log = 1 .. Len(log)
  BY <1>1 DEF Device, IInv, TypeOK
<1>3. todo \in Seq(Nat) /\ Range(todo) \subseteq DOMAIN log
  <2>1. CASE u \in roster
    <3>. DEFINE n == Len(log) - dev[u].cursor
    <3>1. \A i \in 1 .. n : dev[u].cursor + i \in DOMAIN log
      BY <1>2
    <3>2. todo = [i \in 1 .. n |-> dev[u].cursor + i]
      BY <2>1
    <3>3. n \in Int /\ \A i \in 1 .. n : dev[u].cursor + i \in Nat
      BY <1>2
    <3>. HIDE DEF n, todo
    <3>4. Range(todo) \subseteq DOMAIN log
      BY <3>1, <3>2 DEF Range
    <3>5. CASE n < 0
      <4>1. todo = [i \in 1 .. 0 |-> dev[u].cursor + i]
        BY <3>2, <3>3, <3>5
      <4>. QED
        BY <3>4, <4>1
    <3>6. CASE ~ n < 0
      BY <3>2, <3>3, <3>4, <3>6
    <3>. QED
      BY <3>5, <3>6
  <2>2. CASE u \notin roster
    BY <2>2 DEF Range
  <2>. QED
    BY <2>1, <2>2
<1>. HIDE DEF todo
<1>4. d \in Device /\ SameKeys(dev[u], d) /\ d.todo = todo /\ d.live = dev[u].live
  BY <1>1, <1>3 DEF Device, SameKeys
<1>5. Moves(u, d) /\ UNCHANGED <<server, wire, epochs, op, unrevoked>>
  BY DEF List, todo
<1>. HIDE DEF d
<1>. QED
  BY <1>1, <1>3, <1>4, <1>5, ClientStep DEF ToRead

\* loadHistory ingests the messages one by one; a message that cannot be ingested ends it.
LEMMA NextInHistoryStep ==
  ASSUME IInv, NEW u \in Guest, NextInHistory(u)
  PROVE  Keeps
<1>1. dev[u] \in Device /\ ToRead(dev[u]) /\ DeviceOK(u, dev[u])
  BY DEF IInv, Devices, DeviceOK
<1>2. CASE dev[u].todo = << >>
  <2>. DEFINE d == [dev[u] EXCEPT !.at = "open"]
  <2>1. d \in Device /\ SameKeys(dev[u], d) /\ d.todo = dev[u].todo /\ d.live = dev[u].live
    BY <1>1 DEF Device, SameKeys
  <2>2. Moves(u, d) /\ UNCHANGED <<server, wire, epochs, op, unrevoked>>
    BY <1>2 DEF NextInHistory, server
  <2>. HIDE DEF d
  <2>. QED
    BY <1>1, <2>1, <2>2, ClientStep DEF ToRead
<1>3. CASE dev[u].todo # << >>
  <2>. DEFINE n == Head(dev[u].todo)
              i == Ingested(dev[u], u, n)
              rest == IF IngestOk(dev[u], u, n) THEN Tail(dev[u].todo) ELSE << >>
              d == [i EXCEPT !.todo = rest]
  <2>1. n \in DOMAIN log /\ rest \in Seq(Nat) /\ Range(rest) \subseteq DOMAIN log
    <3>1. dev[u].todo \in Seq(Nat) /\ Range(dev[u].todo) \subseteq DOMAIN log
      BY <1>1 DEF Device, ToRead
    <3>. QED
      BY <1>3, <3>1 DEF Range
  <2>. HIDE DEF n, rest
  <2>2. DeviceOK(u, i) /\ Forward(u, dev[u], i) /\ i.todo = dev[u].todo /\ i.live = dev[u].live
    BY <1>1, <2>1, IngestedOK, IngestedElse DEF IInv
  <2>3. Moves(u, d) /\ welcomes' \subseteq welcomes /\ UNCHANGED <<roster, pool, log, wire, epochs, op, unrevoked>>
    BY <1>3, <2>2 DEF NextInHistory, n, rest
  <2>. HIDE DEF i
  <2>4. d \in Device /\ SameKeys(i, d) /\ d.todo = rest /\ d.live = dev[u].live
    BY <2>1, <2>2 DEF DeviceOK, Device, SameKeys
  <2>. HIDE DEF d
  <2>5. DeviceOK(u, d)
    BY <1>1, <2>1, <2>2, <2>4, SameKeysOK DEF ToRead
  <2>6. Forward(u, dev[u], d)
    BY <2>2, <2>4 DEF Forward, SameKeys
  <2>. QED
    BY <2>3, <2>5, <2>6, GuestStep
<1>. QED
  BY <1>2, <1>3

\* A message that the device is told of is ingested.
LEMMA LiveStep ==
  ASSUME IInv, NEW u \in Guest, Live(u)
  PROVE  Keeps
<1>1. dev[u] \in Device /\ ToRead(dev[u]) /\ DeviceOK(u, dev[u])
  BY DEF IInv, Devices, DeviceOK
<1>2. PICK n \in dev[u].live :
         /\ Moves(u, [Ingested(dev[u], u, n) EXCEPT !.live = @ \ {n}])
         /\ welcomes' = welcomes \ AckedBy(dev[u], u, n)
         /\ UNCHANGED <<roster, pool, log, wire, epochs, op, ownerUp, unrevoked, faults>>
  BY DEF Live
<1>. DEFINE i == Ingested(dev[u], u, n)
            d == [i EXCEPT !.live = dev[u].live \ {n}]
<1>3. n \in DOMAIN log
  BY <1>1, <1>2 DEF ToRead
<1>4. DeviceOK(u, i) /\ Forward(u, dev[u], i) /\ i.todo = dev[u].todo /\ i.live = dev[u].live
  BY <1>1, <1>3, IngestedOK, IngestedElse DEF IInv
<1>5. Moves(u, d) /\ welcomes' \subseteq welcomes /\ UNCHANGED <<roster, pool, log, wire, epochs, op, unrevoked>>
  BY <1>2, <1>4
<1>. HIDE DEF i
<1>6. d \in Device /\ SameKeys(i, d) /\ d.todo = dev[u].todo /\ d.live = dev[u].live \ {n}
  BY <1>4 DEF DeviceOK, Device, SameKeys
<1>. HIDE DEF d
<1>7. DeviceOK(u, d)
  BY <1>1, <1>4, <1>6, SameKeysOK DEF ToRead
<1>8. Forward(u, dev[u], d)
  BY <1>4, <1>6 DEF Forward, SameKeys
<1>. QED
  BY <1>5, <1>7, <1>8, GuestStep

LEMMA DropStep ==
  ASSUME IInv, NEW u \in Guest, Drop(u)
  PROVE  Keeps
<1>. DEFINE d == [dev[u] EXCEPT !.up = FALSE, !.live = {}]
<1>1. dev[u] \in Device /\ ToRead(dev[u])
  BY DEF IInv, Devices, DeviceOK
<1>2. d \in Device /\ SameKeys(dev[u], d) /\ d.todo = dev[u].todo /\ d.live = {}
  BY <1>1 DEF Device, SameKeys
<1>3. Moves(u, d) /\ UNCHANGED <<server, wire, epochs, op, unrevoked>>
  BY DEF Drop, Offline
<1>. HIDE DEF d
<1>. QED
  BY <1>1, <1>2, <1>3, ClientStep DEF ToRead

\* The tab is closed, after a join that was not acknowledged or without one.
LEMMA CloseTabStep ==
  ASSUME IInv, NEW u \in Guest, CloseTab(u)
  PROVE  Keeps
<1>1. DeviceOK(u, dev[u]) /\ Forward(u, dev[u], dev[u])
  BY DEF IInv, Devices, Forward, DeviceOK, Device, State
<1>2. DeviceOK(u, Joined(dev[u], u)) /\ Forward(u, dev[u], Joined(dev[u], u))
  BY <1>1, JoinedOK DEF IInv
<1>. DEFINE d(j) == [j EXCEPT !.up = FALSE, !.live = {}, !.at = "closed", !.todo = << >>]
<1>3. PICK j \in {dev[u], Joined(dev[u], u)} : Moves(u, [Offline(j) EXCEPT !.at = "closed", !.todo = << >>])
  BY DEF CloseTab
<1>4. DeviceOK(u, j) /\ Forward(u, dev[u], j)
  BY <1>1, <1>2, <1>3
<1>5. Moves(u, d(j)) /\ UNCHANGED <<server, wire, epochs, op, unrevoked>>
  BY <1>3 DEF CloseTab, Offline
<1>6. d(j) \in Device /\ SameKeys(j, d(j)) /\ d(j).todo = << >> /\ d(j).live = {}
  <2>1. j \in Device
    BY <1>4 DEF DeviceOK
  <2>2. << >> \in Seq(Nat) /\ {} \in SUBSET Nat
    OBVIOUS
  <2>. QED
    BY <2>1, <2>2 DEF Device, SameKeys
<1>. HIDE DEF d
<1>7. ToRead(d(j))
  BY <1>6 DEF ToRead, Range
<1>8. DeviceOK(u, d(j))
  BY <1>4, <1>6, <1>7, SameKeysOK
<1>9. Forward(u, dev[u], d(j))
  BY <1>4, <1>6 DEF Forward, SameKeys
<1>. QED
  BY <1>5, <1>8, <1>9, GuestStep DEF server

\* leaveGroup.
LEMMA LeaveStep ==
  ASSUME IInv, NEW u \in Guest, Leave(u)
  PROVE  Keeps
<1>1. /\ roster' = roster \ {u} /\ unrevoked' = unrevoked \cup {u}
      /\ UNCHANGED <<pool, welcomes, log, wire, epochs, op, ownerUp, dev, faults>>
  BY DEF Leave
<1>2. TypeOK'
  BY <1>1 DEF IInv, TypeOK
<1>3. OneLeaf' /\ Operating' /\ ReadersAreOnRoster' /\ EpochsKept /\ ClaimKept
  BY <1>1, OwnerAssumption, RestStays
<1>4. Devices' /\ \A v \in Guest : Forward(v, dev[v], dev'[v])
  BY <1>1, <1>3, DevicesStay
<1>5. Relayed'
  BY <1>1, <1>3, RelayedStays DEF IInv
<1>. QED
  BY <1>2, <1>3, <1>4, <1>5 DEF IInv, Keeps, NoneGoesBack

\* A step that changes no more than the packages, the wire and the connections.
LEMMA SmallStep ==
  ASSUME IInv, UNCHANGED <<roster, welcomes, log, epochs, op, dev, unrevoked>>,
         pool' \in [Guest -> SUBSET Nat], \A u \in Guest : pool'[u] \subseteq pool[u],
         wire' \subseteq Message, \A m \in wire' \ wire : m.kind # "commit"
  PROVE  Keeps
<1>1. TypeOK'
  BY DEF IInv, TypeOK
<1>2. OneLeaf' /\ Operating' /\ ReadersAreOnRoster' /\ EpochsKept /\ ClaimKept
  BY RestStays
<1>3. Devices' /\ \A v \in Guest : Forward(v, dev[v], dev'[v])
  BY <1>2, DevicesStay
<1>4. Relayed'
  BY <1>2, RelayedStays DEF IInv
<1>. QED
  BY <1>1, <1>2, <1>3, <1>4 DEF IInv, Keeps, NoneGoesBack

LEMMA ClaimElsewhereStep ==
  ASSUME IInv, NEW u \in Guest, ClaimElsewhere(u)
  PROVE  Keeps
<1>1. pool' = [pool EXCEPT ![u] = pool[u] \ {Min(pool[u])}] /\ pool \in [Guest -> SUBSET Nat]
  BY DEF ClaimElsewhere, IInv, TypeOK
<1>2. pool' \in [Guest -> SUBSET Nat] /\ \A v \in Guest : pool'[v] \subseteq pool[v]
  BY <1>1
<1>3. UNCHANGED <<roster, welcomes, log, wire, epochs, op, dev, unrevoked>>
  BY DEF ClaimElsewhere
<1>. QED
  BY <1>2, <1>3, SmallStep DEF IInv, TypeOK

LEMMA WriteStep ==
  ASSUME IInv, NEW u \in User, Write(u)
  PROVE  Keeps
<1>. DEFINE m == [kind |-> "app", epoch |-> IF u = Owner THEN Epoch ELSE dev[u].state.epoch, from |-> u]
<1>1. m \in Message
  BY DEF IInv, TypeOK, Device, State, Message, User, Epoch
<1>2. wire' \subseteq wire \cup {m} /\ UNCHANGED <<server, epochs, op, dev, unrevoked>>
  BY DEF Write, WsSend
<1>3. m.kind # "commit"
  OBVIOUS
<1>. HIDE DEF m
<1>4. wire' \subseteq Message /\ \A f \in wire' \ wire : f.kind # "commit"
  BY <1>1, <1>2, <1>3 DEF IInv, TypeOK
<1>5. pool' \in [Guest -> SUBSET Nat] /\ \A v \in Guest : pool'[v] \subseteq pool[v]
  BY <1>2 DEF IInv, TypeOK, server
<1>. QED
  BY <1>2, <1>4, <1>5, SmallStep DEF server

LEMMA OwnerConnectionStep ==
  ASSUME IInv, OwnerDrop \/ OwnerReconnect
  PROVE  Keeps
<1>1. UNCHANGED <<server, wire, epochs, op, dev, unrevoked>>
  BY DEF OwnerDrop, OwnerReconnect
<1>. QED
  BY <1>1, SmallStep DEF server, IInv, TypeOK

\* The server stores a frame and tells the members' open sockets of it.
LEMMA HandleStep ==
  ASSUME IInv, Handle
  PROVE  Keeps
<1>1. PICK f \in wire :
        /\ wire' = wire \ {f}
        /\ IF f.from \in roster
             THEN /\ log' = Append(log, f)
                  /\ dev' = [u \in Guest |-> IF dev[u].up /\ u \in roster
                               THEN [dev[u] EXCEPT !.live = @ \cup {Len(log) + 1}] ELSE dev[u]]
             ELSE UNCHANGED <<log, dev>>
        /\ UNCHANGED <<roster, pool, welcomes, epochs, op, ownerUp, unrevoked, faults>>
  BY DEF Handle
<1>2. f \in Message /\ wire \subseteq Message /\ log \in Seq(Message) /\ pool \in [Guest -> SUBSET Nat]
  BY DEF IInv, TypeOK
<1>3. CASE f.from \notin roster
  BY <1>1, <1>2, <1>3, SmallStep
<1>4. CASE f.from \in roster
  <2>. DEFINE n == Len(log) + 1
              d(u) == IF dev[u].up /\ u \in roster THEN [dev[u] EXCEPT !.live = dev[u].live \cup {n}] ELSE dev[u]
  <2>1. log' \in Seq(Message) /\ DOMAIN log' = DOMAIN log \cup {n} /\ n \in Nat
        /\ Range(log') = Range(log) \cup {f}
    <3>1. log' = Append(log, f)
      BY <1>1, <1>4
    <3>2. Len(log') = n /\ n \in Nat /\ log' \in Seq(Message) /\ DOMAIN log' = 1 .. n /\ DOMAIN log = 1 .. Len(log)
          /\ log'[n] = f /\ \A i \in DOMAIN log : log'[i] = log[i]
      BY <1>2, <3>1
    <3>3. DOMAIN log' = DOMAIN log \cup {n}
      BY <1>2, <3>2
    <3>. QED
      BY <3>2, <3>3 DEF Range
  <2>2. \A u \in Guest : dev'[u] = d(u)
    BY <1>1, <1>4
  <2>3. ASSUME NEW u \in Guest
        PROVE  /\ dev'[u] \in Device /\ SameKeys(dev[u], dev'[u])
               /\ dev'[u].todo = dev[u].todo /\ dev'[u].live \subseteq dev[u].live \cup {n}
    <3>1. dev[u] \in Device
      BY DEF IInv, TypeOK
    <3>2. dev[u].live \cup {n} \in SUBSET Nat
      BY <2>1, <3>1 DEF Device
    <3>. HIDE DEF n
    <3>3. CASE dev[u].up /\ u \in roster
      <4>1. dev'[u] = [dev[u] EXCEPT !.live = dev[u].live \cup {n}]
        BY <2>2, <3>3
      <4>. QED
        BY <3>1, <3>2, <4>1 DEF Device, SameKeys
    <3>4. CASE ~ (dev[u].up /\ u \in roster)
      BY <2>2, <3>1, <3>4 DEF SameKeys
    <3>. QED
      BY <3>3, <3>4
  <2>. HIDE DEF n, d
  <2>4. dev' \in [Guest -> Device]
    <3>1. dev' = [u \in Guest |-> dev'[u]]
      BY <1>1, <1>4
    <3>. QED
      BY <2>3, <3>1
  <2>5. TypeOK'
    BY <1>1, <1>2, <2>1, <2>4 DEF IInv, TypeOK
  <2>6. OneLeaf' /\ Operating' /\ ReadersAreOnRoster' /\ EpochsKept /\ ClaimKept
    BY <1>1, RestStays
  <2>7. ASSUME NEW u \in Guest PROVE DeviceOK(u, dev[u])' /\ Forward(u, dev[u], dev'[u])
    <3>1. DeviceOK(u, dev[u]) /\ ToRead(dev[u]) /\ dev[u].state \in State
      BY DEF IInv, Devices, DeviceOK, Device
    <3>2. ToRead(dev[u])'
      BY <2>1, <2>3, <3>1 DEF ToRead
    <3>3. DeviceOK(u, dev[u])'
      BY <1>1, <2>3, <2>6, <3>1, <3>2, DeviceStays
    <3>. QED
      BY <2>3, <3>1, <3>3 DEF Forward, SameKeys, State
  <2>8. Relayed'
    BY <1>1, <2>1, <2>6, RelayedStays DEF IInv
  <2>. QED
    BY <2>5, <2>6, <2>7, <2>8 DEF IInv, Keeps, NoneGoesBack, Devices
<1>. QED
  BY <1>3, <1>4

\* start(): no Welcome and no claim is of a package that the device makes now.
LEMMA StartStep ==
  ASSUME IInv, NEW u \in Guest, Start(u)
  PROVE  Keeps
<1>. DEFINE had == dev[u].made
            new == {<<u, k>> : k \in Fresh(u)}
            d == [dev[u] EXCEPT !.at = "welcomes", !.made = had + Cardinality(Fresh(u)),
                                !.bundles = dev[u].bundles \cup new]
<1>1. DeviceOK(u, dev[u]) /\ dev[u] \in Device /\ ToRead(dev[u]) /\ had \in Nat
  BY DEF IInv, Devices, DeviceOK, Device
<1>2. PICK need \in Nat : Fresh(u) = had + 1 .. had + need /\ Cardinality(Fresh(u)) = need
  BY <1>1, FreshIs DEF DeviceOK, PoolOpens
<1>3. /\ dev' = [dev EXCEPT ![u] = d] /\ pool' = [pool EXCEPT ![u] = pool[u] \cup Fresh(u)]
      /\ UNCHANGED <<roster, welcomes, log, wire, epochs, op, ownerUp, unrevoked, faults>>
  BY DEF Start, Moves, PublishKeyPackages
<1>4. \A k \in Fresh(u) : k \in Nat /\ k > had /\ k \in 1 .. had + need
  BY <1>1, <1>2
<1>5. new \subseteq Leaf
  BY <1>4 DEF Leaf, User
<1>6. d \in Device /\ d.made = had + need /\ d.bundles = dev[u].bundles \cup new /\ d.state = dev[u].state
      /\ d.todo = dev[u].todo /\ d.live = dev[u].live
  <2>1. had + Cardinality(Fresh(u)) \in Nat /\ had + Cardinality(Fresh(u)) = had + need
    BY <1>1, <1>2
  <2>2. dev[u].bundles \cup new \in SUBSET Leaf
    BY <1>1, <1>5 DEF Device
  <2>. HIDE DEF had, new
  <2>. QED
    BY <1>1, <2>1, <2>2 DEF Device
<1>. HIDE DEF d, new
<1>7. dev'[u] = d /\ pool'[u] = pool[u] \cup Fresh(u)
      /\ \A v \in Guest \ {u} : dev'[v] = dev[v] /\ pool'[v] = pool[v]
  BY <1>3 DEF IInv, TypeOK
<1>8. TypeOK'
  <2>1. pool' \in [Guest -> SUBSET Nat]
    BY <1>3, <1>4 DEF IInv, TypeOK
  <2>. QED
    BY <1>3, <1>6, <2>1 DEF IInv, TypeOK
<1>9. OneLeaf' /\ Operating' /\ ReadersAreOnRoster' /\ EpochsKept /\ ClaimKept
  BY <1>3, RestStays
<1>10. Relayed'
  BY <1>3, <1>9, RelayedStays DEF IInv
<1>11. Made(u, dev[u]) \subseteq Made(u, d) /\ new \subseteq Made(u, d) /\ new \cap Made(u, dev[u]) = {}
  BY <1>1, <1>4, <1>6 DEF Made, new
<1>12. \A x \in Made(u, dev[u]) : x[2] \notin Fresh(u)
  BY <1>1, <1>4 DEF Made
<1>13. DeviceOK(u, dev[u])'
  <2>1. PoolOpens(u, dev[u])'
    <3>1. d.bundles \subseteq Made(u, d)
      BY <1>1, <1>6, <1>11 DEF DeviceOK, PoolOpens
    <3>2. ASSUME NEW k \in pool[u] PROVE k \in 1 .. d.made /\ <<u, k>> \in d.bundles
      BY <1>1, <1>2, <1>6 DEF DeviceOK, PoolOpens
    <3>3. ASSUME NEW k \in Fresh(u) PROVE k \in 1 .. d.made /\ <<u, k>> \in d.bundles
      BY <1>4, <1>6 DEF new
    <3>. QED
      BY <1>7, <3>1, <3>2, <3>3 DEF PoolOpens, Made
  <2>2. WelcomesOpen(u, dev[u])'
    <3>. SUFFICES ASSUME NEW w \in welcomes, w.to = u
                  PROVE  /\ w.leaf \in Made(u, d) /\ w.leaf[2] \notin pool'[u]
                         /\ IF w.leaf \in d.bundles THEN w.epoch >= d.state.since /\ (u \in unrevoked \/ w.epoch > d.state.epoch)
                                                    ELSE d.state.since >= w.epoch
      BY <1>3, <1>7 DEF WelcomesOpen, Made
    <3>1. w.leaf \in Made(u, dev[u]) /\ w.leaf[2] \notin pool[u]
      BY <1>1 DEF DeviceOK, WelcomesOpen
    <3>2. w.leaf \in d.bundles <=> w.leaf \in dev[u].bundles
      BY <1>6, <1>11, <3>1
    <3>. QED
      BY <1>1, <1>6, <1>7, <1>11, <1>12, <3>1, <3>2 DEF DeviceOK, WelcomesOpen
  <2>3. StateInTree(u, dev[u])'
    BY <1>1, <1>3, <1>6, <1>7, <1>11 DEF DeviceOK, StateInTree, Made, NoState, Blank
  <2>4. ClaimOpens(u, dev[u])'
    <3>. SUFFICES ASSUME Claimed, op.who = u
                  PROVE  op.leaf \in d.bundles /\ op.leaf[2] \notin pool'[u] /\ \A w \in welcomes : w.leaf # op.leaf
      BY <1>3, <1>7 DEF ClaimOpens, Claimed
    <3>1. op.leaf \in dev[u].bundles /\ op.leaf[2] \notin pool[u] /\ \A w \in welcomes : w.leaf # op.leaf
      BY <1>1 DEF DeviceOK, ClaimOpens, Claimed
    <3>2. op.leaf \in Made(u, dev[u])
      BY <1>1, <3>1 DEF DeviceOK, PoolOpens
    <3>. QED
      BY <1>6, <1>7, <1>12, <3>1, <3>2
  <2>5. ToRead(dev[u])'
    BY <1>1, <1>3, <1>6, <1>7 DEF ToRead
  <2>. QED
    BY <1>6, <1>7, <2>1, <2>2, <2>3, <2>4, <2>5 DEF DeviceOK, Device, State, Slot, Leaf, User, Blank
<1>14. ASSUME NEW v \in Guest, v # u PROVE DeviceOK(v, dev[v])'
  <2>1. DeviceOK(v, dev[v]) /\ SameKeys(dev[v], dev'[v]) /\ dev'[v] \in Device /\ ToRead(dev[v])'
    BY <1>3, <1>7, <1>14 DEF IInv, Devices, DeviceOK, SameKeys, ToRead
  <2>. QED
    BY <1>3, <1>7, <1>9, <1>14, <2>1, DeviceStays
<1>15. ASSUME NEW v \in Guest PROVE Forward(v, dev[v], dev'[v])
  <2>1. dev'[v].state = dev[v].state /\ dev[v].state \in State
    BY <1>6, <1>7 DEF IInv, TypeOK, Device
  <2>. QED
    BY <2>1 DEF Forward, State
<1>. QED
  BY <1>8, <1>9, <1>10, <1>13, <1>14, <1>15 DEF IInv, Keeps, NoneGoesBack, Devices

-----------------------------------------------------------------------------
(* The owner's steps *)

LEMMA EpochIs ==
  ASSUME IInv, epochs # << >>
  PROVE  Epoch \in DOMAIN epochs /\ Epoch \in Nat \ {0} /\ Tree = epochs[Epoch] /\ Tree \in RatchetTree
         /\ DOMAIN epochs = 1 .. Epoch /\ Owner \in roster
  BY DEF IInv, TypeOK, Operating, Epoch, Tree, Last

LEMMA IdleOK == Idle \in Operation /\ ~ (Idle.at \in {"add", "welcome"}) /\ Idle.at = "idle" /\ Idle.rest = << >>
  BY DEF Idle, Operation, Slot, User

\* A step of the owner's client that gives nobody a Welcome.
LEMMA OwnerStepOK ==
  ASSUME IInv, UNCHANGED <<pool, welcomes, log, dev>>, roster' \subseteq User, op' \in Operation,
         unrevoked \subseteq unrevoked', unrevoked' \subseteq Guest,
         epochs' \in Seq(RatchetTree), wire' \subseteq Message,
         \A m \in wire' \ wire : m.kind = "commit" => m.epoch + 1 \in DOMAIN epochs',
         EpochsKept, ClaimKept, OneLeaf', Operating', ReadersAreOnRoster'
  PROVE  Keeps
<1>1. TypeOK'
  BY DEF IInv, TypeOK
<1>2. Devices' /\ \A v \in Guest : Forward(v, dev[v], dev'[v])
  BY DevicesStay
<1>3. Relayed'
  BY RelayedStays DEF IInv
<1>. QED
  BY <1>1, <1>2, <1>3 DEF IInv, Keeps, NoneGoesBack

\* The members that the owner is to add, each once.
Candidates(rest) ==
  /\ rest \in Seq(Guest)
  /\ \A i \in DOMAIN rest : MayJoin(rest[i])
  /\ \A i, j \in DOMAIN rest : rest[i] = rest[j] => i = j

\* The owner goes on to the next member, or is done.
LEMMA NextMemberOK ==
  ASSUME NEW rest, op' = NextMember(rest), Candidates(rest)', Owner \in roster', epochs' # << >>
  PROVE  op' \in Operation /\ Operating' /\ ClaimKept
<1>1. CASE rest = << >>
  <2>1. op' = Idle
    BY <1>1 DEF NextMember
  <2>. QED
    BY <2>1, IdleOK DEF Operating, ClaimKept, Claimed
<1>2. CASE rest # << >>
  <2>1. op' = [at |-> "claim", who |-> Head(rest), rest |-> Tail(rest), leaf |-> Blank]
    BY <1>2 DEF NextMember, Idle
  <2>2. rest \in Seq(Guest) /\ Head(rest) = rest[1] /\ Head(rest) \in Guest /\ 1 \in DOMAIN rest /\ Tail(rest) \in Seq(Guest)
        /\ \A i \in DOMAIN Tail(rest) : i + 1 \in DOMAIN rest /\ Tail(rest)[i] = rest[i + 1] /\ i \in Nat \ {0}
    BY <1>2 DEF Candidates
  <2>3. op'.at = "claim" /\ op'.who = Head(rest) /\ op'.rest = Tail(rest) /\ op' \in Operation
    BY <2>1, <2>2 DEF Operation, User, Slot
  <2>4. ClaimKept
    BY <2>3 DEF ClaimKept, Claimed
  <2>5. MayJoin(op.who)'
    BY <2>2, <2>3 DEF Candidates
  <2>6. \A i \in DOMAIN op'.rest : op'.rest[i] # op'.who /\ MayJoin(op.rest[i])'
    <3>. SUFFICES ASSUME NEW i \in DOMAIN op'.rest PROVE op'.rest[i] # op'.who /\ MayJoin(op.rest[i])'
      OBVIOUS
    <3>1. op'.rest[i] = rest[i + 1] /\ op'.who = rest[1] /\ i + 1 # 1 /\ i + 1 \in DOMAIN rest /\ 1 \in DOMAIN rest
      BY <2>2, <2>3
    <3>. QED
      BY <3>1 DEF Candidates
  <2>7. \A i, j \in DOMAIN op'.rest : op'.rest[i] = op'.rest[j] => i = j
    <3>. SUFFICES ASSUME NEW i \in DOMAIN op'.rest, NEW j \in DOMAIN op'.rest, op'.rest[i] = op'.rest[j] PROVE i = j
      OBVIOUS
    <3>1. rest[i + 1] = rest[j + 1] /\ i + 1 \in DOMAIN rest /\ j + 1 \in DOMAIN rest /\ i \in Nat /\ j \in Nat
      BY <2>2, <2>3
    <3>2. i + 1 = j + 1
      BY <3>1 DEF Candidates
    <3>. QED
      BY <3>1, <3>2
  <2>. QED
    BY <2>2, <2>3, <2>4, <2>5, <2>6, <2>7 DEF Operating
<1>. QED
  BY <1>1, <1>2

\* Nobody who may be added is in the tree after a step that leaves the trees alone.
LEMMA CandidatesStay ==
  ASSUME NEW rest, Candidates(rest), UNCHANGED <<epochs, unrevoked>>, roster \subseteq roster'
  PROVE  Candidates(rest)'
  BY DEF Candidates, MayJoin, LeavesOf, Tree, Blank

LEMMA RestIsCandidates ==
  ASSUME IInv
  PROVE  Candidates(op.rest)
  BY DEF IInv, TypeOK, Operation, Operating, Candidates

LEMMA TreesStay ==
  ASSUME IInv, UNCHANGED <<epochs, unrevoked>>, roster \subseteq roster'
  PROVE  OneLeaf' /\ ReadersAreOnRoster' /\ EpochsKept
  BY DEF IInv, OneLeaf, LeavesOf, ReadersAreOnRoster, Tree, Blank, EpochsKept

LEMMA OperatingIdle ==
  ASSUME IInv, op' = Idle, Owner \in roster => Owner \in roster', roster' \subseteq roster, UNCHANGED epochs
  PROVE  op' \in Operation /\ Operating' /\ ClaimKept
<1>1. op'.at = "idle" /\ op'.rest = << >> /\ op' \in Operation
  BY IdleOK
<1>. QED
  BY <1>1 DEF Operating, ClaimKept, Claimed, IInv

LEMMA SetToSeqIs ==
  ASSUME NEW G, IsFiniteSet(G)
  PROVE  SetToSeq(G) \in Seq(G) /\ \A i, j \in DOMAIN SetToSeq(G) : SetToSeq(G)[i] = SetToSeq(G)[j] => i = j
<1>1. Cardinality(G) \in Nat /\ ExistsBijection(1 .. Cardinality(G), G)
  BY FS_CardinalityType
<1>2. \E f \in [1 .. Cardinality(G) -> G] : IsInjective(f)
  BY <1>1 DEF ExistsBijection, Bijection, Injection, IsInjective
<1>3. SetToSeq(G) \in [1 .. Cardinality(G) -> G] /\ IsInjective(SetToSeq(G))
  BY <1>2, Zenon DEF SetToSeq
<1>. QED
  BY <1>1, <1>3 DEF IsInjective

LEMMA NewGroupStep ==
  ASSUME IInv, NewGroup
  PROVE  Keeps
<1>1. PICK G \in SUBSET Guest : roster' = G \cup {Owner} /\ op' = [Idle EXCEPT !.at = "create", !.rest = SetToSeq(G)]
  BY DEF NewGroup
<1>2. SetToSeq(G) \in Seq(G) /\ \A i, j \in DOMAIN SetToSeq(G) : SetToSeq(G)[i] = SetToSeq(G)[j] => i = j
  <2>1. IsFiniteSet(G)
    BY OwnerAssumption, FS_Subset
  <2>. QED
    BY <2>1, SetToSeqIs
<1>3. SetToSeq(G) \in Seq(Guest) /\ \A i \in DOMAIN SetToSeq(G) : SetToSeq(G)[i] \in G
  BY <1>2
<1>4. roster = {} /\ epochs = << >> /\ UNCHANGED <<pool, welcomes, log, wire, epochs, dev, unrevoked>>
  BY DEF NewGroup, IInv, Operating
<1>5. op' \in Operation /\ op'.at = "create" /\ op'.who = Owner /\ op'.rest = SetToSeq(G)
  BY <1>1, <1>3 DEF Idle, Operation, User, Slot
<1>6. OneLeaf' /\ ReadersAreOnRoster' /\ EpochsKept
  BY <1>4, TreesStay
<1>7. Operating'
  BY <1>1, <1>2, <1>3, <1>4, <1>5, OwnerAssumption DEF Operating, MayJoin
<1>8. ClaimKept /\ roster' \subseteq User
  BY <1>1, <1>5 DEF ClaimKept, Claimed, User
<1>. QED
  BY <1>4, <1>5, <1>6, <1>7, <1>8, OwnerStepOK DEF IInv, TypeOK

LEMMA CreateGroupStep ==
  ASSUME IInv, CreateGroup
  PROVE  Keeps
<1>. DEFINE t == << <<Owner, 0>> >>
<1>1. /\ epochs = << >> /\ epochs' = <<t>> /\ op' = NextMember(op.rest) /\ Owner \in roster
      /\ UNCHANGED <<roster, pool, welcomes, log, wire, dev, unrevoked>>
  BY IdleOK DEF CreateGroup, IInv, Operating, server
<1>2. t \in RatchetTree /\ \A u \in Guest : LeavesOf(t, u) = {}
  BY OwnerAssumption DEF RatchetTree, Slot, Leaf, User, LeavesOf
<1>. HIDE DEF t
<1>3. epochs' \in Seq(RatchetTree) /\ DOMAIN epochs' = {1} /\ epochs'[1] = t /\ epochs' # << >> /\ Tree' = t
  BY <1>1, <1>2 DEF Tree, Last
<1>4. EpochsKept
  BY <1>1 DEF EpochsKept
<1>5. \A u \in Guest, e \in DOMAIN epochs' : LeavesOf(epochs[e], u)' = {}
  BY <1>2, <1>3 DEF LeavesOf, Blank
<1>6. \A u \in Guest : LeavesOf(Tree, u)' = {}
  BY <1>2, <1>3 DEF LeavesOf, Blank
<1>7. OneLeaf' /\ ReadersAreOnRoster'
  BY <1>1, <1>5, <1>6 DEF OneLeaf, ReadersAreOnRoster
<1>8. PICK rest : rest = op.rest
  OBVIOUS
<1>9. Candidates(rest)'
  <2>1. Candidates(rest)
    BY <1>8, RestIsCandidates
  <2>2. \A i \in DOMAIN rest : MayJoin(rest[i])'
    BY <1>1, <1>6, <2>1 DEF Candidates, MayJoin
  <2>. QED
    BY <2>1, <2>2 DEF Candidates
<1>10. op' \in Operation /\ Operating' /\ ClaimKept
  BY <1>1, <1>3, <1>8, <1>9, NextMemberOK
<1>. QED
  BY <1>1, <1>3, <1>4, <1>7, <1>10, OwnerStepOK DEF IInv, TypeOK

\* addGroupMember: who is not on the roster and has not left is in no tree.
LEMMA AddToRosterStep ==
  ASSUME IInv, NEW u \in Guest, AddToRoster(u)
  PROVE  Keeps
<1>1. /\ epochs # << >> /\ u \notin roster /\ roster' = roster \cup {u} /\ op' = NextMember(<<u>>)
      /\ UNCHANGED <<pool, welcomes, log, wire, epochs, dev, unrevoked>>
  BY DEF AddToRoster
<1>2. OneLeaf' /\ ReadersAreOnRoster' /\ EpochsKept
  BY <1>1, TreesStay
<1>3. Candidates(<<u>>)'
  <2>1. MayJoin(u)'
    BY <1>1 DEF MayJoin, IInv, ReadersAreOnRoster, LeavesOf, Tree, Blank
  <2>. QED
    BY <2>1 DEF Candidates
<1>4. Owner \in roster
  BY <1>1, EpochIs
<1>5. op' \in Operation /\ Operating' /\ ClaimKept
  BY <1>1, <1>3, <1>4, NextMemberOK
<1>. QED
  BY <1>1, <1>2, <1>5, OwnerStepOK DEF IInv, TypeOK, User

LEMMA SendAddCommitStep ==
  ASSUME IInv, SendAddCommit
  PROVE  Keeps
<1>1. /\ op.at = "send" /\ wire' \subseteq wire \cup {Commit} /\ op' = NextMember(op.rest)
      /\ UNCHANGED <<roster, pool, welcomes, log, epochs, dev, unrevoked>>
  BY DEF SendAddCommit, WsSend, server
<1>2. epochs # << >>
  BY <1>1 DEF IInv, Operating
<1>3. Epoch \in DOMAIN epochs /\ Epoch \in Nat \ {0} /\ Owner \in roster
  BY <1>2, EpochIs
<1>4. Commit \in Message /\ Commit.epoch + 1 \in DOMAIN epochs
  BY <1>3 DEF Commit, Message, User
<1>5. OneLeaf' /\ ReadersAreOnRoster' /\ EpochsKept
  BY <1>1, TreesStay
<1>6. PICK rest : rest = op.rest
  OBVIOUS
<1>7. Candidates(rest)'
  BY <1>1, <1>6, RestIsCandidates, CandidatesStay
<1>8. op' \in Operation /\ Operating' /\ ClaimKept
  BY <1>1, <1>2, <1>3, <1>6, <1>7, NextMemberOK
<1>. QED
  BY <1>1, <1>4, <1>5, <1>8, OwnerStepOK DEF IInv, TypeOK

LEMMA SendRemoveCommitStep ==
  ASSUME IInv, SendRemoveCommit
  PROVE  Keeps
<1>1. /\ op.at = "tell" /\ wire' \subseteq wire \cup {Commit} /\ op' = [op EXCEPT !.at = "removed"]
      /\ UNCHANGED <<roster, pool, welcomes, log, epochs, dev, unrevoked>>
  BY DEF SendRemoveCommit, WsSend, server
<1>2. epochs # << >>
  BY <1>1 DEF IInv, Operating
<1>3. Epoch \in DOMAIN epochs /\ Epoch \in Nat \ {0}
  BY <1>2, EpochIs
<1>4. Commit \in Message /\ Commit.epoch + 1 \in DOMAIN epochs
  BY <1>3 DEF Commit, Message, User
<1>5. OneLeaf' /\ ReadersAreOnRoster' /\ EpochsKept
  BY <1>1, TreesStay
<1>6. op' \in Operation /\ op'.at = "removed" /\ op'.who = op.who /\ op'.rest = op.rest
  BY <1>1 DEF IInv, TypeOK, Operation
<1>7. Operating' /\ ClaimKept
  <2>1. \A u : MayJoin(u) => MayJoin(u)'
    BY <1>1 DEF MayJoin, LeavesOf, Tree, Blank
  <2>. QED
    BY <1>1, <1>2, <1>6, <2>1 DEF IInv, Operating, ClaimKept, Claimed, LeavesOf, Tree, Blank
<1>. QED
  BY <1>1, <1>4, <1>5, <1>6, <1>7, OwnerStepOK DEF IInv, TypeOK

\* Who is taken off the roster has no leaf any more, or has left, or its removal has failed.
LEMMA RemoveFromRosterStep ==
  ASSUME IInv, RemoveFromRoster
  PROVE  Keeps
<1>1. /\ op.at = "removed" /\ roster' = roster \ {op.who} /\ op' = Idle
      /\ UNCHANGED <<pool, welcomes, log, wire, epochs, dev, unrevoked>>
  BY DEF RemoveFromRoster
<1>2. op.who \in Guest /\ (op.who \in unrevoked \/ epochs = << >> \/ LeavesOf(Tree, op.who) = {})
  BY <1>1 DEF IInv, Operating
<1>3. op' \in Operation /\ Operating' /\ ClaimKept
  BY <1>1, <1>2, OwnerAssumption, OperatingIdle
<1>4. OneLeaf' /\ EpochsKept
  BY <1>1 DEF IInv, OneLeaf, LeavesOf, Blank, EpochsKept
<1>5. ReadersAreOnRoster'
  BY <1>1, <1>2 DEF IInv, ReadersAreOnRoster, LeavesOf, Tree, Blank
<1>. QED
  BY <1>1, <1>3, <1>4, <1>5, OwnerStepOK DEF IInv, TypeOK

LEMMA AbortStep ==
  ASSUME IInv, Abort
  PROVE  Keeps
<1>1. op' = Idle /\ UNCHANGED <<roster, pool, welcomes, log, wire, epochs, dev, unrevoked>>
  BY DEF Abort, server
<1>2. op' \in Operation /\ Operating' /\ ClaimKept
  BY <1>1, OperatingIdle
<1>3. OneLeaf' /\ ReadersAreOnRoster' /\ EpochsKept
  BY <1>1, TreesStay
<1>. QED
  BY <1>1, <1>2, <1>3, OwnerStepOK DEF IInv, TypeOK

\* claimKeyPackage: the package is in nobody's Welcome.
LEMMA ClaimStep ==
  ASSUME IInv, Claim
  PROVE  Keeps
<1>. DEFINE who == op.who
<1>1. op.at = "claim" /\ who \in Guest /\ epochs # << >> /\ pool \in [Guest -> SUBSET Nat] /\ Owner \in roster
      /\ UNCHANGED <<roster, welcomes, log, wire, epochs, dev, unrevoked>>
  BY EpochIs DEF Claim, IInv, Operating, TypeOK
<1>2. OneLeaf' /\ ReadersAreOnRoster' /\ EpochsKept
  BY <1>1, TreesStay
<1>3. CASE pool[who] = {}
  <2>1. op' = Idle /\ UNCHANGED pool
    BY <1>3 DEF Claim
  <2>2. op' \in Operation /\ Operating' /\ ClaimKept
    BY <1>1, <2>1, OperatingIdle
  <2>. QED
    BY <1>1, <1>2, <2>1, <2>2, OwnerStepOK DEF IInv, TypeOK
<1>4. CASE pool[who] # {}
  <2>. DEFINE k == Min(pool[who])
  <2>1. pool' = [pool EXCEPT ![who] = pool[who] \ {k}] /\ op' = [op EXCEPT !.at = "add", !.leaf = <<who, k>>]
    BY <1>4 DEF Claim
  <2>2. k \in pool[who] /\ k \in Nat
    BY <1>1, <1>4, MinIs
  <2>. HIDE DEF k
  <2>3. /\ op' \in Operation /\ op'.at = "add" /\ op'.who = who /\ op'.rest = op.rest
        /\ op'.leaf = <<who, k>> /\ op'.leaf \in {who} \X Nat
    BY <1>1, <2>1, <2>2 DEF IInv, TypeOK, Operation, Slot, Leaf, User
  <2>4. pool' \in [Guest -> SUBSET Nat] /\ k \notin pool'[who] /\ \A u \in Guest : pool'[u] \subseteq pool[u]
    BY <1>1, <2>1
  <2>5. TypeOK'
    BY <1>1, <2>3, <2>4 DEF IInv, TypeOK
  <2>6. ASSUME NEW u \in Guest PROVE DeviceOK(u, dev[u])' /\ Forward(u, dev[u], dev'[u])
    <3>1. DeviceOK(u, dev[u]) /\ dev[u] \in Device /\ SameKeys(dev[u], dev'[u]) /\ dev'[u] \in Device /\ ToRead(dev[u])'
      BY <1>1 DEF IInv, Devices, DeviceOK, SameKeys, ToRead
    <3>2. ClaimOpens(u, dev[u])'
      <4>1. CASE u # who
        BY <2>3, <4>1 DEF ClaimOpens
      <4>2. CASE u = who
        <5>1. <<who, k>> \in dev[u].bundles
          BY <2>2, <3>1, <4>2 DEF DeviceOK, PoolOpens
        <5>2. ASSUME NEW w \in welcomes PROVE w.leaf # <<who, k>>
          <6>1. w.to \in Guest /\ w.leaf \in Made(w.to, dev[w.to]) /\ w.leaf[2] \notin pool[w.to]
            BY DEF IInv, TypeOK, Devices, DeviceOK, WelcomesOpen
          <6>. QED
            BY <2>2, <6>1 DEF Made
        <5>. QED
          BY <1>1, <2>3, <2>4, <4>2, <5>1, <5>2 DEF ClaimOpens
      <4>. QED
        BY <4>1, <4>2
    <3>3. DeviceOK(u, dev[u])'
      BY <1>1, <1>2, <2>4, <3>1, <3>2, DeviceStays
    <3>. QED
      BY <1>1, <3>1, <3>3 DEF Forward, Device, State
  <2>7. Operating'
    <3>1. \A u : MayJoin(u) => MayJoin(u)'
      BY <1>1 DEF MayJoin, LeavesOf, Tree, Blank
    <3>. QED
      BY <1>1, <2>3, <3>1 DEF IInv, Operating
  <2>8. Relayed'
    BY <1>1, <1>2, RelayedStays DEF IInv
  <2>. QED
    BY <1>2, <2>5, <2>6, <2>7, <2>8 DEF IInv, Keeps, NoneGoesBack, Devices
<1>. QED
  BY <1>3, <1>4

\* One more epoch.
LEMMA AppendEpoch ==
  ASSUME IInv, epochs # << >>, NEW t \in RatchetTree, epochs' = Append(epochs, t)
  PROVE  /\ epochs' \in Seq(RatchetTree) /\ epochs' # << >> /\ Tree' = t
         /\ DOMAIN epochs' = DOMAIN epochs \cup {Epoch + 1} /\ epochs'[Epoch + 1] = t
         /\ EpochsKept
<1>1. epochs \in Seq(RatchetTree)
  BY DEF IInv, TypeOK
<1>2. Len(epochs') = Len(epochs) + 1 /\ epochs' \in Seq(RatchetTree) /\ epochs'[Len(epochs) + 1] = t
      /\ \A e \in DOMAIN epochs : epochs'[e] = epochs[e]
  BY <1>1
<1>3. DOMAIN epochs' = 1 .. Len(epochs) + 1 /\ DOMAIN epochs = 1 .. Len(epochs) /\ Len(epochs) \in Nat
  BY <1>1, <1>2
<1>. QED
  BY <1>2, <1>3 DEF EpochsKept, Tree, Last, Epoch

LEMMA OneLeafIn ==
  ASSUME IInv, UNCHANGED unrevoked, EpochsKept, NEW n, DOMAIN epochs' = DOMAIN epochs \cup {n},
         \A u \in Guest \ unrevoked : \A i, j \in LeavesOf(epochs'[n], u) : i = j
  PROVE  OneLeaf'
<1>. SUFFICES ASSUME NEW u \in Guest \ unrevoked, NEW e \in DOMAIN epochs',
                     NEW i \in LeavesOf(epochs'[e], u), NEW j \in LeavesOf(epochs'[e], u)
              PROVE  i = j
  BY DEF OneLeaf, LeavesOf, Blank
<1>. QED
  BY DEF IInv, OneLeaf, EpochsKept

\* worker addMember: the new member had no leaf, the others keep theirs.
LEMMA AddToTreeStep ==
  ASSUME IInv, AddToTree
  PROVE  Keeps
<1>. DEFINE who == op.who
            t == AddLeaf(Tree, op.leaf)
<1>1. /\ op.at = "add" /\ epochs' = Append(epochs, t) /\ op' = [op EXCEPT !.at = "welcome"]
      /\ UNCHANGED <<roster, pool, welcomes, log, wire, dev, unrevoked>>
  BY DEF AddToTree, server
<1>2. epochs # << >> /\ who \in Guest /\ MayJoin(who) /\ op.leaf \in {who} \X Nat
  BY <1>1 DEF IInv, Operating
<1>3. op.leaf \in Leaf /\ op.leaf[1] = who /\ Tree \in RatchetTree /\ Tree = epochs[Epoch] /\ Epoch \in DOMAIN epochs
  BY <1>2, EpochIs DEF Leaf, User
<1>4. /\ t \in RatchetTree /\ op.leaf \in Range(t)
      /\ \A u : u # who => LeavesOf(t, u) = LeavesOf(Tree, u)
      /\ LeavesOf(Tree, who) = {} => \A i, j \in LeavesOf(t, who) : i = j
  <2>1. /\ t \in RatchetTree /\ op.leaf \in Range(t)
        /\ \A u : u # op.leaf[1] => LeavesOf(t, u) = LeavesOf(Tree, u)
        /\ LeavesOf(Tree, op.leaf[1]) = {} => \A i, j \in LeavesOf(t, op.leaf[1]) : i = j
    BY <1>3, AddLeafIs
  <2>2. op.leaf[1] = who
    BY <1>3
  <2>. HIDE DEF t, who
  <2>. QED
    BY <2>1, <2>2
<1>. HIDE DEF t
<1>5. /\ epochs' \in Seq(RatchetTree) /\ epochs' # << >> /\ Tree' = t
      /\ DOMAIN epochs' = DOMAIN epochs \cup {Epoch + 1} /\ epochs'[Epoch + 1] = t
      /\ EpochsKept
  BY <1>1, <1>2, <1>4, AppendEpoch
<1>6. op' \in Operation /\ op'.at = "welcome" /\ op'.who = who /\ op'.rest = op.rest /\ op'.leaf = op.leaf
  BY <1>1 DEF IInv, TypeOK, Operation
<1>7. ClaimKept
  BY <1>1, <1>6 DEF ClaimKept, Claimed
<1>8. \A u : LeavesOf(Tree, u)' = LeavesOf(t, u)
  BY <1>5 DEF LeavesOf, Blank
<1>9. OneLeaf'
  <2>. SUFFICES ASSUME NEW u \in Guest \ unrevoked, NEW i \in LeavesOf(t, u), NEW j \in LeavesOf(t, u) PROVE i = j
    BY <1>1, <1>5, OneLeafIn
  <2>1. CASE u = who
    BY <1>2, <1>4, <2>1 DEF MayJoin
  <2>2. CASE u # who
    BY <1>3, <1>4, <2>2 DEF IInv, OneLeaf
  <2>. QED
    BY <2>1, <2>2
<1>10. ReadersAreOnRoster'
  BY <1>1, <1>2, <1>4, <1>8 DEF IInv, ReadersAreOnRoster, MayJoin
<1>11. Operating'
  <2>1. \A u : u # who /\ MayJoin(u) => MayJoin(u)'
    BY <1>1, <1>2, <1>4, <1>8 DEF MayJoin
  <2>2. op'.leaf \in Range(Tree)'
    BY <1>4, <1>5, <1>6 DEF Range
  <2>3. Owner \in roster'
    BY <1>1, <1>2, EpochIs
  <2>4. \A i \in DOMAIN op'.rest : op'.rest[i] # op'.who /\ MayJoin(op.rest[i])'
    BY <1>6, <2>1 DEF IInv, Operating
  <2>. QED
    BY <1>2, <1>5, <1>6, <2>2, <2>3, <2>4 DEF IInv, Operating
<1>. QED
  BY <1>1, <1>5, <1>6, <1>7, <1>9, <1>10, <1>11, OwnerStepOK DEF IInv, TypeOK

\* removeGroupMember's first half: the member's only leaf goes, or there is none, or it stays
\* because the worker failed.
LEMMA RemoveFromTreeStep ==
  ASSUME IInv, NEW u \in Guest, RemoveFromTree(u)
  PROVE  Keeps
<1>1. UNCHANGED <<roster, pool, welcomes, log, wire, dev>> /\ Owner \in roster
  BY DEF RemoveFromTree, server, IInv, Operating
<1>2. epochs # << >> => Tree \in RatchetTree /\ Tree = epochs[Epoch] /\ Epoch \in DOMAIN epochs
  BY EpochIs
<1>3. CASE /\ op' = [Idle EXCEPT !.at = "removed", !.who = u] /\ UNCHANGED epochs
           /\ unrevoked \subseteq unrevoked' /\ unrevoked' \subseteq Guest
           /\ u \in unrevoked' \/ epochs = << >> \/ LeavesOf(Tree, u) = {}
  <2>2. op' \in Operation /\ op'.at = "removed" /\ op'.who = u /\ op'.rest = << >>
    <3>1. op' = [at |-> "removed", who |-> u, rest |-> << >>, leaf |-> Blank]
      BY <1>3 DEF Idle
    <3>2. u \in User /\ << >> \in Seq(Guest) /\ Blank \in Slot
      BY DEF User, Slot
    <3>. QED
      BY <3>1, <3>2 DEF Operation
  <2>3. OneLeaf' /\ ReadersAreOnRoster' /\ EpochsKept
    BY <1>1, <1>3 DEF IInv, OneLeaf, LeavesOf, ReadersAreOnRoster, Tree, Blank, EpochsKept
  <2>4. u \in unrevoked' \/ epochs' = << >> \/ LeavesOf(Tree, u)' = {}
    BY <1>3 DEF LeavesOf, Tree, Blank
  <2>5. Operating' /\ ClaimKept
    BY <1>1, <1>3, <2>2, <2>4 DEF Operating, ClaimKept, Claimed
  <2>. QED
    BY <1>1, <1>3, <2>2, <2>3, <2>5, OwnerStepOK DEF IInv, TypeOK
<1>4. CASE /\ HasLeaf(u) /\ UNCHANGED unrevoked /\ epochs' = Append(epochs, RemoveLeaf(Tree, u))
           /\ op' = [Idle EXCEPT !.at = "tell", !.who = u]
  <2>. DEFINE t == RemoveLeaf(Tree, u)
  <2>1. /\ epochs # << >> /\ LeavesOf(Tree, u) # {} /\ UNCHANGED unrevoked
        /\ epochs' = Append(epochs, t) /\ op' = [Idle EXCEPT !.at = "tell", !.who = u]
    BY <1>4 DEF HasLeaf
  <2>2. op' \in Operation /\ op'.at = "tell" /\ op'.who = u /\ op'.rest = << >>
    <3>1. op' = [at |-> "tell", who |-> u, rest |-> << >>, leaf |-> Blank]
      BY <2>1 DEF Idle
    <3>2. u \in User /\ << >> \in Seq(Guest) /\ Blank \in Slot
      BY DEF User, Slot
    <3>. QED
      BY <3>1, <3>2 DEF Operation
  <2>3. /\ t \in RatchetTree /\ \A v : LeavesOf(t, v) \subseteq LeavesOf(Tree, v)
        /\ (\A i, j \in LeavesOf(Tree, u) : i = j) => LeavesOf(t, u) = {}
    BY <1>2, <2>1, RemoveLeafIs
  <2>. HIDE DEF t
  <2>4. /\ epochs' \in Seq(RatchetTree) /\ epochs' # << >> /\ Tree' = t
        /\ DOMAIN epochs' = DOMAIN epochs \cup {Epoch + 1} /\ epochs'[Epoch + 1] = t
        /\ EpochsKept
    BY <1>1, <2>1, <2>3, AppendEpoch
  <2>5. \A v : LeavesOf(Tree, v)' = LeavesOf(t, v)
    BY <2>4 DEF LeavesOf, Blank
  <2>6. OneLeaf'
    <3>1. \A v \in Guest \ unrevoked : \A i, j \in LeavesOf(t, v) : i = j
      BY <1>2, <2>1, <2>3 DEF IInv, OneLeaf
    <3>. QED
      BY <1>1, <2>1, <2>4, <3>1, OneLeafIn
  <2>7. ReadersAreOnRoster'
    BY <1>1, <2>1, <2>3, <2>5 DEF IInv, ReadersAreOnRoster
  <2>8. u \in unrevoked \/ LeavesOf(t, u) = {}
    BY <1>2, <2>1, <2>3 DEF IInv, OneLeaf
  <2>9. Operating' /\ ClaimKept
    BY <1>1, <1>2, <2>1, <2>2, <2>4, <2>5, <2>8 DEF Operating, ClaimKept, Claimed
  <2>. QED
    BY <1>1, <2>1, <2>2, <2>4, <2>6, <2>7, <2>9, OwnerStepOK DEF IInv, TypeOK
<1>5. /\ unrevoked' = unrevoked \/ unrevoked' = unrevoked \cup {u}
      /\ unrevoked \subseteq Guest
  BY DEF RemoveFromTree, IInv, TypeOK
<1>. QED
  BY <1>3, <1>4, <1>5 DEF RemoveFromTree, HasLeaf

\* relayWelcome: a member with a state in this epoch would have the Welcome's leaf, a used one.
LEMMA RelayWelcomeStep ==
  ASSUME IInv, RelayWelcome
  PROVE  Keeps
<1>. DEFINE who == op.who
            new == [to |-> who, leaf |-> op.leaf, epoch |-> Epoch]
<1>1. op.at = "welcome" /\ UNCHANGED <<roster, pool, log, wire, epochs, dev, unrevoked>>
  BY DEF RelayWelcome
<1>2. epochs # << >> /\ who \in Guest /\ op.leaf \in {who} \X Nat /\ op.leaf \in Range(Tree)
  BY <1>1 DEF IInv, Operating
<1>3. Epoch \in DOMAIN epochs /\ Epoch \in Nat \ {0} /\ Tree = epochs[Epoch] /\ DOMAIN epochs = 1 .. Epoch /\ Owner \in roster
  BY <1>2, EpochIs
<1>4. OneLeaf' /\ ReadersAreOnRoster' /\ EpochsKept
  BY <1>1, TreesStay
<1>5. CASE who \notin roster
  <2>1. op' = Idle /\ UNCHANGED welcomes
    BY <1>5 DEF RelayWelcome
  <2>2. op' \in Operation /\ Operating' /\ ClaimKept
    BY <1>1, <2>1, OperatingIdle
  <2>. QED
    BY <1>1, <1>4, <2>1, <2>2, OwnerStepOK DEF IInv, TypeOK
<1>6. CASE who \in roster
  <2>1. welcomes' = welcomes \cup {new} /\ op' = [op EXCEPT !.at = "send"]
    BY <1>6 DEF RelayWelcome
  <2>2. op' \in Operation /\ op'.at = "send" /\ op'.who = who /\ op'.rest = op.rest
    BY <2>1 DEF IInv, TypeOK, Operation
  <2>3. new \in [to : Guest, leaf : Leaf, epoch : Nat] /\ new.to = who /\ new.leaf = op.leaf /\ new.epoch = Epoch
    BY <1>2, <1>3 DEF Leaf, User
  <2>. HIDE DEF new
  <2>4. TypeOK'
    BY <1>1, <2>1, <2>2, <2>3 DEF IInv, TypeOK
  <2>5. ASSUME NEW u \in Guest PROVE DeviceOK(u, dev[u])' /\ Forward(u, dev[u], dev'[u])
    <3>1. DeviceOK(u, dev[u]) /\ dev[u] \in Device /\ SameKeys(dev[u], dev'[u]) /\ dev'[u] \in Device /\ ToRead(dev[u])'
          /\ dev[u].state \in State
      BY <1>1 DEF IInv, Devices, DeviceOK, SameKeys, ToRead, Device
    <3>2. ASSUME u = who
          PROVE  /\ op.leaf \in dev[u].bundles /\ op.leaf[2] \notin pool[u]
                 /\ Epoch >= dev[u].state.since /\ (u \in unrevoked \/ Epoch > dev[u].state.epoch)
      <4>1. op.leaf \in dev[u].bundles /\ op.leaf[2] \notin pool[u]
        BY <1>1, <3>1, <3>2 DEF DeviceOK, ClaimOpens
      <4>2. CASE dev[u].state = NoState
        BY <1>3, <4>1, <4>2 DEF NoState
      <4>3. CASE dev[u].state # NoState
        <5>1. /\ dev[u].state.epoch \in DOMAIN epochs /\ dev[u].state.since <= dev[u].state.epoch
              /\ dev[u].state.leaf \in Range(epochs[dev[u].state.epoch])
              /\ dev[u].state.leaf \in Made(u, dev[u]) \ dev[u].bundles
          BY <3>1, <4>3 DEF DeviceOK, StateInTree
        <5>2. ASSUME u \notin unrevoked, dev[u].state.epoch = Epoch PROVE FALSE
          <6>1. dev[u].state.leaf \in Range(epochs[Epoch]) \cap ({u} \X Nat)
            BY <5>1, <5>2 DEF Made
          <6>2. op.leaf \in Range(epochs[Epoch]) \cap ({u} \X Nat)
            BY <1>2, <1>3, <3>2
          <6>3. op.leaf = dev[u].state.leaf
            BY <1>3, <5>2, <6>1, <6>2, SameLeaf DEF IInv
          <6>. QED
            BY <4>1, <5>1, <6>3
        <5>. QED
          BY <1>3, <3>1, <4>1, <5>1, <5>2 DEF State
      <4>. QED
        BY <4>2, <4>3
    <3>3. ClaimOpens(u, dev[u])'
      BY <2>2 DEF ClaimOpens
    <3>4. \A w \in welcomes' \ welcomes : w.to = u =>
           /\ w.leaf \in dev[u].bundles /\ w.leaf[2] \notin pool[u]
           /\ w.epoch >= dev[u].state.since /\ (u \in unrevoked \/ w.epoch > dev[u].state.epoch)
      BY <2>1, <2>3, <3>2
    <3>5. DeviceOK(u, dev[u])'
      BY <1>1, <1>4, <3>1, <3>3, <3>4, DeviceStays
    <3>. QED
      BY <1>1, <3>1, <3>5 DEF Forward, State
  <2>6. Relayed'
    BY <1>1, <1>2, <1>3, <2>1, <2>3 DEF IInv, Relayed, Range
  <2>7. Operating'
    <3>1. \A u : MayJoin(u) => MayJoin(u)'
      BY <1>1 DEF MayJoin, LeavesOf, Tree, Blank
    <3>. QED
      BY <1>1, <1>2, <2>2, <3>1 DEF IInv, Operating
  <2>. QED
    BY <1>4, <2>4, <2>5, <2>6, <2>7 DEF IInv, Keeps, NoneGoesBack, Devices
<1>. QED
  BY <1>5, <1>6

-----------------------------------------------------------------------------
(* The specification *)

LEMMA InitIInv == Init => IInv
<1>. SUFFICES ASSUME Init PROVE IInv
  OBVIOUS
<1>1. /\ roster = {} /\ welcomes = {} /\ log = << >> /\ wire = {} /\ epochs = << >> /\ op = Idle /\ unrevoked = {}
      /\ pool = [u \in Guest |-> IF u \in Away THEN {1} ELSE {}]
  BY DEF Init
<1>2. ASSUME NEW u \in Guest
      PROVE  LET had == IF u \in Away THEN 1 ELSE 0
                 kept == IF u \in Away THEN {<<u, 1>>} ELSE {}
             IN  dev[u] = [at |-> "closed", up |-> FALSE, made |-> had, bundles |-> kept,
                           state |-> NoState, read |-> {}, cursor |-> 0, todo |-> << >>, live |-> {}]
  BY DEF Init
<1>3. NoState \in State
  BY DEF NoState, State, Slot
<1>4. ASSUME NEW u \in Guest
      PROVE  /\ dev[u] \in Device /\ dev[u].state = NoState /\ dev[u].todo = << >> /\ dev[u].live = {}
             /\ dev[u].made = (IF u \in Away THEN 1 ELSE 0)
             /\ dev[u].bundles = (IF u \in Away THEN {<<u, 1>>} ELSE {})
  <2>. DEFINE had == IF u \in Away THEN 1 ELSE 0
              kept == IF u \in Away THEN {<<u, 1>>} ELSE {}
  <2>1. had \in Nat /\ kept \subseteq Leaf
    BY DEF Leaf, User
  <2>2. dev[u] = [at |-> "closed", up |-> FALSE, made |-> had, bundles |-> kept,
                  state |-> NoState, read |-> {}, cursor |-> 0, todo |-> << >>, live |-> {}]
    BY <1>2
  <2>3. << >> \in Seq(Nat)
    OBVIOUS
  <2>4. dev[u].made = had /\ dev[u].bundles = kept /\ dev[u] \in Device /\ dev[u].state = NoState
        /\ dev[u].todo = << >> /\ dev[u].live = {}
    <3>. HIDE DEF had, kept
    <3>. QED
      BY <1>3, <2>1, <2>2, <2>3 DEF Device
  <2>. QED
    BY <2>4
<1>5. TypeOK
  <2>1. dev \in [Guest -> Device]
    <3>1. dev = [u \in Guest |-> dev[u]]
      BY DEF Init
    <3>. QED
      BY <1>4, <3>1
  <2>2. pool \in [Guest -> SUBSET Nat] /\ log \in Seq(Message) /\ epochs \in Seq(RatchetTree)
    BY <1>1
  <2>. QED
    BY <1>1, <2>1, <2>2, IdleOK DEF TypeOK
<1>6. Devices
  <2>. SUFFICES ASSUME NEW u \in Guest PROVE DeviceOK(u, dev[u])
    BY DEF Devices
  <2>1. PoolOpens(u, dev[u])
    <3>1. CASE u \in Away
      <4>1. pool[u] = {1} /\ dev[u].made = 1 /\ dev[u].bundles = {<<u, 1>>}
        BY <1>1, <1>4, <3>1
      <4>. QED
        BY <4>1 DEF PoolOpens, Made
    <3>2. CASE u \notin Away
      <4>1. pool[u] = {} /\ dev[u].bundles = {}
        BY <1>1, <1>4, <3>2
      <4>. QED
        BY <4>1 DEF PoolOpens
    <3>. QED
      BY <3>1, <3>2
  <2>2. WelcomesOpen(u, dev[u]) /\ StateInTree(u, dev[u])
    BY <1>1, <1>4 DEF WelcomesOpen, StateInTree
  <2>3. ClaimOpens(u, dev[u])
    BY <1>1, IdleOK DEF ClaimOpens
  <2>4. ToRead(dev[u])
    <3>1. dev[u].todo = << >> /\ dev[u].live = {}
      BY <1>4
    <3>2. Range(<< >>) = {}
      BY DEF Range
    <3>. QED
      BY <3>1, <3>2, Zenon DEF ToRead
  <2>. QED
    BY <1>4, <2>1, <2>2, <2>3, <2>4 DEF DeviceOK
<1>7. Relayed /\ OneLeaf /\ ReadersAreOnRoster
  BY <1>1 DEF Relayed, OneLeaf, ReadersAreOnRoster, Range
<1>8. Operating
  BY <1>1, IdleOK DEF Operating
<1>. QED
  BY <1>5, <1>6, <1>7, <1>8 DEF IInv

\* One step of the group keeps the invariant and takes no device back.
LEMMA StepKeeps ==
  ASSUME IInv, Next
  PROVE  Keeps
<1>1. CASE NewGroup
  BY <1>1, NewGroupStep
<1>2. CASE OwnerStep
  BY <1>2, CreateGroupStep, ClaimStep, AddToTreeStep, RelayWelcomeStep, SendAddCommitStep,
     SendRemoveCommitStep, RemoveFromRosterStep DEF OwnerStep
<1>3. CASE Abort
  BY <1>3, AbortStep
<1>4. CASE OwnerDrop \/ OwnerReconnect
  BY <1>4, OwnerConnectionStep
<1>5. CASE Handle
  BY <1>5, HandleStep
<1>6. ASSUME NEW u \in Guest, AddToRoster(u) \/ RemoveFromTree(u) \/ ClaimElsewhere(u) \/ Start(u)
      PROVE  Keeps
  BY <1>6, AddToRosterStep, RemoveFromTreeStep, ClaimElsewhereStep, StartStep
<1>7. ASSUME NEW u \in Guest, Connect(u) \/ Resume(u)
      PROVE  Keeps
  BY <1>7, ConnectStep, JoinStep, ListStep, NextInHistoryStep, LiveStep DEF Resume
<1>8. ASSUME NEW u \in Guest, Drop(u) \/ CloseTab(u) \/ Leave(u)
      PROVE  Keeps
  BY <1>8, DropStep, CloseTabStep, LeaveStep
<1>9. ASSUME NEW u \in User, Write(u)
      PROVE  Keeps
  BY <1>9, WriteStep
<1>. QED
  BY <1>1, <1>2, <1>3, <1>4, <1>5, <1>6, <1>7, <1>8, <1>9, Zenon DEF Next

LEMMA StutterKeeps ==
  ASSUME IInv, UNCHANGED vars
  PROVE  Keeps
  BY SmallStep DEF vars, server, IInv, TypeOK

\* The group's state stays well formed whatever the clients and the server do.
THEOREM GroupTypeCorrect == Spec => []TypeOK
<1>1. IInv /\ [Next]_vars => IInv'
  BY StepKeeps, StutterKeeps DEF Keeps
<1>2. IInv => TypeOK
  BY DEF IInv
<1>. QED
  BY InitIInv, <1>1, <1>2, PTL DEF Spec

\* A Welcome in the server's store, and a key package in its pool, is for a device that
\* holds the private half, or is in the group from that epoch on (mls_welcomes,
\* key_packages, processWelcomes of chatClient.ts).
THEOREM WelcomesOpened == Spec => []WelcomeCanBeOpened
<1>1. IInv /\ [Next]_vars => IInv'
  BY StepKeeps, StutterKeeps DEF Keeps
<1>2. IInv => WelcomeCanBeOpened
  <2>. SUFFICES ASSUME IInv PROVE WelcomeCanBeOpened
    OBVIOUS
  <2>1. \A u \in Guest : \A k \in pool[u] : <<u, k>> \in dev[u].bundles
    BY DEF IInv, Devices, DeviceOK, PoolOpens
  <2>2. ASSUME NEW w \in welcomes
        PROVE  w.leaf \in dev[w.to].bundles \/ dev[w.to].state.since >= w.epoch
    <3>1. w.to \in Guest
      BY DEF IInv, TypeOK
    <3>. QED
      BY <3>1 DEF IInv, Devices, DeviceOK, WelcomesOpen
  <2>. QED
    BY <2>1, <2>2 DEF WelcomeCanBeOpened
<1>. QED
  BY InitIInv, <1>1, <1>2, PTL DEF Spec

\* Who has a leaf in the tree that the owner encrypts for is on the server's roster, unless it has
\* left of its own accord or the worker has failed to remove it, which removeGroupMember lets pass
\* (addGroupMember, removeGroupMember, leaveGroup of chatClient.ts).
THEOREM ReadersOnRoster == Spec => []ReadersAreOnRoster
<1>1. IInv /\ [Next]_vars => IInv'
  BY StepKeeps, StutterKeeps DEF Keeps
<1>2. IInv => ReadersAreOnRoster
  BY DEF IInv
<1>. QED
  BY InitIInv, <1>1, <1>2, PTL DEF Spec

\* No retry, late Welcome, reconnection or closed tab takes a device's group state back, but
\* for a member that has left or whose removal has failed (chat.worker.ts, processWelcomes of
\* chatClient.ts).
THEOREM RatchetForward == Spec => RatchetGoesForward
<1>1. IInv /\ [Next]_vars => IInv'
  BY StepKeeps, StutterKeeps DEF Keeps
<1>2. IInv /\ [Next]_vars => [NoneGoesBack]_vars
  BY StepKeeps DEF Keeps, NoneGoesBack
<1>3. [][NoneGoesBack]_vars => RatchetGoesForward
  BY DEF NoneGoesBack, RatchetGoesForward
<1>. QED
  BY InitIInv, <1>1, <1>2, <1>3, PTL DEF Spec

-----------------------------------------------------------------------------
(* Direct messages *)

\* A group of two is the key package it was made with.
Package == {alice, bob} \X Nat
Invite == [to : {alice, bob}, conversation : Dm!Conversation, group : Package, createdAt : Nat]
Number == [conversation : Dm!Conversation, group : Package]
NewChat == [at : {"closed", "idle", "insert", "ensure", "claim", "start", "relay"}, conversation : Nat,
            group : Package \cup {None}, blind : BOOLEAN]
MadeBy(u) == {u} \X (1 .. made[u])

DmTypeOK ==
  /\ conversations \in 0 .. MaxConversations
  /\ kps \in [{alice, bob} -> SUBSET Package] /\ bundles \in [{alice, bob} -> SUBSET Package]
  /\ made \in [{alice, bob} -> 0 .. MaxPackages]
  /\ invites \subseteq Invite /\ \E n \in Nat : \A w \in invites : w.createdAt <= n
  /\ group \in [{alice, bob} -> [Dm!Conversation -> Package \cup {None}]]
  /\ confirmed \in [{alice, bob} -> [Dm!Conversation -> Package \cup {None}]]
  /\ chat \in [{alice, bob} -> NewChat] /\ panel \in [{alice, bob} -> Number \cup {None}]
  /\ unaware \in [Dm!Conversation -> SUBSET {alice, bob}]

\* Whose packages are where, and what newChat holds between two of its answers.
PackagesOK ==
  \A u \in {alice, bob} :
    /\ bundles[u] \subseteq MadeBy(u) /\ kps[u] \subseteq MadeBy(u)
    /\ chat[u].at \in {"start", "relay"} => chat[u].group \in MadeBy(Dm!Peer(u)) \ kps[Dm!Peer(u)]
    /\ chat[u].at \in {"claim", "start"} => chat[u].blind
    /\ chat[u].at \in {"ensure", "claim", "start", "relay"} => chat[u].conversation \in Dm!Conversation

\* The device of u will not come to the group g any more, unless it is in it.
Past(u, g) ==
  /\ g \in MadeBy(alice) \cup MadeBy(bob)
  /\ g \notin bundles[u] /\ g \notin kps[Dm!Peer(u)]
  /\ chat[u].at = "start" => chat[u].group # g

\* What a device holds, shows or has confirmed does not come back once it is replaced.
NumbersArePast ==
  \A u \in {alice, bob} :
    /\ panel[u] # None => Past(u, panel[u].group)
    /\ \A c \in Dm!Conversation :
         /\ group[u][c] # None => Past(u, group[u][c])
         /\ \A v \in {alice, bob} : confirmed[v][c] # None => Past(u, confirmed[v][c])

\* A panel that shows another number than the confirmed one was opened after the confirmed
\* group was replaced.
PanelIsLater ==
  \A u, v \in {alice, bob}, c \in Dm!Conversation :
    confirmed[v][c] # None /\ panel[u] # None /\ panel[u].conversation = c /\ panel[u].group # confirmed[v][c]
      => group[u][c] # confirmed[v][c]

\* Of two different confirmed numbers, one is of a group that neither device has any more.
OneIsOver ==
  \A c \in Dm!Conversation :
    confirmed[alice][c] # None /\ confirmed[bob][c] # None /\ confirmed[alice][c] # confirmed[bob][c] =>
      \E v \in {alice, bob} : \A u \in {alice, bob} : group[u][c] # confirmed[v][c]

\* Who has started a group for c; the other one's device follows until it starts one too.
Follows(u, p, c) ==
  /\ u \in unaware[c] => group[u][c] # None
  /\ chat[u].at = "relay" /\ chat[u].conversation = c => u \in unaware[c]
  /\ \A w \in invites : w.to = u /\ w.conversation = c => p \in unaware[c]
  /\ u \notin unaware[c] =>
       /\ group[u][c] \in {None, group[p][c]}
       /\ p \notin unaware[c] => group[u][c] = None
       /\ \A w \in invites : w.to = u /\ w.conversation = c => w.group = group[p][c]
       /\ chat[p].conversation = c /\ chat[p].at = "relay" => chat[p].group = group[p][c]
       /\ chat[p].conversation = c /\ chat[p].at \in {"claim", "start"} => group[p][c] = None

Following == \A u \in {alice, bob}, c \in Dm!Conversation : Follows(u, Dm!Peer(u), c)

DmInv == DmTypeOK /\ PackagesOK /\ NumbersArePast /\ PanelIsLater /\ OneIsOver /\ Following

LEMMA PeerIs ==
  /\ Dm!Peer(alice) = bob /\ Dm!Peer(bob) = alice /\ alice # bob
  /\ \A u \in {alice, bob} : Dm!Peer(u) \in {alice, bob} /\ Dm!Peer(u) # u /\ Dm!Peer(Dm!Peer(u)) = u
<1>1. alice # bob
  BY PairAssumption
<1>2. Dm!Peer(alice) = bob
  <2>1. \A v \in {alice, bob} : v # alice <=> v = bob
    BY <1>1
  <2>. QED
    BY <2>1, Zenon DEF Dm!Peer
<1>3. Dm!Peer(bob) = alice
  <2>1. \A v \in {alice, bob} : v # bob <=> v = alice
    BY <1>1
  <2>. QED
    BY <2>1, Zenon DEF Dm!Peer
<1>. QED
  BY <1>1, <1>2, <1>3

LEMMA NoPackageIsNone == None \notin Package
  BY PairAssumption DEF Package

\* What a device joins is one of the packages it still has.
Joins(u) ==
  /\ group' \in [{alice, bob} -> [Dm!Conversation -> Package \cup {None}]]
  /\ bundles' \in [{alice, bob} -> SUBSET Package]
  /\ invites' \subseteq invites
  /\ \A v \in {alice, bob} : bundles'[v] \subseteq bundles[v] /\ (v # u => group'[v] = group[v])
  /\ \A c \in Dm!Conversation :
       \/ group'[u][c] = group[u][c]
       \/ \E w \in invites : /\ w.to = u /\ w.conversation = c /\ w.group \in bundles[u] \ bundles'[u]
                            /\ group'[u][c] = w.group

LEMMA JoiningIs ==
  ASSUME DmInv, NEW u \in {alice, bob}, Dm!ProcessWelcomes(u)
  PROVE  Joins(u)
<1>. DEFINE opened == {w \in invites : Dm!Opens(u, w)}
            For(c) == {w \in opened : w.conversation = c}
            new == [c \in Dm!Conversation |-> IF For(c) = {} THEN group[u][c] ELSE Dm!Latest(For(c)).group]
<1>1. /\ group' = [group EXCEPT ![u] = new]
      /\ bundles' = [bundles EXCEPT ![u] = bundles[u] \ {w.group : w \in opened}]
      /\ invites' = invites \ opened
  BY DEF Dm!ProcessWelcomes
<1>2. /\ group \in [{alice, bob} -> [Dm!Conversation -> Package \cup {None}]]
      /\ bundles \in [{alice, bob} -> SUBSET Package] /\ invites \subseteq Invite
      /\ group[u] \in [Dm!Conversation -> Package \cup {None}]
  BY DEF DmInv, DmTypeOK
<1>3. ASSUME NEW W \in SUBSET invites, W # {} PROVE Dm!Latest(W) \in W
  <2>1. PICK n \in Nat : \A w \in invites : w.createdAt <= n
    BY DEF DmInv, DmTypeOK
  <2>. DEFINE ages == {n - w.createdAt : w \in W}
  <2>2. \A w \in W : w.createdAt \in Nat /\ n - w.createdAt \in Nat
    BY <1>2, <2>1 DEF Invite
  <2>3. ages \in SUBSET Nat /\ ages # {}
    BY <1>3, <2>2
  <2>4. PICK x \in ages : \A y \in ages : x <= y
    <3>. HIDE DEF ages
    <3>. QED
      BY <2>3, LeastElement
  <2>5. PICK w \in W : x = n - w.createdAt
    BY <2>4
  <2>6. ASSUME NEW v \in W PROVE v.createdAt <= w.createdAt
    <3>1. n - w.createdAt <= n - v.createdAt
      BY <2>4, <2>5
    <3>. QED
      BY <2>2, <3>1
  <2>. QED
    BY <2>5, <2>6, Zenon DEF Dm!Latest
<1>4. \A w \in opened : w \in invites /\ w.to = u /\ w.group \in bundles[u] /\ w.group \in Package
  BY <1>2 DEF Dm!Opens, Invite
<1>5. \A c \in Dm!Conversation : For(c) # {} => Dm!Latest(For(c)) \in For(c)
  BY <1>3
<1>. HIDE DEF opened
<1>6. new \in [Dm!Conversation -> Package \cup {None}]
  <2>1. \A c \in Dm!Conversation : new[c] \in Package \cup {None}
    BY <1>2, <1>4, <1>5
  <2>. QED
    BY <2>1
<1>7. ASSUME NEW c \in Dm!Conversation, new[c] # group[u][c]
      PROVE  \E w \in opened : w.conversation = c /\ new[c] = w.group
  BY <1>5, <1>7
<1>. HIDE DEF new
<1>8. group' \in [{alice, bob} -> [Dm!Conversation -> Package \cup {None}]] /\ group'[u] = new
      /\ \A v \in {alice, bob} : v # u => group'[v] = group[v]
  BY <1>1, <1>2, <1>6
<1>9. bundles' \in [{alice, bob} -> SUBSET Package] /\ bundles'[u] = bundles[u] \ {w.group : w \in opened}
      /\ \A v \in {alice, bob} : bundles'[v] \subseteq bundles[v]
  BY <1>1, <1>2
<1>. QED
  BY <1>1, <1>4, <1>7, <1>8, <1>9 DEF Joins

\* A package that u has is not past for u, and once opened it is.
LEMMA HeldAreNotPast ==
  ASSUME DmInv, NEW u \in {alice, bob}, NEW g \in bundles[u]
  PROVE  /\ ~ Past(u, g) /\ g \in MadeBy(u) /\ g \notin kps[Dm!Peer(u)]
         /\ chat[u].at = "start" => chat[u].group # g
<1>1. g \in MadeBy(u) /\ Dm!Peer(u) \in {alice, bob} /\ Dm!Peer(u) # u
  BY PeerIs DEF DmInv, PackagesOK
<1>2. g[1] = u /\ \A x \in MadeBy(Dm!Peer(u)) : x[1] # u
  BY <1>1 DEF MadeBy
<1>. QED
  BY <1>1, <1>2 DEF Past, DmInv, PackagesOK

-----------------------------------------------------------------------------
(* Steps of the direct messages *)

PastKept == \A u \in {alice, bob} : \A g : Past(u, g) => Past(u, g)'

\* A device's groups change to what was to come and is past now.
GroupsMove ==
  \A u \in {alice, bob}, c \in Dm!Conversation :
    \/ group'[u][c] = group[u][c]
    \/ ~ Past(u, group'[u][c]) /\ \A g : g = group'[u][c] => Past(u, g)'

LEMMA NumbersStay ==
  ASSUME DmInv, PastKept, GroupsMove, UNCHANGED confirmed,
         \A u \in {alice, bob} : panel'[u] = panel[u] \/ panel'[u] = None
  PROVE  NumbersArePast' /\ PanelIsLater' /\ OneIsOver'
<1>1. NumbersArePast'
  <2>. SUFFICES ASSUME NEW u \in {alice, bob}
                PROVE  /\ panel'[u] # None => Past(u, panel[u].group)'
                       /\ \A c \in Dm!Conversation :
                            /\ group'[u][c] # None => Past(u, group[u][c])'
                            /\ \A v \in {alice, bob} : confirmed'[v][c] # None => Past(u, confirmed[v][c])'
    BY DEF NumbersArePast, Dm!Conversation
  <2>1. ASSUME panel'[u] # None PROVE Past(u, panel[u].group)'
    BY <2>1 DEF DmInv, NumbersArePast, PastKept, Past, MadeBy
  <2>2. ASSUME NEW c \in Dm!Conversation, group'[u][c] # None PROVE Past(u, group[u][c])'
    BY <2>2 DEF DmInv, NumbersArePast, PastKept, GroupsMove, Past, MadeBy
  <2>3. ASSUME NEW c \in Dm!Conversation, NEW v \in {alice, bob}, confirmed'[v][c] # None
        PROVE  Past(u, confirmed[v][c])'
    BY <2>3 DEF DmInv, NumbersArePast, PastKept, Past, MadeBy
  <2>. QED
    BY <2>1, <2>2, <2>3
<1>2. ASSUME NEW u \in {alice, bob}, NEW v \in {alice, bob}, NEW c \in Dm!Conversation,
             confirmed[v][c] # None, group[u][c] # confirmed[v][c]
      PROVE  group'[u][c] # confirmed[v][c]
  BY <1>2 DEF DmInv, NumbersArePast, GroupsMove
<1>3. PanelIsLater'
  <2>1. \A u \in {alice, bob}, v \in {alice, bob}, c \in Dm!Conversation :
          confirmed[v][c] # None /\ panel'[u] # None /\ panel'[u].conversation = c /\ panel'[u].group # confirmed[v][c]
            => group'[u][c] # confirmed[v][c]
    BY <1>2 DEF DmInv, PanelIsLater
  <2>. QED
    BY <2>1 DEF PanelIsLater, Dm!Conversation
<1>4. OneIsOver'
  <2>1. ASSUME NEW c \in Dm!Conversation, confirmed[alice][c] # None, confirmed[bob][c] # None,
               confirmed[alice][c] # confirmed[bob][c]
        PROVE  \E v \in {alice, bob} : \A u \in {alice, bob} : group'[u][c] # confirmed[v][c]
    <3>1. PICK v \in {alice, bob} : \A u \in {alice, bob} : group[u][c] # confirmed[v][c]
      BY <2>1 DEF DmInv, OneIsOver
    <3>2. confirmed[v][c] # None
      BY <2>1
    <3>. QED
      BY <1>2, <3>1, <3>2
  <2>. QED
    BY <2>1 DEF OneIsOver, Dm!Conversation
<1>. QED
  BY <1>1, <1>3, <1>4

\* newChat awaits an answer with which it may start no group.
Harmless(n) == n.at \in {"closed", "idle", "insert"} \/ (n.at = "ensure" /\ n.conversation \in Dm!Conversation)
ChatsStay == \A u \in {alice, bob} : chat'[u] = chat[u] \/ Harmless(chat'[u])

LEMMA FollowingStays ==
  ASSUME DmInv, ChatsStay, UNCHANGED <<group, unaware>>, invites' \subseteq invites
  PROVE  Following'
<1>. SUFFICES ASSUME NEW u \in {alice, bob}, NEW c \in Dm!Conversation PROVE Follows(u, Dm!Peer(u), c)'
  BY DEF Following, Dm!Conversation, Dm!Peer
<1>1. Follows(u, Dm!Peer(u), c) /\ Dm!Peer(u) \in {alice, bob}
  BY PeerIs DEF DmInv, Following
<1>2. PICK p \in {alice, bob} : p = Dm!Peer(u)
  BY <1>1
<1>3. Follows(u, p, c)'
  BY <1>1, <1>2 DEF Follows, ChatsStay, Harmless
<1>. QED
  BY <1>2, <1>3 DEF Follows, Dm!Peer

\* A step that changes no more than where the two clients are, and closes panels.
LEMMA ChatStep ==
  ASSUME DmInv, ChatsStay, chat' \in [{alice, bob} -> NewChat], conversations' \in 0 .. MaxConversations,
         UNCHANGED <<kps, invites, bundles, group, made, confirmed, unaware>>,
         panel' \in [{alice, bob} -> Number \cup {None}],
         \A u \in {alice, bob} : panel'[u] = panel[u] \/ panel'[u] = None
  PROVE  DmInv'
<1>1. DmTypeOK'
  BY DEF DmInv, DmTypeOK, Dm!Conversation, Invite, Number
<1>2. PackagesOK'
  <2>. SUFFICES ASSUME NEW u \in {alice, bob}
                PROVE  /\ bundles[u] \subseteq MadeBy(u) /\ kps[u] \subseteq MadeBy(u)
                       /\ chat'[u].at \in {"start", "relay"} => chat'[u].group \in MadeBy(Dm!Peer(u)) \ kps[Dm!Peer(u)]
                       /\ chat'[u].at \in {"claim", "start"} => chat'[u].blind
                       /\ chat'[u].at \in {"ensure", "claim", "start", "relay"} => chat'[u].conversation \in Dm!Conversation
    BY DEF PackagesOK, MadeBy, Dm!Peer, Dm!Conversation
  <2>. QED
    BY DEF DmInv, PackagesOK, ChatsStay, Harmless
<1>3. PastKept
  <2>. SUFFICES ASSUME NEW u \in {alice, bob}, NEW g, Past(u, g) PROVE Past(u, g)'
    BY DEF PastKept
  <2>. QED
    BY DEF Past, MadeBy, Dm!Peer, ChatsStay, Harmless
<1>4. GroupsMove
  BY DEF GroupsMove
<1>5. NumbersArePast' /\ PanelIsLater' /\ OneIsOver'
  BY <1>3, <1>4, NumbersStay
<1>6. Following'
  BY FollowingStays
<1>. QED
  BY <1>1, <1>2, <1>5, <1>6 DEF DmInv

LEMMA ClosedIs ==
  Dm!Closed \in NewChat /\ Dm!Idle \in NewChat /\ Harmless(Dm!Closed) /\ Harmless(Dm!Idle) /\ Dm!Idle.at = "idle"
<1>1. Dm!Closed \in NewChat /\ Dm!Closed.at = "closed"
  BY DEF Dm!Closed, NewChat
<1>2. Dm!Idle \in NewChat /\ Dm!Idle.at = "idle"
  BY <1>1 DEF Dm!Idle, NewChat
<1>. QED
  BY <1>1, <1>2 DEF Harmless

\* newChat awaits the answer at of the conversation c.
LEMMA AwaitIs ==
  ASSUME DmInv, NEW u \in {alice, bob}, NEW at \in {"insert", "ensure"}, NEW c \in Nat, Dm!Await(u, at, c)
  PROVE  \E n \in NewChat : chat' = [chat EXCEPT ![u] = n] /\ n.at = at /\ n.conversation = c
<1>. DEFINE n == [Dm!Closed EXCEPT !.at = at, !.conversation = c]
<1>1. chat' = [chat EXCEPT ![u] = n]
  BY DEF Dm!Await
<1>2. n \in NewChat /\ n.at = at /\ n.conversation = c
  BY DEF Dm!Closed, NewChat
<1>. QED
  BY <1>1, <1>2, Zenon

\* One client's newChat is now at n.
LEMMA OneChatStep ==
  ASSUME DmInv, NEW u \in {alice, bob}, NEW n \in NewChat, Harmless(n), chat' = [chat EXCEPT ![u] = n],
         conversations' \in 0 .. MaxConversations,
         UNCHANGED <<kps, invites, bundles, group, made, confirmed, unaware>>,
         panel' = panel \/ panel' = [panel EXCEPT ![u] = None]
  PROVE  DmInv'
<1>1. chat \in [{alice, bob} -> NewChat] /\ panel \in [{alice, bob} -> Number \cup {None}]
  BY DEF DmInv, DmTypeOK
<1>2. chat' \in [{alice, bob} -> NewChat] /\ ChatsStay
  BY <1>1 DEF ChatsStay
<1>3. panel' \in [{alice, bob} -> Number \cup {None}] /\ \A v \in {alice, bob} : panel'[v] = panel[v] \/ panel'[v] = None
  BY <1>1
<1>. QED
  BY <1>2, <1>3, ChatStep

LEMMA FindStep ==
  ASSUME DmInv, NEW u \in {alice, bob}, Dm!Find(u)
  PROVE  DmInv'
<1>1. UNCHANGED <<conversations, kps, invites, bundles, group, made, confirmed, unaware, panel>>
  BY DEF Dm!Find, Dm!server, Dm!device, Dm!keys
<1>2. conversations \in 0 .. MaxConversations
  BY DEF DmInv, DmTypeOK
<1>3. PICK n \in NewChat : chat' = [chat EXCEPT ![u] = n] /\ Harmless(n)
  <2>1. CASE conversations = 0
    BY <2>1, AwaitIs DEF Dm!Find, Harmless
  <2>2. CASE conversations # 0
    <3>1. PICK c \in 1 .. conversations : Dm!Await(u, "ensure", c)
      BY <2>2 DEF Dm!Find
    <3>2. c \in Dm!Conversation /\ c \in Nat
      BY <1>2, ConversationsAssumption DEF Dm!Conversation
    <3>. QED
      BY <3>1, <3>2, AwaitIs DEF Harmless
  <2>. QED
    BY <2>1, <2>2
<1>. QED
  BY <1>1, <1>2, <1>3, OneChatStep

LEMMA InsertStep ==
  ASSUME DmInv, NEW u \in {alice, bob}, Dm!Insert(u)
  PROVE  DmInv'
<1>1. UNCHANGED <<kps, invites, bundles, group, made, confirmed, unaware, panel>>
  BY DEF Dm!Insert, Dm!device, Dm!keys
<1>2. conversations' = conversations + 1 /\ conversations < MaxConversations /\ conversations \in 0 .. MaxConversations
  BY DEF Dm!Insert, DmInv, DmTypeOK
<1>3. PICK c \in Nat : c = conversations'
  BY <1>2
<1>4. c \in Dm!Conversation /\ c \in 0 .. MaxConversations
  BY <1>2, <1>3, ConversationsAssumption DEF Dm!Conversation
<1>5. Dm!Await(u, "ensure", c)
  BY <1>3 DEF Dm!Insert, Dm!Await
<1>6. PICK n \in NewChat : chat' = [chat EXCEPT ![u] = n] /\ Harmless(n)
  BY <1>4, <1>5, AwaitIs DEF Harmless
<1>. QED
  BY <1>1, <1>3, <1>4, <1>6, OneChatStep

LEMMA ThrowsStep ==
  ASSUME DmInv, NEW u \in {alice, bob}, Dm!Throws(u) \/ Dm!CloseTab(u)
  PROVE  DmInv'
<1>1. UNCHANGED <<conversations, kps, invites, bundles, group, made, confirmed, unaware>>
      /\ (panel' = panel \/ panel' = [panel EXCEPT ![u] = None])
  BY DEF Dm!Throws, Dm!CloseTab, Dm!server, Dm!device, Dm!keys
<1>2. PICK n \in {Dm!Closed, Dm!Idle} : chat' = [chat EXCEPT ![u] = n]
  BY DEF Dm!Throws, Dm!CloseTab
<1>. QED
  BY <1>1, <1>2, ClosedIs, OneChatStep DEF DmInv, DmTypeOK

\* The client of u processes its Welcomes, or fails to, and goes on to n.
LEMMA DmJoinStep ==
  ASSUME DmInv, NEW u \in {alice, bob}, Joins(u), NEW n \in NewChat, chat' = [chat EXCEPT ![u] = n],
         \/ n = chat[u] \/ Harmless(n)
         \/ n.at = "claim" /\ n.blind /\ n.conversation \in Dm!Conversation /\ group'[u][n.conversation] = None,
         UNCHANGED <<conversations, kps, made, confirmed, unaware, panel>>
  PROVE  DmInv'
<1>1. chat' \in [{alice, bob} -> NewChat] /\ chat'[u] = n /\ \A v \in {alice, bob} : v # u => chat'[v] = chat[v]
  BY DEF DmInv, DmTypeOK
<1>2. DmTypeOK'
  BY <1>1 DEF DmInv, DmTypeOK, Joins, Dm!Conversation, Invite, Number
<1>3. \A v \in {alice, bob} :
        /\ chat'[v].at \in {"start", "relay"} => chat'[v] = chat[v]
        /\ chat'[v].at \in {"claim", "start"} => chat'[v].blind
        /\ chat'[v].at \in {"ensure", "claim", "start", "relay"} => chat'[v].conversation \in Dm!Conversation
  BY <1>1 DEF DmInv, PackagesOK, Harmless
<1>4. PackagesOK'
  <2>. SUFFICES ASSUME NEW v \in {alice, bob}
                PROVE  /\ bundles'[v] \subseteq MadeBy(v) /\ kps[v] \subseteq MadeBy(v)
                       /\ chat'[v].at \in {"start", "relay"} => chat'[v].group \in MadeBy(Dm!Peer(v)) \ kps[Dm!Peer(v)]
    BY <1>3 DEF PackagesOK, MadeBy, Dm!Peer, Dm!Conversation
  <2>. QED
    BY <1>3 DEF DmInv, PackagesOK, Joins
<1>5. PastKept
  <2>. SUFFICES ASSUME NEW v \in {alice, bob}, NEW g, Past(v, g) PROVE Past(v, g)'
    BY DEF PastKept
  <2>. QED
    BY <1>3 DEF Past, MadeBy, Dm!Peer, Joins
<1>6. GroupsMove
  <2>. SUFFICES ASSUME NEW c \in Dm!Conversation, group'[u][c] # group[u][c]
                PROVE  ~ Past(u, group'[u][c]) /\ \A g : g = group'[u][c] => Past(u, g)'
    BY DEF GroupsMove, Joins
  <2>1. PICK w \in invites : w.to = u /\ w.group \in bundles[u] \ bundles'[u] /\ group'[u][c] = w.group
    BY DEF Joins
  <2>2. PICK g : g = w.group
    OBVIOUS
  <2>3. ~ Past(u, g) /\ g \in MadeBy(u) /\ g \notin kps[Dm!Peer(u)] /\ (chat[u].at = "start" => chat[u].group # g)
    BY <2>1, <2>2, HeldAreNotPast
  <2>4. Past(u, g)'
    BY <1>3, <2>1, <2>2, <2>3 DEF Past, MadeBy, Dm!Peer
  <2>. QED
    BY <2>1, <2>2, <2>3, <2>4
<1>7. NumbersArePast' /\ PanelIsLater' /\ OneIsOver'
  BY <1>5, <1>6, NumbersStay
<1>8. Following'
  <2>1. PICK p \in {alice, bob} : p = Dm!Peer(u) /\ p # u /\ Dm!Peer(p) = u
    BY PeerIs
  <2>2. ASSUME NEW c \in Dm!Conversation PROVE Follows(u, p, c)' /\ Follows(p, u, c)'
    <3>1. Follows(u, p, c) /\ Follows(p, u, c)
      BY <2>1 DEF DmInv, Following
    <3>2. chat'[u] = n /\ chat'[p] = chat[p] /\ group'[p] = group[p] /\ invites' \subseteq invites /\ unaware' = unaware
      BY <1>1, <2>1 DEF Joins
    <3>3. \/ group'[u][c] = group[u][c]
          \/ \E w \in invites : w.to = u /\ w.conversation = c /\ group'[u][c] = w.group /\ w.group # None
      BY NoPackageIsNone DEF Joins, DmInv, DmTypeOK, Invite
    <3>4. /\ n.at = "relay" => n = chat[u]
          /\ n.at \in {"claim", "start"} => n = chat[u] \/ group'[u][n.conversation] = None
      BY DEF Harmless
    <3>5. Follows(u, p, c)'
      BY <3>1, <3>2, <3>3, <3>4 DEF Follows
    <3>6. Follows(p, u, c)'
      BY <3>1, <3>2, <3>3, <3>4 DEF Follows
    <3>. QED
      BY <3>5, <3>6
  <2>3. {alice, bob} = {u, p}
    BY <2>1
  <2>4. ASSUME NEW v \in {u, p}, NEW c \in Dm!Conversation PROVE Follows(v, Dm!Peer(v), c)'
    BY <2>1, <2>2 DEF Follows, Dm!Peer
  <2>. QED
    BY <2>3, <2>4 DEF Following, Dm!Conversation
<1>. QED
  BY <1>2, <1>4, <1>7, <1>8 DEF DmInv

LEMMA CatchStep ==
  ASSUME DmInv, NEW u \in {alice, bob}, Dm!Catch(u)
  PROVE  DmInv'
<1>1. Joins(u)
  BY JoiningIs DEF Dm!Catch
<1>2. PICK n \in NewChat : n = chat[u]
  BY DEF DmInv, DmTypeOK
<1>3. chat' = [chat EXCEPT ![u] = n]
  BY <1>2 DEF Dm!Catch, DmInv, DmTypeOK
<1>4. UNCHANGED <<conversations, kps, made, confirmed, unaware, panel>>
  BY DEF Dm!Catch, Dm!keys
<1>. QED
  BY <1>1, <1>2, <1>3, <1>4, DmJoinStep

LEMMA EnsureGroupStep ==
  ASSUME DmInv, NEW u \in {alice, bob}, Dm!EnsureGroup(u)
  PROVE  DmInv'
<1>. DEFINE c == chat[u].conversation
            claim == [chat[u] EXCEPT !.at = "claim", !.blind = TRUE]
<1>1. chat[u].at = "ensure" /\ chat[u] \in NewChat /\ c \in Dm!Conversation /\ chat \in [{alice, bob} -> NewChat]
  BY DEF Dm!EnsureGroup, DmInv, DmTypeOK, PackagesOK
<1>2. UNCHANGED <<conversations, kps, made, confirmed, unaware, panel>>
  BY DEF Dm!EnsureGroup, Dm!keys
<1>3. claim \in NewChat /\ claim.at = "claim" /\ claim.blind /\ claim.conversation = c
  BY <1>1 DEF NewChat
<1>4. Dm!Initiate(u, TRUE) => chat' = [chat EXCEPT ![u] = claim]
  BY <1>1 DEF Dm!Initiate
<1>. HIDE DEF claim
<1>5. CASE group[u][c] # None
  <2>1. chat' = [chat EXCEPT ![u] = Dm!Idle] /\ UNCHANGED <<invites, group, bundles>>
    BY <1>5 DEF Dm!EnsureGroup
  <2>. QED
    BY <1>2, <2>1, ClosedIs, OneChatStep DEF DmInv, DmTypeOK
<1>6. CASE Dm!ProcessWelcomes(u) /\ IF group'[u][c] # None THEN chat' = [chat EXCEPT ![u] = Dm!Idle] ELSE Dm!Initiate(u, TRUE)
  <2>1. Joins(u)
    BY <1>6, JoiningIs
  <2>2. CASE group'[u][c] # None
    BY <1>2, <1>6, <2>1, <2>2, ClosedIs, DmJoinStep
  <2>3. CASE group'[u][c] = None
    BY <1>1, <1>2, <1>3, <1>4, <1>6, <2>1, <2>3, DmJoinStep
  <2>. QED
    BY <2>2, <2>3
<1>7. CASE group[u][c] = None /\ Dm!Initiate(u, TRUE) /\ UNCHANGED <<invites, group, bundles>>
  <2>1. Joins(u)
    BY <1>7 DEF Joins, DmInv, DmTypeOK
  <2>. QED
    BY <1>1, <1>2, <1>3, <1>4, <1>7, <2>1, DmJoinStep
<1>. QED
  BY <1>5, <1>6, <1>7 DEF Dm!EnsureGroup

LEMMA BothFollow ==
  ASSUME NEW u \in {alice, bob}, NEW p \in {alice, bob}, p # u,
         \A c \in Dm!Conversation : Follows(u, p, c)' /\ Follows(p, u, c)'
  PROVE  Following'
<1>1. p = Dm!Peer(u) /\ u = Dm!Peer(p) /\ {alice, bob} = {u, p}
  BY PeerIs
<1>2. ASSUME NEW v \in {u, p}, NEW c \in Dm!Conversation PROVE Follows(v, Dm!Peer(v), c)'
  BY <1>1 DEF Follows, Dm!Peer
<1>. QED
  BY <1>1, <1>2 DEF Following, Dm!Conversation

\* What u and its peer are, and what each knows of the other.
LEMMA PairIs ==
  ASSUME DmInv, NEW u \in {alice, bob}
  PROVE  \E p \in {alice, bob} :
           /\ p = Dm!Peer(u) /\ p # u /\ Dm!Peer(p) = u /\ {alice, bob} = {u, p}
           /\ \A c \in Dm!Conversation : Follows(u, p, c) /\ Follows(p, u, c)
  BY PeerIs DEF DmInv, Following

LEMMA DmClaimStep ==
  ASSUME DmInv, NEW u \in {alice, bob}, Dm!Claim(u)
  PROVE  DmInv'
<1>1. PICK p \in {alice, bob} :
        /\ p = Dm!Peer(u) /\ p # u /\ Dm!Peer(p) = u /\ {alice, bob} = {u, p}
        /\ \A c \in Dm!Conversation : Follows(u, p, c) /\ Follows(p, u, c)
  BY PairIs
<1>2. /\ chat[u].at = "claim" /\ chat[u].blind /\ chat[u].conversation \in Dm!Conversation
      /\ chat \in [{alice, bob} -> NewChat] /\ kps \in [{alice, bob} -> SUBSET Package]
      /\ UNCHANGED <<conversations, invites, bundles, group, made, panel, confirmed, unaware>>
  BY DEF Dm!Claim, Dm!device, Dm!keys, DmInv, DmTypeOK, PackagesOK
<1>3. CASE kps[p] = {}
  <2>1. chat' = [chat EXCEPT ![u] = Dm!Idle] /\ UNCHANGED kps
    BY <1>1, <1>3 DEF Dm!Claim
  <2>. QED
    BY <1>2, <2>1, ClosedIs, OneChatStep DEF DmInv, DmTypeOK
<1>4. CASE kps[p] # {}
  <2>. DEFINE k == Dm!Min({x[2] : x \in kps[p]})
              claimed == <<p, k>>
              n == [chat[u] EXCEPT !.at = "start", !.group = claimed]
  <2>1. kps' = [kps EXCEPT ![p] = kps[p] \ {claimed}] /\ chat' = [chat EXCEPT ![u] = n]
    BY <1>1, <1>2, <1>4 DEF Dm!Claim
  <2>2. claimed \in kps[p] /\ claimed \in MadeBy(p) /\ claimed \in Package
    <3>. DEFINE numbers == {x[2] : x \in kps[p]}
    <3>1. \A x \in kps[p] : x = <<p, x[2]>> /\ x[2] \in Nat /\ x \in MadeBy(p)
      BY DEF DmInv, PackagesOK, MadeBy
    <3>2. numbers \in SUBSET Nat /\ numbers # {}
      BY <1>4, <3>1
    <3>3. k = Min(numbers)
      BY DEF Dm!Min, Min
    <3>4. k \in numbers
      <4>. HIDE DEF numbers, k
      <4>. QED
        BY <3>2, <3>3, MinIs
    <3>5. PICK x \in kps[p] : k = x[2]
      BY <3>4
    <3>. QED
      BY <1>2, <3>1, <3>5
  <2>. HIDE DEF claimed
  <2>3. n \in NewChat /\ n.at = "start" /\ n.blind /\ n.conversation = chat[u].conversation /\ n.group = claimed
    BY <1>2, <2>2 DEF NewChat
  <2>. HIDE DEF n
  <2>4. /\ chat' \in [{alice, bob} -> NewChat] /\ chat'[u] = n /\ chat'[p] = chat[p]
        /\ kps' \in [{alice, bob} -> SUBSET Package] /\ kps'[p] = kps[p] \ {claimed} /\ kps'[u] = kps[u]
    BY <1>1, <1>2, <2>1, <2>3
  <2>5. DmTypeOK'
    BY <1>2, <2>4 DEF DmInv, DmTypeOK, Dm!Conversation, Invite, Number
  <2>6. PackagesOK'
    <3>. SUFFICES ASSUME NEW v \in {u, p}
                  PROVE  /\ bundles[v] \subseteq MadeBy(v) /\ kps'[v] \subseteq MadeBy(v)
                         /\ chat'[v].at \in {"start", "relay"} => chat'[v].group \in MadeBy(Dm!Peer(v)) \ kps'[Dm!Peer(v)]
                         /\ chat'[v].at \in {"claim", "start"} => chat'[v].blind
                         /\ chat'[v].at \in {"ensure", "claim", "start", "relay"} => chat'[v].conversation \in Dm!Conversation
      BY <1>1, <1>2 DEF PackagesOK, MadeBy, Dm!Peer, Dm!Conversation
    <3>. QED
      BY <1>1, <1>2, <2>2, <2>3, <2>4 DEF DmInv, PackagesOK
  <2>7. PastKept
    <3>. SUFFICES ASSUME NEW v \in {u, p}, NEW g, Past(v, g) PROVE Past(v, g)'
      BY <1>1 DEF PastKept
    <3>. QED
      BY <1>1, <1>2, <2>2, <2>3, <2>4 DEF Past, MadeBy, Dm!Peer
  <2>8. NumbersArePast' /\ PanelIsLater' /\ OneIsOver'
    BY <1>2, <2>7, NumbersStay DEF GroupsMove
  <2>9. Following'
    <3>1. ASSUME NEW c \in Dm!Conversation PROVE Follows(u, p, c)' /\ Follows(p, u, c)'
      BY <1>1, <1>2, <2>3, <2>4 DEF Follows
    <3>. QED
      BY <1>1, <3>1, BothFollow
  <2>. QED
    BY <2>5, <2>6, <2>8, <2>9 DEF DmInv
<1>. QED
  BY <1>3, <1>4

\* worker startDm: the starter's device comes to a group of the peer's package.
LEMMA StartDmStep ==
  ASSUME DmInv, NEW u \in {alice, bob}, Dm!StartDm(u)
  PROVE  DmInv'
<1>. DEFINE c0 == chat[u].conversation
            g0 == chat[u].group
            n == [chat[u] EXCEPT !.at = "relay", !.blind = FALSE]
<1>1. PICK p \in {alice, bob} :
        /\ p = Dm!Peer(u) /\ p # u /\ Dm!Peer(p) = u /\ {alice, bob} = {u, p}
        /\ \A c \in Dm!Conversation : Follows(u, p, c) /\ Follows(p, u, c)
  BY PairIs
<1>2. /\ chat[u].at = "start" /\ chat[u].blind /\ c0 \in Dm!Conversation /\ g0 \in MadeBy(p) \ kps[p]
      /\ chat \in [{alice, bob} -> NewChat] /\ unaware \in [Dm!Conversation -> SUBSET {alice, bob}]
      /\ group \in [{alice, bob} -> [Dm!Conversation -> Package \cup {None}]]
      /\ UNCHANGED <<conversations, kps, invites, bundles, made, panel, confirmed>>
  BY <1>1 DEF Dm!StartDm, Dm!server, Dm!keys, DmInv, DmTypeOK, PackagesOK
<1>3. g0 \in Package /\ g0 # None /\ g0[1] = p
  BY <1>2, NoPackageIsNone DEF Package, MadeBy
<1>4. /\ group' = [group EXCEPT ![u] = [group[u] EXCEPT ![c0] = g0]]
      /\ chat' = [chat EXCEPT ![u] = n]
      /\ unaware' = [unaware EXCEPT ![c0] = unaware[c0] \cup {u}]
  BY <1>2 DEF Dm!StartDm
<1>5. n \in NewChat /\ n.at = "relay" /\ n.conversation = c0 /\ n.group = g0
  BY <1>2 DEF NewChat
<1>. HIDE DEF n
<1>6. /\ chat' \in [{alice, bob} -> NewChat] /\ chat'[u] = n /\ chat'[p] = chat[p]
      /\ group' \in [{alice, bob} -> [Dm!Conversation -> Package \cup {None}]]
      /\ group'[p] = group[p] /\ group'[u][c0] = g0
      /\ \A c \in Dm!Conversation : c # c0 => group'[u][c] = group[u][c]
      /\ unaware' \in [Dm!Conversation -> SUBSET {alice, bob}]
      /\ unaware'[c0] = unaware[c0] \cup {u} /\ \A c \in Dm!Conversation : c # c0 => unaware'[c] = unaware[c]
  BY <1>1, <1>2, <1>3, <1>4, <1>5
<1>7. DmTypeOK'
  BY <1>2, <1>6 DEF DmInv, DmTypeOK, Dm!Conversation, Invite, Number
<1>8. PackagesOK'
  <2>. SUFFICES ASSUME NEW v \in {u, p}
                PROVE  /\ bundles[v] \subseteq MadeBy(v) /\ kps[v] \subseteq MadeBy(v)
                       /\ chat'[v].at \in {"start", "relay"} => chat'[v].group \in MadeBy(Dm!Peer(v)) \ kps[Dm!Peer(v)]
                       /\ chat'[v].at \in {"claim", "start"} => chat'[v].blind
                       /\ chat'[v].at \in {"ensure", "claim", "start", "relay"} => chat'[v].conversation \in Dm!Conversation
    BY <1>1, <1>2 DEF PackagesOK, MadeBy, Dm!Peer, Dm!Conversation
  <2>. QED
    BY <1>1, <1>2, <1>5, <1>6 DEF DmInv, PackagesOK
<1>9. PastKept
  <2>. SUFFICES ASSUME NEW v \in {u, p}, NEW g, Past(v, g) PROVE Past(v, g)'
    BY <1>1 DEF PastKept
  <2>. QED
    BY <1>1, <1>2, <1>5, <1>6 DEF Past, MadeBy, Dm!Peer
<1>10. GroupsMove
  <2>. SUFFICES ~ Past(u, g0) /\ \A g : g = g0 => Past(u, g)'
    BY <1>1, <1>6 DEF GroupsMove
  <2>1. ~ Past(u, g0)
    BY <1>2 DEF Past
  <2>2. PICK g : g = g0
    OBVIOUS
  <2>3. g \notin bundles[u]
    BY <1>1, <1>3, <2>2 DEF DmInv, PackagesOK, MadeBy
  <2>4. Past(u, g)'
    BY <1>1, <1>2, <1>5, <1>6, <2>2, <2>3 DEF Past, MadeBy, Dm!Peer
  <2>. QED
    BY <2>1, <2>2, <2>4
<1>11. NumbersArePast' /\ PanelIsLater' /\ OneIsOver'
  BY <1>2, <1>9, <1>10, NumbersStay
<1>12. Following'
  <2>1. ASSUME NEW c \in Dm!Conversation, c # c0 PROVE Follows(u, p, c)' /\ Follows(p, u, c)'
    BY <1>1, <1>2, <1>5, <1>6, <2>1 DEF Follows
  <2>2. Follows(u, p, c0) /\ Follows(p, u, c0)
    BY <1>1, <1>2
  <2>3. \A c : c = c0 => Follows(u, p, c)'
    BY <1>1, <1>2, <1>3, <1>5, <1>6, <2>2 DEF Follows
  <2>4. \A c : c = c0 => Follows(p, u, c)'
    BY <1>1, <1>2, <1>3, <1>5, <1>6, <2>2 DEF Follows
  <2>. QED
    BY <1>1, <2>1, <2>3, <2>4, BothFollow
<1>. QED
  BY <1>7, <1>8, <1>11, <1>12 DEF DmInv

\* The operators on sets that DirectMessages uses are those of this module.
LEMMA DmCardinalityIs == \A S : Dm!Cardinality(S) = Cardinality(S)
  BY Zenon DEF Dm!Cardinality, Cardinality

LEMMA DmMaxIs ==
  ASSUME NEW S \in SUBSET Nat, S # {}, NEW n \in Nat, \A x \in S : x <= n
  PROVE  Dm!Max(S) \in S
<1>. DEFINE D == {n - x : x \in S}
<1>1. D \in SUBSET Nat /\ D # {}
  <2>1. \A x \in S : n - x \in Nat
    OBVIOUS
  <2>. QED
    BY <2>1
<1>2. PICK d \in D : \A y \in D : d <= y
  <2>. HIDE DEF D
  <2>. QED
    BY <1>1, LeastElement
<1>3. PICK x \in S : d = n - x
  BY <1>2
<1>4. \A y \in S : x >= y
  <2>. SUFFICES ASSUME NEW y \in S PROVE x >= y
    OBVIOUS
  <2>1. n - x <= n - y /\ x \in Nat /\ y \in Nat
    BY <1>2, <1>3
  <2>. QED
    BY <2>1
<1>. QED
  BY <1>3, <1>4, Zenon DEF Dm!Max

LEMMA DmRelayWelcomeStep ==
  ASSUME DmInv, NEW u \in {alice, bob}, Dm!RelayWelcome(u)
  PROVE  DmInv'
<1>. DEFINE c0 == chat[u].conversation
            g0 == chat[u].group
            ages == {0} \cup {w.createdAt : w \in invites}
            w0 == [to |-> Dm!Peer(u), conversation |-> c0, group |-> g0, createdAt |-> 1 + Dm!Max(ages)]
<1>1. PICK p \in {alice, bob} :
        /\ p = Dm!Peer(u) /\ p # u /\ Dm!Peer(p) = u /\ {alice, bob} = {u, p}
        /\ \A c \in Dm!Conversation : Follows(u, p, c) /\ Follows(p, u, c)
  BY PairIs
<1>2. /\ chat[u].at = "relay" /\ c0 \in Dm!Conversation /\ g0 \in MadeBy(p) /\ g0 \in Package
      /\ chat \in [{alice, bob} -> NewChat] /\ invites \subseteq Invite
      /\ chat' = [chat EXCEPT ![u] = Dm!Idle] /\ invites' = invites \cup {w0}
      /\ UNCHANGED <<conversations, kps, bundles, group, made, panel, confirmed, unaware>>
  BY <1>1 DEF Dm!RelayWelcome, Dm!device, Dm!keys, DmInv, DmTypeOK, PackagesOK, MadeBy, Package
<1>3. PICK n \in Nat : \A w \in invites : w.createdAt <= n
  BY DEF DmInv, DmTypeOK
<1>4. Dm!Max(ages) \in Nat /\ Dm!Max(ages) <= n
  <2>1. ages \in SUBSET Nat /\ ages # {} /\ \A x \in ages : x <= n
    BY <1>2, <1>3 DEF Invite
  <2>2. Dm!Max(ages) \in ages
    <3>. HIDE DEF ages
    <3>. QED
      BY <2>1, DmMaxIs
  <2>. QED
    BY <2>1, <2>2
<1>. HIDE DEF ages
<1>5. w0 \in Invite /\ w0.to = p /\ w0.conversation = c0 /\ w0.group = g0 /\ w0.createdAt <= n + 1
  BY <1>1, <1>2, <1>4 DEF Invite
<1>. HIDE DEF w0
<1>6. /\ chat' \in [{alice, bob} -> NewChat] /\ chat'[u] = Dm!Idle /\ chat'[p] = chat[p]
      /\ Dm!Idle.at = "idle"
  BY <1>1, <1>2, ClosedIs
<1>7. DmTypeOK'
  <2>1. invites' \subseteq Invite /\ \A w \in invites' : w.createdAt <= n + 1
    BY <1>2, <1>3, <1>5 DEF Invite
  <2>2. \E m \in Nat : \A w \in invites' : w.createdAt <= m
    BY <2>1
  <2>. QED
    BY <1>2, <1>6, <2>1, <2>2 DEF DmInv, DmTypeOK, Dm!Conversation, Invite, Number
<1>8. PackagesOK'
  <2>. SUFFICES ASSUME NEW v \in {u, p}
                PROVE  /\ bundles[v] \subseteq MadeBy(v) /\ kps[v] \subseteq MadeBy(v)
                       /\ chat'[v].at \in {"start", "relay"} => chat'[v].group \in MadeBy(Dm!Peer(v)) \ kps[Dm!Peer(v)]
                       /\ chat'[v].at \in {"claim", "start"} => chat'[v].blind
                       /\ chat'[v].at \in {"ensure", "claim", "start", "relay"} => chat'[v].conversation \in Dm!Conversation
    BY <1>1, <1>2 DEF PackagesOK, MadeBy, Dm!Peer, Dm!Conversation
  <2>. QED
    BY <1>1, <1>6 DEF DmInv, PackagesOK
<1>9. PastKept
  <2>. SUFFICES ASSUME NEW v \in {u, p}, NEW g, Past(v, g) PROVE Past(v, g)'
    BY <1>1 DEF PastKept
  <2>. QED
    BY <1>1, <1>2, <1>6 DEF Past, MadeBy, Dm!Peer
<1>10. NumbersArePast' /\ PanelIsLater' /\ OneIsOver'
  BY <1>2, <1>9, NumbersStay DEF GroupsMove
<1>11. Following'
  <2>1. ASSUME NEW c \in Dm!Conversation PROVE Follows(u, p, c)' /\ Follows(p, u, c)'
    BY <1>1, <1>2, <1>5, <1>6 DEF Follows
  <2>. QED
    BY <1>1, <2>1, BothFollow
<1>. QED
  BY <1>7, <1>8, <1>10, <1>11 DEF DmInv

\* start makes the packages the pool lacks, none it has made before.
LEMMA OpenTabStep ==
  ASSUME DmInv, NEW u \in {alice, bob}, Dm!OpenTab(u)
  PROVE  DmInv'
<1>. DEFINE lacks == Dm!Max({Target - Cardinality(kps[u]), 0})
            rest == MaxPackages - made[u]
            need == Dm!Min({lacks, rest})
            fresh == {<<u, k>> : k \in made[u] + 1 .. made[u] + need}
<1>1. /\ kps \in [{alice, bob} -> SUBSET Package] /\ bundles \in [{alice, bob} -> SUBSET Package]
      /\ made \in [{alice, bob} -> 0 .. MaxPackages] /\ chat \in [{alice, bob} -> NewChat]
      /\ UNCHANGED <<conversations, invites, group, panel, confirmed, unaware>>
  BY DEF Dm!OpenTab, Dm!keys, DmInv, DmTypeOK
<1>2. /\ kps' = [kps EXCEPT ![u] = kps[u] \cup fresh] /\ bundles' = [bundles EXCEPT ![u] = bundles[u] \cup fresh]
      /\ made' = [made EXCEPT ![u] = made[u] + need] /\ chat' = [chat EXCEPT ![u] = Dm!Idle]
  BY DmCardinalityIs, Zenon DEF Dm!OpenTab
<1>3. made[u] \in Nat /\ made[u] <= MaxPackages /\ MaxPackages \in Nat /\ Target \in Nat
  BY <1>1, BoundAssumption
<1>4. Cardinality(kps[u]) \in Nat
  <2>1. IsFiniteSet({u} \X (1 .. made[u]))
    <3>1. IsFiniteSet(1 .. made[u])
      BY <1>3, FS_Interval
    <3>2. IsFiniteSet({u})
      BY FS_Singleton
    <3>. QED
      BY <3>1, <3>2, FS_Product, Zenon
  <2>2. IsFiniteSet(kps[u])
    BY <2>1, FS_Subset DEF DmInv, PackagesOK, MadeBy
  <2>. QED
    BY <2>2, FS_CardinalityType
<1>5. need \in Nat /\ need <= rest
  <2>1. lacks \in Nat
    <3>1. \E x \in {Target - Cardinality(kps[u]), 0} : \A y \in {Target - Cardinality(kps[u]), 0} : x >= y
      BY <1>3, <1>4
    <3>2. lacks \in {Target - Cardinality(kps[u]), 0} /\ lacks >= 0
      BY <3>1 DEF Dm!Max
    <3>. QED
      BY <1>3, <1>4, <3>2
  <2>2. rest \in Nat
    BY <1>3
  <2>. HIDE DEF lacks, rest
  <2>3. \E x \in {lacks, rest} : \A y \in {lacks, rest} : x <= y
    BY <2>1, <2>2
  <2>4. need \in {lacks, rest} /\ need <= rest
    BY <2>3 DEF Dm!Min
  <2>. QED
    BY <2>1, <2>2, <2>4
<1>. HIDE DEF need
<1>6. fresh \subseteq Package /\ fresh \subseteq {u} \X (1 .. made[u] + need) /\ \A v \in {alice, bob} : fresh \cap MadeBy(v) = {}
  BY <1>1, <1>3, <1>5 DEF MadeBy, Package
<1>. HIDE DEF fresh
<1>7. /\ kps' \in [{alice, bob} -> SUBSET Package] /\ bundles' \in [{alice, bob} -> SUBSET Package]
      /\ kps'[u] = kps[u] \cup fresh /\ bundles'[u] = bundles[u] \cup fresh
      /\ made' \in [{alice, bob} -> 0 .. MaxPackages] /\ made'[u] = made[u] + need
      /\ chat' \in [{alice, bob} -> NewChat] /\ chat'[u] = Dm!Idle /\ Dm!Idle.at = "idle"
      /\ \A v \in {alice, bob} : v # u => kps'[v] = kps[v] /\ bundles'[v] = bundles[v] /\ made'[v] = made[v] /\ chat'[v] = chat[v]
  BY <1>1, <1>2, <1>3, <1>5, <1>6, ClosedIs
<1>8. DmTypeOK'
  BY <1>1, <1>7 DEF DmInv, DmTypeOK, Dm!Conversation, Invite, Number
<1>9. \A v \in {alice, bob} :
        /\ MadeBy(v) \subseteq {v} \X (1 .. made'[v])
        /\ bundles'[v] \subseteq {v} \X (1 .. made'[v]) /\ kps'[v] \subseteq {v} \X (1 .. made'[v])
        /\ bundles'[v] \cap MadeBy(alice) \subseteq bundles[v] /\ bundles'[v] \cap MadeBy(bob) \subseteq bundles[v]
        /\ kps'[v] \cap MadeBy(alice) \subseteq kps[v] /\ kps'[v] \cap MadeBy(bob) \subseteq kps[v]
        /\ chat'[v].at \in {"start", "relay", "claim", "ensure"} => chat'[v] = chat[v]
  <2>. SUFFICES ASSUME NEW v \in {alice, bob}
                PROVE  /\ MadeBy(v) \subseteq {v} \X (1 .. made'[v])
                       /\ bundles'[v] \subseteq {v} \X (1 .. made'[v]) /\ kps'[v] \subseteq {v} \X (1 .. made'[v])
                       /\ bundles'[v] \cap MadeBy(alice) \subseteq bundles[v] /\ bundles'[v] \cap MadeBy(bob) \subseteq bundles[v]
                       /\ kps'[v] \cap MadeBy(alice) \subseteq kps[v] /\ kps'[v] \cap MadeBy(bob) \subseteq kps[v]
                       /\ chat'[v].at \in {"start", "relay", "claim", "ensure"} => chat'[v] = chat[v]
    OBVIOUS
  <2>1. MadeBy(v) \subseteq {v} \X (1 .. made'[v])
    BY <1>1, <1>3, <1>5, <1>7 DEF MadeBy
  <2>2. bundles[v] \subseteq MadeBy(v) /\ kps[v] \subseteq MadeBy(v)
    BY DEF DmInv, PackagesOK
  <2>3. CASE v = u
    BY <1>6, <1>7, <2>1, <2>2, <2>3
  <2>4. CASE v # u
    BY <1>7, <2>1, <2>2, <2>4
  <2>. QED
    BY <2>3, <2>4
<1>10. PackagesOK'
  <2>. SUFFICES ASSUME NEW v \in {alice, bob}
                PROVE  /\ bundles'[v] \subseteq {v} \X (1 .. made'[v]) /\ kps'[v] \subseteq {v} \X (1 .. made'[v])
                       /\ chat'[v].at \in {"start", "relay"} =>
                            chat'[v].group \in ({Dm!Peer(v)} \X (1 .. made'[Dm!Peer(v)])) \ kps'[Dm!Peer(v)]
                       /\ chat'[v].at \in {"claim", "start"} => chat'[v].blind
                       /\ chat'[v].at \in {"ensure", "claim", "start", "relay"} => chat'[v].conversation \in Dm!Conversation
    BY DEF PackagesOK, MadeBy, Dm!Peer, Dm!Conversation
  <2>. QED
    BY <1>9, PeerIs DEF DmInv, PackagesOK
<1>11. PastKept
  <2>. SUFFICES ASSUME NEW v \in {alice, bob}, NEW g, Past(v, g) PROVE Past(v, g)'
    BY DEF PastKept
  <2>. PICK p \in {alice, bob} : p = Dm!Peer(v)
    BY PeerIs
  <2>1. g \in MadeBy(alice) \cup MadeBy(bob) /\ g \notin bundles[v] /\ g \notin kps[p]
        /\ (chat[v].at = "start" => chat[v].group # g)
    BY DEF Past
  <2>2. g \in ({alice} \X (1 .. made'[alice])) \cup ({bob} \X (1 .. made'[bob])) /\ g \notin bundles'[v] /\ g \notin kps'[p]
        /\ (chat'[v].at = "start" => chat'[v].group # g)
    BY <1>9, <2>1
  <2>. QED
    BY <2>2 DEF Past, MadeBy, Dm!Peer
<1>12. NumbersArePast' /\ PanelIsLater' /\ OneIsOver'
  BY <1>1, <1>11, NumbersStay DEF GroupsMove
<1>13. Following'
  BY <1>1, <1>7, FollowingStays DEF ChatsStay, Harmless
<1>. QED
  BY <1>8, <1>10, <1>12, <1>13 DEF DmInv

\* What the panel of u shows of the conversation c.
LEMMA ShownIs ==
  ASSUME DmInv, NEW u \in {alice, bob}, NEW c \in Dm!Conversation
  PROVE  /\ Dm!Shown(u, c) \in Number \cup {None}
         /\ Dm!Shown(u, c) # None =>
              /\ Dm!Shown(u, c).conversation = c /\ Dm!Shown(u, c).group = group[u][c] /\ Past(u, group[u][c])
<1>1. group[u][c] \in Package \cup {None} /\ (group[u][c] # None => Past(u, group[u][c]))
  BY DEF DmInv, DmTypeOK, NumbersArePast
<1>2. CASE group[u][c] = None
  BY <1>2 DEF Dm!Shown
<1>3. CASE group[u][c] # None
  <2>1. Dm!Shown(u, c) = [conversation |-> c, group |-> group[u][c]]
    BY <1>3 DEF Dm!Shown
  <2>. QED
    BY <1>1, <1>3, <2>1 DEF Number
<1>. QED
  BY <1>2, <1>3

\* A step of the panels and the confirmed numbers alone.
LEMMA KeysStep ==
  ASSUME DmInv, UNCHANGED <<conversations, kps, invites, bundles, group, made, chat, unaware>>,
         panel' \in [{alice, bob} -> Number \cup {None}],
         confirmed' \in [{alice, bob} -> [Dm!Conversation -> Package \cup {None}]]
  PROVE  /\ DmTypeOK' /\ PackagesOK' /\ Following'
         /\ \A u \in {alice, bob} : \A g : Past(u, g) => Past(u, g)'
<1>1. DmTypeOK'
  BY DEF DmInv, DmTypeOK, Dm!Conversation, Invite, Number
<1>2. PackagesOK'
  BY DEF DmInv, PackagesOK, MadeBy, Dm!Peer, Dm!Conversation
<1>3. Following'
  BY FollowingStays DEF ChatsStay
<1>4. ASSUME NEW u \in {alice, bob}, NEW g, Past(u, g) PROVE Past(u, g)'
  BY <1>4 DEF Past, MadeBy, Dm!Peer
<1>. QED
  BY <1>1, <1>2, <1>3, <1>4

LEMMA ShowKeysStep ==
  ASSUME DmInv, NEW u \in {alice, bob}, Dm!ShowKeys(u)
  PROVE  DmInv'
<1>1. UNCHANGED <<conversations, kps, invites, bundles, group, made, chat, confirmed, unaware>>
  BY DEF Dm!ShowKeys, Dm!server, Dm!device
<1>2. PICK c \in Dm!Conversation : panel' = [panel EXCEPT ![u] = IF panel[u] = None THEN Dm!Shown(u, c) ELSE None]
  BY DEF Dm!ShowKeys
<1>3. /\ panel \in [{alice, bob} -> Number \cup {None}]
      /\ confirmed \in [{alice, bob} -> [Dm!Conversation -> Package \cup {None}]]
  BY DEF DmInv, DmTypeOK
<1>4. /\ panel' \in [{alice, bob} -> Number \cup {None}]
      /\ panel'[u] = None \/ panel'[u] = Dm!Shown(u, c)
      /\ \A v \in {alice, bob} : v # u => panel'[v] = panel[v]
  BY <1>2, <1>3, ShownIs
<1>5. /\ DmTypeOK' /\ PackagesOK' /\ Following'
      /\ \A v \in {alice, bob} : \A g : Past(v, g) => Past(v, g)'
  BY <1>1, <1>3, <1>4, KeysStep
<1>6. NumbersArePast'
  <2>. SUFFICES ASSUME NEW v \in {alice, bob}
                PROVE  /\ panel'[v] # None => Past(v, panel[v].group)'
                       /\ \A d \in Dm!Conversation :
                            /\ group[v][d] # None => Past(v, group[v][d])'
                            /\ \A x \in {alice, bob} : confirmed[x][d] # None => Past(v, confirmed[x][d])'
    BY <1>1 DEF NumbersArePast, Dm!Conversation
  <2>1. ASSUME panel'[v] # None PROVE Past(v, panel[v].group)'
    <3>1. PICK g : g = panel'[v].group
      OBVIOUS
    <3>2. Past(v, g)
      BY <1>4, <2>1, <3>1, ShownIs DEF DmInv, NumbersArePast
    <3>3. Past(v, g)'
      BY <1>5, <3>2
    <3>. QED
      BY <3>1, <3>3 DEF Past, MadeBy
  <2>2. ASSUME NEW d \in Dm!Conversation, group[v][d] # None PROVE Past(v, group[v][d])'
    BY <1>1, <1>5, <2>2 DEF DmInv, NumbersArePast, Past, MadeBy
  <2>3. ASSUME NEW d \in Dm!Conversation, NEW x \in {alice, bob}, confirmed[x][d] # None
        PROVE  Past(v, confirmed[x][d])'
    BY <1>1, <1>5, <2>3 DEF DmInv, NumbersArePast, Past, MadeBy
  <2>. QED
    BY <2>1, <2>2, <2>3
<1>7. PanelIsLater'
  <2>1. \A v, x \in {alice, bob}, d \in Dm!Conversation :
          confirmed[x][d] # None /\ panel'[v] # None /\ panel'[v].conversation = d /\ panel'[v].group # confirmed[x][d]
            => group[v][d] # confirmed[x][d]
    BY <1>4, ShownIs DEF DmInv, PanelIsLater
  <2>. QED
    BY <1>1, <2>1 DEF PanelIsLater, Dm!Conversation
<1>8. OneIsOver'
  BY <1>1 DEF DmInv, OneIsOver, Dm!Conversation
<1>. QED
  BY <1>5, <1>6, <1>7, <1>8 DEF DmInv

\* Both panels show the number that is confirmed: whoever has another number by now has it
\* since before, and its group is gone on both devices.
LEMMA ConfirmStep ==
  ASSUME DmInv, NEW u \in {alice, bob}, Dm!Confirm(u)
  PROVE  DmInv'
<1>. DEFINE c == panel[u].conversation
            g == panel[u].group
<1>1. PICK p \in {alice, bob} : p = Dm!Peer(u) /\ p # u /\ {alice, bob} = {u, p}
  BY PairIs
<1>2. /\ UNCHANGED <<conversations, kps, invites, bundles, group, made, chat, unaware>>
      /\ panel[u] # None /\ panel[p] = panel[u]
      /\ confirmed' = [confirmed EXCEPT ![u] = [confirmed[u] EXCEPT ![c] = g]]
      /\ panel' = [panel EXCEPT ![u] = Dm!Shown(u, c)]
  BY <1>1 DEF Dm!Confirm, Dm!NumbersMatch, Dm!server, Dm!device
<1>3. /\ panel \in [{alice, bob} -> Number \cup {None}] /\ c \in Dm!Conversation /\ g \in Package /\ g # None
      /\ confirmed \in [{alice, bob} -> [Dm!Conversation -> Package \cup {None}]]
  BY <1>2, NoPackageIsNone DEF DmInv, DmTypeOK, Number
<1>4. /\ panel' \in [{alice, bob} -> Number \cup {None}] /\ panel'[u] = Dm!Shown(u, c) /\ panel'[p] = panel[p]
      /\ confirmed' \in [{alice, bob} -> [Dm!Conversation -> Package \cup {None}]]
      /\ confirmed'[u][c] = g /\ confirmed'[p] = confirmed[p]
      /\ \A d \in Dm!Conversation : d # c => confirmed'[u][d] = confirmed[u][d]
  BY <1>1, <1>2, <1>3, ShownIs
<1>5. /\ DmTypeOK' /\ PackagesOK' /\ Following'
      /\ \A v \in {alice, bob} : \A h : Past(v, h) => Past(v, h)'
  BY <1>2, <1>4, KeysStep
<1>6. \A v \in {alice, bob} : Past(v, g)
  BY <1>1, <1>2 DEF DmInv, NumbersArePast
<1>7. NumbersArePast'
  <2>. SUFFICES ASSUME NEW v \in {alice, bob}
                PROVE  /\ panel'[v] # None => Past(v, panel[v].group)'
                       /\ \A d \in Dm!Conversation :
                            /\ group[v][d] # None => Past(v, group[v][d])'
                            /\ \A x \in {alice, bob} : confirmed'[x][d] # None => Past(v, confirmed[x][d])'
    BY <1>2 DEF NumbersArePast, Dm!Conversation
  <2>1. ASSUME panel'[v] # None PROVE Past(v, panel[v].group)'
    <3>1. PICK h : h = panel'[v].group
      OBVIOUS
    <3>2. Past(v, h)
      BY <1>1, <1>2, <1>3, <1>4, <1>6, <2>1, <3>1, ShownIs
    <3>3. Past(v, h)'
      BY <1>5, <3>2
    <3>. QED
      BY <3>1, <3>3 DEF Past, MadeBy
  <2>2. ASSUME NEW d \in Dm!Conversation, group[v][d] # None PROVE Past(v, group[v][d])'
    BY <1>2, <1>5, <2>2 DEF DmInv, NumbersArePast, Past, MadeBy
  <2>3. ASSUME NEW d \in Dm!Conversation, NEW x \in {alice, bob}, confirmed'[x][d] # None
        PROVE  Past(v, confirmed[x][d])'
    <3>1. PICK h : h = confirmed'[x][d]
      OBVIOUS
    <3>2. Past(v, h)
      BY <1>1, <1>4, <1>6, <2>3, <3>1 DEF DmInv, NumbersArePast
    <3>3. Past(v, h)'
      BY <1>5, <3>2
    <3>. QED
      BY <3>1, <3>3 DEF Past, MadeBy
  <2>. QED
    BY <2>1, <2>2, <2>3
<1>8. PanelIsLater'
  <2>1. ASSUME NEW v \in {u, p}, NEW x \in {u, p}, NEW d \in Dm!Conversation, confirmed'[x][d] # None,
               panel'[v] # None, panel'[v].conversation = d, panel'[v].group # confirmed'[x][d]
        PROVE  group[v][d] # confirmed'[x][d]
    <3>1. CASE v = u
      BY <1>1, <1>3, <1>4, <2>1, <3>1, ShownIs
    <3>2. CASE v = p /\ x = u /\ d = c
      BY <1>1, <1>2, <1>4, <2>1, <3>2
    <3>3. CASE v = p /\ ~ (x = u /\ d = c)
      <4>1. confirmed'[x][d] = confirmed[x][d] /\ panel'[v] = panel[v]
        BY <1>1, <1>4, <3>3
      <4>. QED
        BY <1>1, <2>1, <4>1 DEF DmInv, PanelIsLater
    <3>. QED
      BY <1>1, <3>1, <3>2, <3>3
  <2>. QED
    BY <1>1, <1>2, <2>1 DEF PanelIsLater, Dm!Conversation
<1>9. OneIsOver'
  <2>1. ASSUME NEW d \in Dm!Conversation, confirmed'[u][d] # None, confirmed'[p][d] # None,
               confirmed'[u][d] # confirmed'[p][d]
        PROVE  \E v \in {alice, bob} : \A x \in {alice, bob} : group[x][d] # confirmed'[v][d]
    <3>1. CASE d = c
      <4>1. \A x \in {u, p} : group[x][c] # confirmed[p][c]
        BY <1>1, <1>2, <1>4, <2>1, <3>1 DEF DmInv, PanelIsLater
      <4>. QED
        BY <1>1, <1>4, <3>1, <4>1
    <3>2. CASE d # c
      <4>1. confirmed'[u][d] = confirmed[u][d] /\ confirmed'[p][d] = confirmed[p][d]
        BY <1>4, <3>2
      <4>2. \E v \in {alice, bob} : \A x \in {alice, bob} : group[x][d] # confirmed[v][d]
        BY <1>1, <2>1, <4>1 DEF DmInv, OneIsOver
      <4>. QED
        BY <1>1, <4>1, <4>2
    <3>. QED
      BY <3>1, <3>2
  <2>2. (u = alice /\ p = bob) \/ (u = bob /\ p = alice)
    BY <1>1
  <2>3. \A d \in Dm!Conversation :
          confirmed'[alice][d] # None /\ confirmed'[bob][d] # None /\ confirmed'[alice][d] # confirmed'[bob][d] =>
            \E v \in {alice, bob} : \A x \in {alice, bob} : group[x][d] # confirmed'[v][d]
    BY <2>1, <2>2
  <2>. QED
    BY <1>2, <2>3 DEF OneIsOver, Dm!Conversation
<1>. QED
  BY <1>5, <1>7, <1>8, <1>9 DEF DmInv

-----------------------------------------------------------------------------

LEMMA InitDmInv == Dm!Init => DmInv
<1>. SUFFICES ASSUME Dm!Init PROVE DmInv
  OBVIOUS
<1>1. /\ conversations = 0 /\ invites = {} /\ kps = [u \in {alice, bob} |-> {}] /\ bundles = [u \in {alice, bob} |-> {}]
      /\ made = [u \in {alice, bob} |-> 0] /\ chat = [u \in {alice, bob} |-> Dm!Closed]
      /\ group = [u \in {alice, bob} |-> [c \in Dm!Conversation |-> None]]
      /\ confirmed = [u \in {alice, bob} |-> [c \in Dm!Conversation |-> None]]
      /\ panel = [u \in {alice, bob} |-> None] /\ unaware = [c \in Dm!Conversation |-> {}]
  BY DEF Dm!Init
<1>2. Dm!Closed \in NewChat /\ Dm!Closed.at = "closed"
  BY ClosedIs DEF Dm!Closed
<1>3. DmTypeOK
  <2>1. MaxConversations \in Nat /\ MaxPackages \in Nat
    BY BoundAssumption, ConversationsAssumption
  <2>2. \E n \in Nat : \A w \in invites : w.createdAt <= n
    BY <1>1
  <2>. QED
    BY <1>1, <1>2, <2>1, <2>2 DEF DmTypeOK
<1>4. PackagesOK
  BY <1>1, <1>2 DEF PackagesOK
<1>5. NumbersArePast /\ PanelIsLater /\ OneIsOver
  BY <1>1 DEF NumbersArePast, PanelIsLater, OneIsOver
<1>6. Following
  <2>. SUFFICES ASSUME NEW u \in {alice, bob}, NEW c \in Dm!Conversation PROVE Follows(u, Dm!Peer(u), c)
    BY DEF Following
  <2>1. PICK p \in {alice, bob} : p = Dm!Peer(u)
    BY PeerIs
  <2>. QED
    BY <1>1, <1>2, <2>1 DEF Follows
<1>. QED
  BY <1>3, <1>4, <1>5, <1>6 DEF DmInv

LEMMA DmStep ==
  ASSUME DmInv, [Dm!Next]_Dm!vars
  PROVE  DmInv'
<1>1. CASE Dm!Next
  <2>1. PICK u \in {alice, bob} :
          \/ Dm!OpenTab(u) \/ Dm!Catch(u) \/ Dm!Find(u) \/ Dm!Insert(u) \/ Dm!EnsureGroup(u) \/ Dm!Claim(u)
          \/ Dm!StartDm(u) \/ Dm!RelayWelcome(u) \/ Dm!Throws(u) \/ Dm!CloseTab(u)
          \/ Dm!ShowKeys(u) \/ Dm!Confirm(u)
    BY <1>1, Zenon DEF Dm!Next
  <2>. QED
    BY <2>1, OpenTabStep, CatchStep, FindStep, InsertStep, EnsureGroupStep, DmClaimStep, StartDmStep,
       DmRelayWelcomeStep, ThrowsStep, ShowKeysStep, ConfirmStep, Zenon
<1>2. CASE UNCHANGED Dm!vars
  <2>1. /\ UNCHANGED <<conversations, kps, invites, bundles, group, made, chat, confirmed, unaware, panel>>
        /\ conversations \in 0 .. MaxConversations /\ chat \in [{alice, bob} -> NewChat]
        /\ panel \in [{alice, bob} -> Number \cup {None}]
    BY <1>2 DEF Dm!vars, Dm!server, Dm!device, Dm!keys, DmInv, DmTypeOK
  <2>. QED
    BY <2>1, ChatStep DEF ChatsStay
<1>. QED
  BY <1>1, <1>2

\* Whenever both devices hold a group for their direct messages it is the same one, unless
\* both started theirs when neither could have seen the other's Welcome.
THEOREM OneGroup == Dm!Spec => []OneGroupOrBothUnaware
<1>1. DmInv => OneGroupOrBothUnaware
  <2>. SUFFICES ASSUME DmInv, NEW c \in Dm!Conversation, \A u \in {alice, bob} : group[u][c] # None
                PROVE  group[alice][c] = group[bob][c] \/ unaware[c] = {alice, bob}
    BY DEF OneGroupOrBothUnaware, Dm!OneGroupOrBothUnaware
  <2>1. Follows(alice, bob, c) /\ Follows(bob, alice, c) /\ unaware[c] \subseteq {alice, bob}
    BY PeerIs DEF DmInv, Following, DmTypeOK
  <2>. QED
    BY <2>1 DEF Follows
<1>. QED
  BY <1>1, InitDmInv, DmStep, PTL DEF Dm!Spec

\* When both devices show `verified' for a conversation, they hold the same group.
THEOREM VerifiedShared == Dm!Spec => []VerifiedIsShared
<1>1. DmInv => VerifiedIsShared
  <2>. SUFFICES ASSUME DmInv, NEW c \in Dm!Conversation, \A u \in {alice, bob} : Dm!Verified(u, c)
                PROVE  group[alice][c] = group[bob][c]
    BY DEF VerifiedIsShared, Dm!VerifiedIsShared
  <2>1. \A u \in {alice, bob} : confirmed[u][c] # None /\ confirmed[u][c] = group[u][c]
    BY DEF Dm!Verified
  <2>. QED
    BY <2>1 DEF DmInv, OneIsOver
<1>. QED
  BY <1>1, InitDmInv, DmStep, PTL DEF Dm!Spec

-----------------------------------------------------------------------------
(* The composition *)

\* What holds of Groups and of DirectMessages holds where one of them runs and the other rests.
THEOREM PartsRun == MCSpec => Spec /\ Dm!Spec
<1>1. MCInit => Init /\ Dm!Init
  BY DEF MCInit
<1>2. ASSUME [MCNext]_mcVars PROVE [Next]_vars /\ [Dm!Next]_Dm!vars
  <2>1. CASE UNCHANGED mcVars
    BY <2>1 DEF mcVars, dmVars, Dm!vars, Dm!server, Dm!device, Dm!keys
  <2>2. CASE MCNext
    <3>1. CASE GroupTurn /\ GroupOnly
      <4>1. ~ DmTurn
        BY <3>1 DEF GroupTurn, DmTurn
      <4>2. Next
        BY <2>2, <4>1, Zenon DEF MCNext, Next, OwnerStep, Resume
      <4>3. UNCHANGED Dm!vars
        BY <3>1 DEF GroupOnly, dmVars, Dm!vars, Dm!server, Dm!device, Dm!keys
      <4>. QED
        BY <4>2, <4>3
    <3>2. CASE DmTurn /\ DmOnly
      <4>1. ~ GroupTurn
        BY <3>2 DEF GroupTurn, DmTurn
      <4>2. Dm!Next
        BY <2>2, <4>1, Zenon DEF MCNext, Dm!Next
      <4>. QED
        BY <3>2, <4>2 DEF DmOnly
    <3>. QED
      BY <2>2, <3>1, <3>2, Zenon DEF MCNext
  <2>. QED
    BY <1>2, <2>1, <2>2
<1>. QED
  BY <1>1, <1>2, PTL DEF MCSpec, Spec, Dm!Spec
=============================================================================
