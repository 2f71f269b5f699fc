---------------------------- MODULE AdminProofs ----------------------------
(***************************************************************************)
(* Proofs about Admin for any persons, custom roles, grants and number of  *)
(* requests in progress: requests that do not overlap leave an owner and   *)
(* no role undefined that somebody has, and whatever changes is named in   *)
(* the audit log, in whatever order the requests wait for the database.    *)
(***************************************************************************)
EXTENDS Admin, FiniteSetTheorems, TLAPS

RoleNames == SYSTEM_ROLES \cup Custom \cup {None}
SignIns == [op : {"signin"}, who : Person]
Requests ==
  [at : {"look", "check", "count", "write", "log"}, q : Routes \cup SignIns,
   by : [id : Person, role : RoleNames, perms : SUBSET PERMISSIONS],
   seen : SUBSET PERMISSIONS, target : RoleNames]

Defined(n) == n \in SYSTEM_ROLES \/ roles[n] # NoRole

\* What the handler of s has read is still so when it writes.
Fresh(s) ==
  LET r == req[s] IN
  /\ r.q.op = "role" /\ r.at \in {"check", "count", "write"} => r.target = users[r.q.who].role
  /\ r.q.op = "role" /\ r.at \in {"count", "write"} => Defined(r.q.name)
  /\ r.q.op = "role" /\ r.at = "write" /\ r.target = "owner" /\ r.q.name # "owner"
       => \E v \in WithRole("owner") : v # r.q.who
  /\ r.q.op = "delete" /\ r.at = "write" => WithRole(r.q.name) = {}

ReadsAreFresh == overlapped \/ \A s \in Slot : req[s].at \in {"check", "count", "write"} => Fresh(s)

\* Where the handlers of each kind of request wait.
Calls(s) ==
  /\ req[s].at = "look" => req[s].q.op \in {"role", "status", "grant", "signin"}
  /\ req[s].at = "check" => req[s].q.op \in {"role", "create", "update", "delete"}
  /\ req[s].at = "count" => req[s].q.op \in {"role", "status", "delete", "signin"}

\* Rows do not go away.
RowsStay == \A u \in Person : Start[u].role # None => Present(u)

IInv == TypeOK /\ (\A s \in Slot : Calls(s)) /\ ReadsAreFresh /\ AssignedRolesExist /\ RowsStay /\ AuditNamesChanges

-----------------------------------------------------------------------------
(* What requests look like *)

\* The fields of each kind of request.
LEMMA Shape ==
  ASSUME NEW q \in Routes \cup SignIns
  PROVE  /\ q.op \in {"role", "status", "grant", "ungrant", "create", "update", "delete", "flag", "signin"}
         /\ q.op \in {"role", "status", "grant", "ungrant", "signin"} => q.who \in Person
         /\ q.op \in {"role", "update", "delete"} => q.name \in Assigned
         /\ q.op = "status" => q.to \in {"active", "suspended"}
         /\ q.op \in {"grant", "ungrant"} => q.perm \in Granted
         /\ q.op = "grant" => q.to \in {"allow", "deny"}
         /\ q.op = "create" => q.name \in Custom /\ q.perms \in RoleSets
         /\ q.op = "update" => q.perms \in RoleSets \cup {NoRole}
         /\ q.op = "flag" => q.flag \in Flag
  BY DEF Routes, SignIns

\* A request in progress has one of the shapes.
LEMMA Busy ==
  ASSUME TypeOK, NEW s \in Slot, req[s] # Idle
  PROVE  req[s] \in Requests /\ req[s].q \in Routes \cup SignIns /\ req[s].at # "idle"
  BY DEF TypeOK, Requests, SignIns, RoleNames, Idle

\* An idle slot waits nowhere.
LEMMA IdleWaits == Idle.at = "idle"
  BY DEF Idle

-----------------------------------------------------------------------------
(* The invariant holds initially *)

LEMMA Initially == Init => IInv
<1> SUFFICES ASSUME Init PROVE IInv
  OBVIOUS
<1> USE AdminAssumption, StartAssumption
<1>1. TypeOK
  BY DEF Init, TypeOK, NoRole
<1>2. ReadsAreFresh
  BY IdleWaits DEF Init, ReadsAreFresh
<1>6. \A s \in Slot : Calls(s)
  BY IdleWaits DEF Init, Calls
<1>3. AssignedRolesExist
  BY DEF Init, AssignedRolesExist, Present, NoRole
<1>4. RowsStay
  BY DEF Init, RowsStay, Present
<1>5. AuditNamesChanges
  BY DEF Init, AuditNamesChanges
<1>. QED
  BY <1>1, <1>2, <1>3, <1>4, <1>5, <1>6 DEF IInv

-----------------------------------------------------------------------------
(* What a step leaves alone *)

\* What is named stays named while nobody who is about to write an entry gives up.
LEMMA NamedStays ==
  ASSUME audit \subseteq audit',
         \A s \in Slot : req[s].at = "log" =>
            \/ req'[s] = req[s]
            \/ <<req[s].q.op, About(req[s].q)>> \in audit',
         NEW ops, NEW x, Named(ops, x)
  PROVE  Named(ops, x)'
<1>1. CASE \E op \in ops : <<op, x>> \in audit
  BY <1>1 DEF Named
<1>2. CASE \E s \in Slot : req[s].at = "log" /\ req[s].q.op \in ops /\ About(req[s].q) = x
  BY <1>2 DEF Named, About
<1>. QED
  BY <1>1, <1>2 DEF Named

\* A step that does not touch the tables.
LEMMA TablesStay ==
  ASSUME IInv, UNCHANGED tables, overlapped' = overlapped,
         \/ faults' > 0
         \/ /\ faults' = faults /\ audit \subseteq audit'
            /\ \A s \in Slot : req[s].at = "log" =>
                 \/ req'[s] = req[s]
                 \/ <<req[s].q.op, About(req[s].q)>> \in audit'
  PROVE  AssignedRolesExist' /\ RowsStay' /\ AuditNamesChanges'
<1>1. AssignedRolesExist' /\ RowsStay'
  BY DEF IInv, tables, AssignedRolesExist, RowsStay, Present
<1>2. CASE faults' > 0
  BY <1>1, <1>2 DEF AuditNamesChanges
<1>3. CASE ~ (faults' > 0)
  <2>1. \A ops, x : Named(ops, x) => Named(ops, x)'
    BY <1>3, NamedStays
  <2>2. AuditNamesChanges'
    BY <1>3, <2>1 DEF IInv, tables, AuditNamesChanges
  <2>. QED
    BY <1>1, <2>2
<1>. QED
  BY <1>2, <1>3

\* The requests that a step leaves alone have fresh reads, if it leaves the tables alone.
LEMMA OthersFresh ==
  ASSUME IInv, UNCHANGED tables, overlapped' = overlapped,
         NEW s \in Slot, \A t \in Slot : t # s => req'[t] = req[t],
         overlapped \/ (req'[s].at \in {"check", "count", "write"} => Fresh(s)')
  PROVE  ReadsAreFresh'
<1>1. ASSUME ~ overlapped, NEW t \in Slot, t # s, req'[t].at \in {"check", "count", "write"}
      PROVE  Fresh(t)'
  <2>1. req'[t] = req[t] /\ Fresh(t)
    BY <1>1 DEF IInv, ReadsAreFresh
  <2>2. users' = users /\ roles' = roles
    BY DEF tables
  <2>. QED
    BY <2>1, <2>2 DEF Fresh, Defined, WithRole
<1>. QED
  BY <1>1 DEF ReadsAreFresh

-----------------------------------------------------------------------------
(* Each step keeps the invariant *)

\* What a role gives is a set of permissions.
LEMMA RoleGives ==
  ASSUME TypeOK, NEW n \in SYSTEM_ROLES \cup Custom
  PROVE  RolePermissions(n) \subseteq PERMISSIONS
<1>1. CASE n \in SYSTEM_ROLES
  <2>1. SYSTEM_ROLE_PERMISSIONS[n] \subseteq PERMISSIONS
    BY <1>1 DEF SYSTEM_ROLES, SYSTEM_ROLE_PERMISSIONS, PERMISSIONS
  <2>. QED
    BY <1>1, <2>1 DEF RolePermissions, GetRole
<1>2. CASE n \notin SYSTEM_ROLES
  <2>1. roles[n] \in (SUBSET PERMISSIONS) \cup {{None}}
    BY <1>2 DEF TypeOK, NoRole
  <2>. QED
    BY <1>2, <2>1 DEF RolePermissions, GetRole
<1>. QED
  BY <1>1, <1>2

\* A request arrives.
LEMMA OpenStep ==
  ASSUME IInv, NEW s \in Slot, Request(s) \/ RequestOnFallback(s) \/ SignIn(s)
  PROVE  IInv'
<1> USE AdminAssumption
<1> DEFINE Actors == [id : Person, role : RoleNames, perms : SUBSET PERMISSIONS]
<1>1. PICK q \in Routes \cup SignIns, by \in Actors : req[s] = Idle /\ Open(s, q, by)
  <2>1. CASE Request(s)
    <3>1. PICK a \in Person : Present(a) /\ \E q \in Routes : req[s] = Idle /\ Open(s, q, By(a, ResolvePermissions(a)))
      BY <2>1 DEF Request, Free
    <3>2. users[a].role \in SYSTEM_ROLES \cup Custom
      BY <3>1 DEF Present, IInv, TypeOK
    <3>3. ResolvePermissions(a) \subseteq PERMISSIONS
      <4>1. EffectivePermissions(RolePermissions(users[a].role), a) \subseteq PERMISSIONS
        BY <3>2, RoleGives DEF IInv, EffectivePermissions
      <4>2. \/ ResolvePermissions(a) = {} \/ ResolvePermissions(a) = PERMISSIONS
            \/ ResolvePermissions(a) = EffectivePermissions(RolePermissions(users[a].role), a)
        BY DEF ResolvePermissions
      <4>. QED
        BY <4>1, <4>2
    <3>4. By(a, ResolvePermissions(a)) \in Actors
      BY <3>2, <3>3 DEF By, RoleNames
    <3>. QED
      BY <3>1, <3>4
  <2>2. CASE RequestOnFallback(s)
    <3>1. PICK a \in Person : Present(a) /\ \E q \in Routes : req[s] = Idle /\ Open(s, q, By(a, Fallback(a)))
      BY <2>2 DEF RequestOnFallback, Free
    <3>2. users[a].role \in SYSTEM_ROLES \cup Custom
      BY <3>1 DEF Present, IInv, TypeOK
    <3>3. Fallback(a) \subseteq PERMISSIONS
      BY DEF Fallback, SYSTEM_ROLES, SYSTEM_ROLE_PERMISSIONS, PERMISSIONS
    <3>4. By(a, Fallback(a)) \in Actors
      BY <3>2, <3>3 DEF By, RoleNames
    <3>. QED
      BY <3>1, <3>4
  <2>3. CASE SignIn(s)
    <3>1. PICK u \in Person : req[s] = Idle /\ Open(s, [op |-> "signin", who |-> u], [id |-> u, role |-> None, perms |-> {}])
      BY <2>3 DEF SignIn, Free
    <3>2. [op |-> "signin", who |-> u] \in SignIns /\ [id |-> u, role |-> None, perms |-> {}] \in Actors
      BY DEF SignIns, RoleNames
    <3>. QED
      BY <3>1, <3>2
  <2>. QED
    BY <2>1, <2>2, <2>3
<1> DEFINE r == [at |-> FirstRead(q), q |-> q, by |-> by, seen |-> {}, target |-> None]
<1>2. /\ req' = [req EXCEPT ![s] = r] /\ started' = started + 1 /\ UNCHANGED <<tables, audit, overlapped>>
      /\ faults' \in Nat /\ faults' >= faults
  BY <1>1 DEF Open, Request, RequestOnFallback, SignIn, IInv, TypeOK
<1>3. /\ FirstRead(q) \in {"look", "check", "write"}
      /\ q.op = "role" => FirstRead(q) = "look"
      /\ q.op = "delete" => FirstRead(q) = "check"
      /\ FirstRead(q) = "look" => q.op \in {"role", "status", "grant", "signin"}
      /\ FirstRead(q) = "check" => q.op \in {"create", "update", "delete"}
  BY Shape DEF FirstRead
<1>4. r \in Requests
  BY <1>3 DEF Requests, RoleNames
<1>5. req'[s] = r /\ \A t \in Slot : t # s => req'[t] = req[t]
  BY <1>2 DEF IInv, TypeOK
<1>6. TypeOK'
  <2>1. req' \in [Slot -> {Idle} \cup Requests]
    BY <1>2, <1>4 DEF IInv, TypeOK, Requests, SignIns, RoleNames
  <2>. QED
    BY <1>2, <2>1 DEF IInv, TypeOK, tables, Requests, SignIns, RoleNames
<1>7. Fresh(s)'
  BY <1>3, <1>5 DEF Fresh
<1>10. (\A t \in Slot : Calls(t))'
  BY <1>3, <1>5 DEF IInv, Calls
<1>8. ReadsAreFresh'
  BY <1>2, <1>5, <1>7, OthersFresh
<1>9. AssignedRolesExist' /\ RowsStay' /\ AuditNamesChanges'
  <2>1. \A t \in Slot : req[t].at = "log" => req'[t] = req[t]
    BY <1>1, <1>5, IdleWaits
  <2>2. faults' > 0 \/ faults' = faults
    BY <1>2 DEF IInv, TypeOK
  <2>. QED
    BY <1>2, <2>1, <2>2, TablesStay
<1>. QED
  BY <1>6, <1>8, <1>9, <1>10 DEF IInv

\* A handler goes on to its next call, or answers.
LEMMA GoOn ==
  ASSUME IInv, NEW s \in Slot, req[s] # Idle, req[s].at # "log",
         NEW phase \in {"idle", "check", "count", "write"},
         NEW seen \in SUBSET PERMISSIONS, NEW target \in RoleNames,
         Reads(s, phase, seen, target),
         phase = "check" => req[s].q.op = "role",
         phase = "count" => req[s].q.op \in {"role", "status", "delete", "signin"},
         \/ overlapped \/ phase = "idle"
         \/ req[s].q.op = "role" =>
              /\ target = users[req[s].q.who].role
              /\ phase # "check" => Defined(req[s].q.name)
              /\ phase = "write" /\ target = "owner" /\ req[s].q.name # "owner"
                   => \E v \in WithRole("owner") : v # req[s].q.who,
         req[s].q.op = "delete" /\ phase = "write" => WithRole(req[s].q.name) = {}
  PROVE  IInv'
<1>1. UNCHANGED <<tables, audit, started, overlapped, faults>>
  BY DEF Reads
<1>2. req[s] \in Requests
  BY Busy DEF IInv
<1> DEFINE r == [req[s] EXCEPT !.at = phase, !.seen = seen, !.target = target]
<1>3. (phase # "idle" => r \in Requests) /\ r.at = phase /\ r.q = req[s].q /\ r.target = target
  BY <1>2 DEF Requests
<1>4. req' \in [Slot -> {Idle} \cup Requests] /\ req'[s] = (IF phase = "idle" THEN Idle ELSE r)
  <2>1. req' = [req EXCEPT ![s] = IF phase = "idle" THEN Idle ELSE r]
    BY DEF Reads
  <2>2. req \in [Slot -> {Idle} \cup Requests]
    BY DEF IInv, TypeOK, Requests, SignIns, RoleNames
  <2>. QED
    BY <1>3, <2>1, <2>2
<1> HIDE DEF r
<1>5. \A t \in Slot : t # s => req'[t] = req[t]
  BY DEF Reads, IInv, TypeOK
<1>6. TypeOK'
  BY <1>1, <1>4 DEF IInv, TypeOK, tables, Requests, SignIns, RoleNames
<1>7. (\A t \in Slot : Calls(t))'
  BY <1>3, <1>4, <1>5, IdleWaits DEF IInv, Calls
<1>8. overlapped \/ (req'[s].at \in {"check", "count", "write"} => Fresh(s)')
  <2>1. users' = users /\ roles' = roles
    BY <1>1 DEF tables
  <2>. QED
    BY <1>3, <1>4, <2>1, IdleWaits DEF Fresh, Defined, WithRole
<1>9. ReadsAreFresh'
  BY <1>1, <1>5, <1>8, OthersFresh
<1>10. AssignedRolesExist' /\ RowsStay' /\ AuditNamesChanges'
  <2>1. \A t \in Slot : req[t].at = "log" => req'[t] = req[t]
    BY <1>5
  <2>2. faults' = faults /\ audit \subseteq audit'
    BY <1>1
  <2>. QED
    BY <1>1, <2>1, <2>2, TablesStay
<1>. QED
  BY <1>6, <1>7, <1>9, <1>10 DEF IInv

\* Going on without having read something new.
LEMMA GoesReads ==
  ASSUME TypeOK, NEW s \in Slot, req[s] # Idle, NEW phase, Goes(s, phase)
  PROVE  Reads(s, phase, req[s].seen, req[s].target)
<1>1. req[s] \in Requests
  BY Busy
<1>2. [req[s] EXCEPT !.at = phase] = [req[s] EXCEPT !.at = phase, !.seen = req[s].seen, !.target = req[s].target]
  BY <1>1 DEF Requests
<1>. QED
  BY <1>2 DEF Goes, Reads

\* getUser has answered.
LEMMA LookStep ==
  ASSUME IInv, NEW s \in Slot, Look(s)
  PROVE  IInv'
<1> DEFINE q == req[s].q
<1> DEFINE row == users[q.who]
<1> DEFINE phase == AfterLook(q, req[s].by, row)
<1>1. req[s].at = "look" /\ req[s] # Idle /\ Reads(s, phase, {}, row.role)
  BY IdleWaits DEF Look
<1>2. q \in Routes \cup SignIns /\ q.op \in {"role", "status", "grant", "signin"}
  BY <1>1, Busy DEF IInv, Calls
<1>3. q.who \in Person
  BY <1>2, Shape
<1>4. row.role \in RoleNames
  BY <1>3 DEF IInv, TypeOK, RoleNames
<1>5. /\ phase \in {"idle", "check", "count", "write"}
      /\ phase = "check" => q.op = "role"
      /\ phase = "count" => q.op \in {"status", "signin"}
      /\ q.op = "role" => phase \in {"idle", "check"}
  BY <1>2 DEF AfterLook
<1> HIDE DEF phase
<1>6. {} \in SUBSET PERMISSIONS
  OBVIOUS
<1>. QED
  BY <1>1, <1>2, <1>4, <1>5, <1>6, GoOn

\* getRole has answered.
LEMMA CheckStep ==
  ASSUME IInv, NEW s \in Slot, Check(s)
  PROVE  IInv'
<1> USE AdminAssumption
<1> DEFINE q == req[s].q
<1> DEFINE target == req[s].target
<1> DEFINE phase == AfterCheck(q, req[s].by, target)
<1>1. req[s].at = "check" /\ req[s] # Idle /\ Reads(s, phase, RolePermissions(q.name), target)
  BY IdleWaits DEF Check
<1>2. q \in Routes \cup SignIns /\ q.op \in {"role", "create", "update", "delete"} /\ target \in RoleNames
  BY <1>1, Busy DEF IInv, Calls, Requests
<1>3. q.name \in SYSTEM_ROLES \cup Custom
  BY <1>2, Shape
<1>4. RolePermissions(q.name) \in SUBSET PERMISSIONS
  BY <1>3, RoleGives DEF IInv
<1>5. /\ phase \in {"idle", "count", "write"}
      /\ phase = "count" => q.op \in {"role", "delete"}
      /\ q.op = "delete" => phase \in {"idle", "count"}
      /\ q.op = "role" /\ phase # "idle" => AssertCanAssignRole(req[s].by, q.name)
      /\ q.op = "role" /\ phase = "write" => target # "owner" \/ q.name = "owner"
  BY <1>2 DEF AfterCheck
<1> HIDE DEF phase
<1>6. q.op = "role" /\ phase # "idle" => Defined(q.name)
  BY <1>5 DEF AssertCanAssignRole, GetRole, Defined
<1>7. overlapped \/ (q.op = "role" => target = users[q.who].role)
  BY <1>1 DEF IInv, ReadsAreFresh, Fresh
<1> HIDE DEF target
<1>. QED
  BY <1>1, <1>2, <1>4, <1>5, <1>6, <1>7, GoOn

\* Two owners: one of them is somebody else.
LEMMA AnotherOwner ==
  ASSUME NEW S, NEW u \in S, ~ (Cardinality(S) <= 1)
  PROVE  \E v \in S : v # u
<1> SUFFICES ASSUME \A v \in S : v = u PROVE FALSE
  OBVIOUS
<1>1. S = {u}
  OBVIOUS
<1>2. Cardinality({u}) = 1
  BY FS_Singleton
<1>. QED
  BY <1>1, <1>2

\* countByRole has answered.
LEMMA CountStep ==
  ASSUME IInv, NEW s \in Slot, Count(s)
  PROVE  IInv'
<1> DEFINE q == req[s].q
<1>1. req[s].at = "count" /\ req[s] # Idle
  BY IdleWaits DEF Count
<1>2. /\ req[s] \in Requests /\ q \in Routes \cup SignIns /\ q.op \in {"role", "status", "delete", "signin"}
      /\ req[s].target \in RoleNames /\ req[s].seen \in SUBSET PERMISSIONS
  BY <1>1, Busy DEF IInv, Calls, Requests
<1>3. CASE q.op = "signin" /\ WithRole("owner") = {}
  <2>1. Reads(s, "write", {}, "owner")
    BY <1>3 DEF Count
  <2>2. "owner" \in RoleNames /\ {} \in SUBSET PERMISSIONS
    BY DEF RoleNames, SYSTEM_ROLES
  <2>. QED
    BY <1>1, <1>3, <2>1, <2>2, GoOn
<1>4. CASE ~ (q.op = "signin" /\ WithRole("owner") = {})
  <2> DEFINE phase == AfterCount(q)
  <2>1. Reads(s, phase, req[s].seen, req[s].target)
    BY <1>1, <1>4, GoesReads DEF Count, IInv
  <2>2. /\ phase \in {"idle", "write"}
        /\ q.op = "delete" /\ phase = "write" => WithRole(q.name) = {}
        /\ q.op = "role" /\ phase = "write" => ~ (Cardinality(WithRole("owner")) <= 1)
    BY <1>2 DEF AfterCount
  <2> HIDE DEF phase
  <2>3. \/ overlapped
        \/ q.op = "role" => Defined(q.name) /\ req[s].target = users[q.who].role
    BY <1>1 DEF IInv, ReadsAreFresh, Fresh
  <2>4. ASSUME q.op = "role", req[s].target = users[q.who].role, phase = "write", req[s].target = "owner"
        PROVE  \E v \in WithRole("owner") : v # q.who
    <3>1. q.who \in Person
      BY <1>2, <2>4, Shape
    <3>2. q.who \in WithRole("owner")
      BY <2>4, <3>1 DEF WithRole
    <3>. QED
      BY <2>2, <2>4, <3>2, AnotherOwner
  <2>. QED
    BY <1>1, <1>2, <2>1, <2>2, <2>3, <2>4, GoOn
<1>. QED
  BY <1>3, <1>4

\* The mutation: what changes in the tables.
LEMMA Mutation ==
  ASSUME TypeOK, NEW s \in Slot, req[s] \in Requests, Mutate(req[s].q, req[s])
  PROVE  LET q == req[s].q IN
         /\ users' \in [Person -> [role : RoleNames, status : {"active", "suspended"}]]
         /\ roles' \in [Custom -> (SUBSET PERMISSIONS) \cup {NoRole}]
         /\ grants' \in [Person \X Granted -> {"allow", "deny", None}]
         /\ flags' \subseteq Flag
         /\ \A u \in Person :
              \/ users'[u].role = users[u].role
              \/ q.op = "role" /\ u = q.who /\ users'[u].role = q.name
              \/ q.op = "signin" /\ u = q.who /\ ~ Present(u) /\ users'[u].role \in {"owner", "user"}
         /\ q.op = "role" => users'[q.who].role = q.name
         /\ \A u \in Person :
              \/ users'[u].status = users[u].status
              \/ q.op = "status" /\ u = q.who
              \/ q.op = "signin" /\ u = q.who /\ ~ Present(u)
         /\ \A u \in Person, p \in Granted :
              grants'[<<u, p>>] = grants[<<u, p>>] \/ (q.op \in {"grant", "ungrant"} /\ q.who = u)
         /\ q.op = "ungrant" => \A u \in Person, p \in Granted :
              grants'[<<u, p>>] = grants[<<u, p>>] \/ grants'[<<u, p>>] = None
         /\ \A n \in Custom :
              \/ roles'[n] = roles[n]
              \/ q.op \in {"create", "update"} /\ n = q.name /\ roles'[n] # NoRole
              \/ q.op = "delete" /\ n = q.name
         /\ \A f \in flags' : f \in flags \/ (q.op = "flag" /\ q.flag = f)
<1> USE AdminAssumption
<1> DEFINE q == req[s].q
<1>1. /\ q \in Routes \cup SignIns /\ req[s].target \in RoleNames /\ req[s].seen \in SUBSET PERMISSIONS
  BY DEF Requests
<1>2. /\ q.op \in {"role", "status", "grant", "ungrant", "create", "update", "delete", "flag", "signin"}
      /\ q.op \in {"role", "status", "grant", "ungrant", "signin"} => q.who \in Person
      /\ q.op \in {"role", "update", "delete"} => q.name \in SYSTEM_ROLES \cup Custom
      /\ q.op = "status" => q.to \in {"active", "suspended"}
      /\ q.op \in {"grant", "ungrant"} => q.perm \in Granted
      /\ q.op = "grant" => q.to \in {"allow", "deny"}
      /\ q.op = "create" => q.name \in Custom /\ q.perms \in RoleSets
      /\ q.op = "update" => q.perms \in RoleSets \cup {NoRole}
      /\ q.op = "flag" => q.flag \in Flag
  BY <1>1, Shape
<1> HIDE DEF q
<1>3. /\ users \in [Person -> [role : RoleNames, status : {"active", "suspended"}]]
      /\ roles \in [Custom -> (SUBSET PERMISSIONS) \cup {NoRole}]
      /\ grants \in [Person \X Granted -> {"allow", "deny", None}]
      /\ flags \subseteq Flag
  BY DEF TypeOK, RoleNames
<1>4. Mutate(q, req[s])
  BY DEF q
<1>5. /\ users' \in [Person -> [role : RoleNames, status : {"active", "suspended"}]]
      /\ \A u \in Person :
           \/ users'[u].role = users[u].role
           \/ q.op = "role" /\ u = q.who /\ users'[u].role = q.name
           \/ q.op = "signin" /\ u = q.who /\ ~ Present(u) /\ users'[u].role \in {"owner", "user"}
      /\ q.op = "role" => users'[q.who].role = q.name
      /\ \A u \in Person :
           \/ users'[u].status = users[u].status
           \/ q.op = "status" /\ u = q.who
           \/ q.op = "signin" /\ u = q.who /\ ~ Present(u)
  <2>1. CASE q.op = "role"
    <3>1. users' = [users EXCEPT ![q.who].role = q.name]
      BY <1>4, <2>1 DEF Mutate
    <3>. QED
      BY <1>2, <1>3, <2>1, <3>1 DEF RoleNames
  <2>2. CASE q.op = "status"
    <3>1. users' = [users EXCEPT ![q.who].status = q.to]
      BY <1>4, <2>2 DEF Mutate
    <3>. QED
      BY <1>2, <1>3, <2>2, <3>1
  <2>3. CASE q.op = "signin"
    <3>1. users' = Insert(q, req[s].target)
      BY <1>4, <2>3 DEF Mutate
    <3>2. CASE Present(q.who)
      BY <1>3, <2>3, <3>1, <3>2 DEF Insert
    <3>3. CASE ~ Present(q.who)
      <4> DEFINE n == IF req[s].target = "owner" THEN "owner" ELSE "user"
      <4>1. users' = [users EXCEPT ![q.who] = [role |-> n, status |-> "active"]]
        BY <3>1, <3>3 DEF Insert
      <4>2. n \in {"owner", "user"} /\ n \in RoleNames
        BY DEF RoleNames, SYSTEM_ROLES
      <4> HIDE DEF n
      <4>. QED
        BY <1>2, <1>3, <2>3, <3>3, <4>1, <4>2
    <3>. QED
      BY <3>2, <3>3
  <2>4. CASE q.op \notin {"role", "status", "signin"}
    <3>1. users' = users
      BY <1>4, <2>4 DEF Mutate
    <3>. QED
      BY <1>3, <2>4, <3>1
  <2>. QED
    BY <2>1, <2>2, <2>3, <2>4
<1>6. /\ grants' \in [Person \X Granted -> {"allow", "deny", None}]
      /\ \A u \in Person, p \in Granted :
           grants'[<<u, p>>] = grants[<<u, p>>] \/ (q.op \in {"grant", "ungrant"} /\ q.who = u)
      /\ q.op = "ungrant" => \A u \in Person, p \in Granted :
           grants'[<<u, p>>] = grants[<<u, p>>] \/ grants'[<<u, p>>] = None
  <2>1. ASSUME q.op \in {"grant", "ungrant"}, NEW e \in {"allow", "deny", None},
               grants' = [grants EXCEPT ![<<q.who, q.perm>>] = e]
        PROVE  /\ grants' \in [Person \X Granted -> {"allow", "deny", None}]
               /\ \A u \in Person, p \in Granted :
                    \/ grants'[<<u, p>>] = grants[<<u, p>>]
                    \/ q.who = u /\ grants'[<<u, p>>] = e
    <3>1. <<q.who, q.perm>> \in Person \X Granted
      BY <1>2, <2>1
    <3>. QED
      BY <1>3, <2>1, <3>1
  <2>2. CASE q.op = "grant"
    <3>1. grants' = [grants EXCEPT ![<<q.who, q.perm>>] = q.to] /\ q.to \in {"allow", "deny", None}
      BY <1>2, <1>4, <2>2 DEF Mutate
    <3>. QED
      BY <2>1, <2>2, <3>1
  <2>3. CASE q.op = "ungrant"
    <3>1. grants' = [grants EXCEPT ![<<q.who, q.perm>>] = None]
      BY <1>4, <2>3 DEF Mutate
    <3>. QED
      BY <2>1, <2>3, <3>1
  <2>4. CASE q.op \notin {"grant", "ungrant"}
    BY <1>3, <1>4, <2>4 DEF Mutate
  <2>. QED
    BY <2>2, <2>3, <2>4
<1>7. /\ roles' \in [Custom -> (SUBSET PERMISSIONS) \cup {NoRole}]
      /\ \A n \in Custom :
           \/ roles'[n] = roles[n]
           \/ q.op \in {"create", "update"} /\ n = q.name /\ roles'[n] # NoRole
           \/ q.op = "delete" /\ n = q.name
  <2>1. CASE q.op \in {"create", "update"}
    <3> DEFINE ps == IF q.perms = NoRole THEN req[s].seen ELSE q.perms
    <3>1. roles' = [roles EXCEPT ![q.name] = ps]
      BY <1>4, <2>1 DEF Mutate, Upsert
    <3>2. ps \in SUBSET PERMISSIONS /\ ps # NoRole
      BY <1>1, <1>2, <2>1 DEF NoRole
    <3> HIDE DEF ps
    <3>. QED
      BY <1>3, <2>1, <3>1, <3>2
  <2>2. CASE q.op = "delete"
    <3>1. roles' = [roles EXCEPT ![q.name] = NoRole]
      BY <1>4, <2>2 DEF Mutate
    <3>. QED
      BY <1>3, <2>2, <3>1
  <2>3. CASE q.op \notin {"create", "update", "delete"}
    BY <1>3, <1>4, <2>3 DEF Mutate
  <2>. QED
    BY <2>1, <2>2, <2>3
<1>8. flags' \subseteq Flag /\ \A f \in flags' : f \in flags \/ (q.op = "flag" /\ q.flag = f)
  <2>1. \/ flags' = flags
        \/ q.op = "flag" /\ flags' \in {flags \cup {q.flag}, flags \ {q.flag}}
    BY <1>4 DEF Mutate
  <2>. QED
    BY <1>2, <1>3, <2>1
<1>. QED
  BY <1>5, <1>6, <1>7, <1>8 DEF q

\* The handler writes.
LEMMA WriteStep ==
  ASSUME IInv, NEW s \in Slot, Write(s)
  PROVE  IInv' /\ (WithRole("owner") # {} /\ ~ overlapped' => WithRole("owner")' # {})
<1> USE AdminAssumption
<1> DEFINE q == req[s].q
<1>1. req[s].at = "write" /\ req[s] # Idle /\ req[s] \in Requests
  BY IdleWaits, Busy DEF Write, IInv
<1>2. Mutate(q, req[s])
  BY DEF Write
<1> DEFINE logging == [req[s] EXCEPT !.at = "log"]
<1>3. /\ req' = [req EXCEPT ![s] = IF q.op = "signin" THEN Idle ELSE logging]
      /\ overlapped' = (overlapped \/ \E t \in Slot \ {s} : req[t].at \in {"check", "count", "write"})
      /\ UNCHANGED <<audit, started, faults>>
  BY DEF Write
<1>4. logging \in Requests /\ logging.at = "log" /\ logging.q = q
  BY <1>1 DEF Requests
<1>5. req' \in [Slot -> {Idle} \cup Requests] /\ req'[s] = (IF q.op = "signin" THEN Idle ELSE logging)
  <2>1. req \in [Slot -> {Idle} \cup Requests]
    BY DEF IInv, TypeOK, Requests, SignIns, RoleNames
  <2>. QED
    BY <1>3, <1>4, <2>1
<1>6. \A t \in Slot : t # s => req'[t] = req[t]
  BY <1>3 DEF IInv, TypeOK
<1> HIDE DEF logging
<1>7. /\ users' \in [Person -> [role : RoleNames, status : {"active", "suspended"}]]
      /\ roles' \in [Custom -> (SUBSET PERMISSIONS) \cup {NoRole}]
      /\ grants' \in [Person \X Granted -> {"allow", "deny", None}]
      /\ flags' \subseteq Flag
  BY <1>1, <1>2, Mutation DEF IInv
<1>8. \A u \in Person :
        \/ users'[u].role = users[u].role
        \/ q.op = "role" /\ u = q.who /\ users'[u].role = q.name
        \/ q.op = "signin" /\ u = q.who /\ ~ Present(u) /\ users'[u].role \in {"owner", "user"}
  BY <1>1, <1>2, Mutation DEF IInv
<1>9. q.op = "role" => users'[q.who].role = q.name /\ q.who \in Person /\ q.name \in SYSTEM_ROLES \cup Custom
  BY <1>1, <1>2, Mutation, Shape DEF IInv, Requests
<1>10. \A n \in Custom :
         \/ roles'[n] = roles[n]
         \/ q.op \in {"create", "update"} /\ n = q.name /\ roles'[n] # NoRole
         \/ q.op = "delete" /\ n = q.name
  BY <1>1, <1>2, Mutation DEF IInv
<1>11. TypeOK'
  <2>1. overlapped' \in BOOLEAN /\ started' \in Nat /\ faults' \in Nat
    BY <1>3 DEF IInv, TypeOK
  <2>. QED
    BY <1>5, <1>7, <2>1 DEF TypeOK, Requests, SignIns, RoleNames, NoRole
<1>12. (\A t \in Slot : Calls(t))'
  BY <1>4, <1>5, <1>6, IdleWaits DEF IInv, Calls
<1>13. ReadsAreFresh'
  BY <1>3, <1>4, <1>5, <1>6, IdleWaits DEF ReadsAreFresh
<1>14. ~ overlapped => Fresh(s)
  BY <1>1 DEF IInv, ReadsAreFresh
<1>15. ~ overlapped' => ~ overlapped
  BY <1>3
<1>16. AssignedRolesExist'
  <2>1. ASSUME ~ overlapped, NEW u \in Person, users'[u].role # None
        PROVE  users'[u].role \in SYSTEM_ROLES \/ roles'[users'[u].role] # NoRole
    <3>1. CASE q.op = "role" /\ u = q.who /\ users'[u].role = q.name
      <4>1. Defined(q.name)
        BY <1>1, <1>14, <2>1, <3>1 DEF Fresh
      <4>. QED
        BY <1>9, <1>10, <3>1, <4>1 DEF Defined
    <3>2. CASE users'[u].role \in {"owner", "user"}
      BY <3>2 DEF SYSTEM_ROLES
    <3>3. CASE users'[u].role = users[u].role
      <4>1. users[u].role \in SYSTEM_ROLES \/ (users[u].role \in Custom /\ roles[users[u].role] # NoRole)
        BY <2>1, <3>3 DEF IInv, TypeOK, AssignedRolesExist, Present
      <4>2. ASSUME q.op = "delete" PROVE users[u].role # q.name
        BY <1>1, <1>14, <2>1, <4>2 DEF Fresh, WithRole
      <4>. QED
        BY <1>10, <3>3, <4>1, <4>2
    <3>. QED
      BY <1>8, <3>1, <3>2, <3>3
  <2>. QED
    BY <1>15, <2>1 DEF AssignedRolesExist, Present
<1>17. RowsStay'
  <2>1. ASSUME NEW u \in Person, Present(u) PROVE users'[u].role # None
    BY <1>8, <1>9, <2>1 DEF Present
  <2>. QED
    BY <2>1 DEF IInv, RowsStay, Present
<1>18. ASSUME ~ overlapped', WithRole("owner") # {} PROVE WithRole("owner")' # {}
  <2>1. PICK o \in Person : users[o].role = "owner"
    BY <1>18 DEF WithRole
  <2>2. CASE q.op = "role" /\ q.who = o /\ q.name # "owner"
    <3>1. req[s].target = "owner"
      BY <1>1, <1>14, <1>15, <1>18, <2>1, <2>2 DEF Fresh
    <3>2. PICK v \in WithRole("owner") : v # q.who
      BY <1>1, <1>14, <1>15, <1>18, <2>2, <3>1 DEF Fresh
    <3>3. v \in Person /\ users'[v].role = "owner"
      BY <1>8, <2>2, <3>2 DEF WithRole
    <3>. QED
      BY <3>3 DEF WithRole
  <2>3. CASE ~ (q.op = "role" /\ q.who = o /\ q.name # "owner")
    <3>1. Present(o)
      BY <2>1, "owner" \in SYSTEM_ROLES DEF Present, SYSTEM_ROLES
    <3>2. users'[o].role = "owner"
      BY <1>8, <2>1, <2>3, <3>1
    <3>. QED
      BY <3>2 DEF WithRole
  <2>. QED
    BY <2>2, <2>3
<1>19. AuditNamesChanges'
  <2>1. CASE faults > 0
    BY <1>3, <2>1 DEF AuditNamesChanges
  <2>2. CASE ~ (faults > 0)
    <3>1. \A ops, x : Named(ops, x) => Named(ops, x)'
      <4>1. \A t \in Slot : req[t].at = "log" => req'[t] = req[t]
        BY <1>1, <1>6
      <4>2. audit \subseteq audit'
        BY <1>3
      <4>. QED
        BY <4>1, <4>2, NamedStays
    <3>2. ASSUME NEW ops, NEW y, q.op \in ops, q.op # "signin", About(q) = y PROVE Named(ops, y)'
      <4>1. req'[s].at = "log" /\ req'[s].q = q
        BY <1>4, <1>5, <3>2
      <4>. QED
        BY <3>2, <4>1 DEF Named, About
    <3>3. ASSUME NEW u \in Person, Start[u].role # None
          PROVE  /\ users'[u].role # Start[u].role => Named({"role"}, u)'
                 /\ users'[u].status # Start[u].status => Named({"status"}, u)'
      <4>1. Present(u)
        BY <3>3 DEF IInv, RowsStay
      <4>2. /\ users[u].role # Start[u].role => Named({"role"}, u)
            /\ users[u].status # Start[u].status => Named({"status"}, u)
        BY <2>2, <3>3 DEF IInv, AuditNamesChanges
      <4>3. q.op = "role" /\ q.who = u => Named({"role"}, u)'
        BY <3>2 DEF About
      <4>4. q.op = "status" /\ q.who = u => Named({"status"}, u)'
        BY <3>2 DEF About
      <4>5. \/ users'[u].status = users[u].status
            \/ q.op = "status" /\ u = q.who
            \/ q.op = "signin" /\ u = q.who /\ ~ Present(u)
        BY <1>1, <1>2, Mutation DEF IInv
      <4>. QED
        BY <1>8, <3>1, <4>1, <4>2, <4>3, <4>4, <4>5
    <3>4. ASSUME NEW u \in Person, NEW p \in Granted, grants'[<<u, p>>] # None
          PROVE  Named({"grant"}, u)'
      <4>1. /\ grants'[<<u, p>>] = grants[<<u, p>>] \/ (q.op \in {"grant", "ungrant"} /\ q.who = u)
            /\ q.op = "ungrant" => grants'[<<u, p>>] = grants[<<u, p>>] \/ grants'[<<u, p>>] = None
        BY <1>1, <1>2, Mutation DEF IInv
      <4>2. q.op = "grant" /\ q.who = u => Named({"grant"}, u)'
        BY <3>2 DEF About
      <4>3. grants[<<u, p>>] # None => Named({"grant"}, u)
        BY <2>2 DEF IInv, AuditNamesChanges
      <4>. QED
        BY <3>1, <3>4, <4>1, <4>2, <4>3
    <3>5. ASSUME NEW n \in Custom, roles'[n] # StartRoles[n]
          PROVE  Named({"create", "update", "delete"}, n)'
      <4>1. q.op \in {"create", "update", "delete"} /\ q.name = n => Named({"create", "update", "delete"}, n)'
        BY <3>2 DEF About
      <4>2. roles[n] # StartRoles[n] => Named({"create", "update", "delete"}, n)
        BY <2>2 DEF IInv, AuditNamesChanges
      <4>. QED
        BY <1>10, <3>1, <3>5, <4>1, <4>2
    <3>6. ASSUME NEW f \in flags' PROVE Named({"flag"}, f)'
      <4>1. f \in flags \/ (q.op = "flag" /\ q.flag = f)
        BY <1>1, <1>2, Mutation DEF IInv
      <4>2. q.op = "flag" /\ q.flag = f => Named({"flag"}, f)'
        BY <3>2 DEF About
      <4>3. f \in flags => Named({"flag"}, f)
        BY <2>2 DEF IInv, AuditNamesChanges
      <4>. QED
        BY <3>1, <4>1, <4>2, <4>3
    <3>. QED
      BY <3>3, <3>4, <3>5, <3>6 DEF AuditNamesChanges
  <2>. QED
    BY <2>1, <2>2
<1>. QED
  BY <1>11, <1>12, <1>13, <1>16, <1>17, <1>18, <1>19 DEF IInv

\* The handler writes its audit entry, or a database call fails.
LEMMA EndStep ==
  ASSUME IInv, NEW s \in Slot, Log(s) \/ CallFails(s)
  PROVE  IInv'
<1>1. req' = [req EXCEPT ![s] = Idle] /\ UNCHANGED <<tables, started, overlapped>>
  BY DEF Log, CallFails
<1>2. /\ faults' \in Nat
      /\ \/ faults' > 0
         \/ faults' = faults /\ audit' = audit \cup {<<req[s].q.op, About(req[s].q)>>}
  BY DEF Log, CallFails, IInv, TypeOK
<1>3. req'[s] = Idle /\ \A t \in Slot : t # s => req'[t] = req[t]
  BY <1>1 DEF IInv, TypeOK
<1>4. TypeOK'
  BY <1>1, <1>2 DEF IInv, TypeOK, tables
<1>5. (\A t \in Slot : Calls(t))' /\ ReadsAreFresh'
  <2>1. (\A t \in Slot : Calls(t))'
    BY <1>3, IdleWaits DEF IInv, Calls
  <2>2. ReadsAreFresh'
    BY <1>1, <1>3, OthersFresh, IdleWaits
  <2>. QED
    BY <2>1, <2>2
<1>6. AssignedRolesExist' /\ RowsStay' /\ AuditNamesChanges'
  BY <1>1, <1>2, <1>3, TablesStay
<1>. QED
  BY <1>4, <1>5, <1>6 DEF IInv

\* The server starts again.
LEMMA BootStep ==
  ASSUME IInv, Boot
  PROVE  IInv' /\ (WithRole("owner") # {} => WithRole("owner")' # {})
<1> USE AdminAssumption
<1>1. /\ faults' \in Nat /\ faults' > 0 /\ req' = [s \in Slot |-> Idle]
      /\ UNCHANGED <<roles, grants, flags, audit, started, overlapped>>
  BY DEF Boot, IInv, TypeOK
<1>2. /\ users' \in [Person -> [role : RoleNames, status : {"active", "suspended"}]]
      /\ \A u \in Person : users'[u].role \in {users[u].role, "owner"}
      /\ WithRole("owner") # {} => users' = users
  BY DEF Boot, IInv, TypeOK, RoleNames, SYSTEM_ROLES
<1>3. TypeOK'
  BY <1>1, <1>2 DEF IInv, TypeOK, RoleNames
<1>4. (\A s \in Slot : Calls(s))' /\ ReadsAreFresh'
  BY <1>1, IdleWaits DEF Calls, ReadsAreFresh
<1>5. AssignedRolesExist'
  BY <1>1, <1>2 DEF IInv, AssignedRolesExist, Present, SYSTEM_ROLES
<1>6. RowsStay'
  BY <1>2 DEF IInv, RowsStay, Present, SYSTEM_ROLES
<1>7. AuditNamesChanges'
  BY <1>1 DEF AuditNamesChanges
<1>8. WithRole("owner") # {} => WithRole("owner")' # {}
  BY <1>2 DEF WithRole
<1>. QED
  BY <1>3, <1>4, <1>5, <1>6, <1>7, <1>8 DEF IInv

\* Every step keeps the invariant, and there is an owner after it if there was one.
LEMMA StepKeeps ==
  ASSUME IInv, [Next]_vars
  PROVE  IInv' /\ (WithRole("owner") # {} /\ ~ overlapped' => WithRole("owner")' # {})
<1>1. CASE UNCHANGED vars
  <2>1. /\ UNCHANGED tables /\ overlapped' = overlapped /\ faults' = faults /\ audit' = audit
        /\ req' = req /\ started' = started
    BY <1>1 DEF vars
  <2>2. TypeOK' /\ (\A s \in Slot : Calls(s))'
    BY <2>1 DEF IInv, TypeOK, Calls, tables
  <2>3. ReadsAreFresh'
    BY <2>1 DEF IInv, ReadsAreFresh, Fresh, Defined, WithRole, tables
  <2>4. AssignedRolesExist' /\ RowsStay' /\ AuditNamesChanges'
    BY <2>1, TablesStay
  <2>5. WithRole("owner")' = WithRole("owner")
    BY <2>1 DEF WithRole, tables
  <2>. QED
    BY <2>2, <2>3, <2>4, <2>5 DEF IInv
<1>2. CASE Boot
  BY <1>2, BootStep
<1>3. ASSUME NEW s \in Slot, Write(s)
      PROVE  IInv' /\ (WithRole("owner") # {} /\ ~ overlapped' => WithRole("owner")' # {})
  BY <1>3, WriteStep
<1>4. ASSUME NEW s \in Slot,
             \/ Request(s) \/ RequestOnFallback(s) \/ SignIn(s)
             \/ Look(s) \/ Check(s) \/ Count(s) \/ Log(s) \/ CallFails(s)
      PROVE  IInv' /\ (WithRole("owner") # {} => WithRole("owner")' # {})
  <2>1. IInv'
    BY <1>4, OpenStep, LookStep, CheckStep, CountStep, EndStep
  <2>2. users' = users
    BY <1>4 DEF Request, RequestOnFallback, SignIn, Open, Look, Check, Count, Reads, Goes, Log, CallFails, tables
  <2>. QED
    BY <2>1, <2>2 DEF WithRole
<1>. QED
  BY <1>1, <1>2, <1>3, <1>4 DEF Next

-----------------------------------------------------------------------------
(* Who vouches for what a person gains *)

\* What the handler of s has made sure of about its actor.
Vetted(s) ==
  LET r == req[s]
      Gives(perms) == r.by.role = "owner" \/ perms \subseteq r.by.perms
  IN
  /\ r.q.op = "role" /\ r.at \in {"check", "count", "write"} => Present(r.q.who)
  /\ r.q.op = "role" /\ r.at \in {"count", "write"} =>
       /\ r.q.name \in {"owner", "admin"} => r.by.role = "owner"
       /\ Gives(r.seen)
  /\ r.q.op = "grant" /\ r.at = "write" /\ r.q.to = "allow" => Gives({r.q.perm})
  /\ r.q.op \in {"create", "update"} /\ r.at = "write" =>
       Gives(IF r.q.perms = NoRole THEN r.seen ELSE r.q.perms)

\* The row of a person does not go away.
LEMMA PresentStays ==
  ASSUME IInv, Next, NEW u \in Person, Present(u)
  PROVE  Present(u)'
<1> USE AdminAssumption
<1>1. CASE Boot
  <2>1. users'[u].role \in {users[u].role, "owner"}
    BY <1>1 DEF Boot, IInv, TypeOK
  <2>. QED
    BY <2>1 DEF Present, SYSTEM_ROLES
<1>2. ASSUME NEW s \in Slot, Write(s) PROVE Present(u)'
  <2> DEFINE q == req[s].q
  <2>1. req[s] \in Requests /\ Mutate(q, req[s])
    BY <1>2, Busy, IdleWaits DEF Write, IInv
  <2>2. \/ users'[u].role = users[u].role
        \/ q.op = "role" /\ u = q.who /\ users'[u].role = q.name
        \/ q.op = "signin" /\ u = q.who /\ ~ Present(u) /\ users'[u].role \in {"owner", "user"}
    BY <2>1, Mutation DEF IInv
  <2>3. q.op = "role" => q.name \in SYSTEM_ROLES \cup Custom
    BY <2>1, Shape DEF Requests
  <2>. QED
    BY <2>2, <2>3 DEF Present
<1>3. ASSUME NEW s \in Slot,
             \/ Request(s) \/ RequestOnFallback(s) \/ SignIn(s)
             \/ Look(s) \/ Check(s) \/ Count(s) \/ Log(s) \/ CallFails(s)
      PROVE  Present(u)'
  <2>1. users' = users
    BY <1>3 DEF Request, RequestOnFallback, SignIn, Open, Look, Check, Count, Reads, Goes, Log, CallFails, tables
  <2>. QED
    BY <2>1 DEF Present
<1>. QED
  BY <1>1, <1>2, <1>3 DEF Next

\* A handler that has gone on: its request is the same, with what it has read.
LEMMA HasRead ==
  ASSUME TypeOK, NEW s \in Slot, req[s] # Idle, NEW phase, phase # "idle", NEW seen, NEW target,
         Reads(s, phase, seen, target)
  PROVE  /\ req'[s].at = phase /\ req'[s].q = req[s].q /\ req'[s].by = req[s].by
         /\ req'[s].seen = seen
<1>1. req[s] \in Requests
  BY Busy
<1>2. req'[s] = [req[s] EXCEPT !.at = phase, !.seen = seen, !.target = target]
  BY DEF Reads, TypeOK
<1>. QED
  BY <1>1, <1>2 DEF Requests

\* A handler that answers: its slot is idle.
LEMMA HasAnswered ==
  ASSUME TypeOK, NEW s \in Slot, NEW seen, NEW target, Reads(s, "idle", seen, target)
  PROVE  Vetted(s)'
<1>1. req'[s] = Idle
  BY DEF Reads, TypeOK
<1>. QED
  BY <1>1, IdleWaits DEF Vetted

\* Each step keeps what handlers have made sure of.
LEMMA VettedStep ==
  ASSUME IInv, \A s \in Slot : Vetted(s), Next
  PROVE  \A s \in Slot : Vetted(s)'
<1> USE AdminAssumption
<1>1. ASSUME NEW s \in Slot, req'[s] = req[s] PROVE Vetted(s)'
  <2>1. Vetted(s)
    OBVIOUS
  <2>2. req[s].q.op = "role" /\ req[s].at \in {"check", "count", "write"} => req[s].q.who \in Person
    <3>1. ASSUME req[s].q.op = "role", req[s].at \in {"check", "count", "write"} PROVE req[s].q.who \in Person
      <4>1. req[s].q \in Routes \cup SignIns
        BY <3>1, Busy, IdleWaits DEF IInv
      <4>. QED
        BY <3>1, <4>1, Shape
    <3>. QED
      BY <3>1
  <2>3. req[s].q.op = "role" /\ req[s].at \in {"check", "count", "write"} => Present(req[s].q.who)'
    <3>1. ASSUME NEW u \in Person, Present(u) PROVE Present(u)'
      BY <3>1, PresentStays
    <3>2. ASSUME req[s].q.op = "role", req[s].at \in {"check", "count", "write"}
          PROVE  users'[req[s].q.who].role # None
      BY <2>1, <2>2, <3>1, <3>2 DEF Vetted, Present
    <3>. QED
      BY <1>1, <3>2 DEF Present
  <2>. QED
    BY <1>1, <2>1, <2>3 DEF Vetted
<1>2. ASSUME NEW s \in Slot, Vetted(s)', \A t \in Slot : t # s => req'[t] = req[t]
      PROVE  \A t \in Slot : Vetted(t)'
  BY <1>1, <1>2
<1>3. ASSUME NEW s \in Slot, req'[s].at \in {"idle", "look", "log"} PROVE Vetted(s)'
  BY <1>3 DEF Vetted
<1>4. CASE Boot
  BY <1>3, <1>4, IdleWaits DEF Boot
<1>5. ASSUME NEW s \in Slot, Request(s) \/ RequestOnFallback(s) \/ SignIn(s)
      PROVE  \A t \in Slot : Vetted(t)'
  <2>5. PICK q \in Routes \cup SignIns : \E by : Open(s, q, by)
    <3>1. CASE Request(s) \/ RequestOnFallback(s)
      BY <3>1 DEF Request, RequestOnFallback
    <3>2. CASE SignIn(s)
      <4>1. PICK u \in Person : Open(s, [op |-> "signin", who |-> u], [id |-> u, role |-> None, perms |-> {}])
        BY <3>2 DEF SignIn
      <4>. QED
        BY <4>1 DEF SignIns
    <3>. QED
      BY <1>5, <3>1, <3>2
  <2>1. PICK by : Open(s, q, by)
    BY <2>5
  <2>2. /\ req'[s] = [at |-> FirstRead(q), q |-> q, by |-> by, seen |-> {}, target |-> None]
        /\ \A t \in Slot : t # s => req'[t] = req[t]
    BY <2>1 DEF Open, IInv, TypeOK
  <2>3. /\ q.op \in {"role", "grant"} => FirstRead(q) = "look"
        /\ q.op \in {"create", "update"} => FirstRead(q) = "check"
    BY DEF FirstRead
  <2>4. Vetted(s)'
    BY <2>2, <2>3 DEF Vetted
  <2>. QED
    BY <1>2, <2>2, <2>4
<1>6. ASSUME NEW s \in Slot, Look(s) PROVE \A t \in Slot : Vetted(t)'
  <2> DEFINE q == req[s].q
  <2> DEFINE phase == AfterLook(q, req[s].by, users[q.who])
  <2>1. req[s].at = "look" /\ req[s] # Idle /\ Reads(s, phase, {}, users[q.who].role)
    BY <1>6, IdleWaits DEF Look
  <2>2. \A t \in Slot : t # s => req'[t] = req[t]
    BY <2>1 DEF Reads, IInv, TypeOK
  <2>3. q.op \in {"role", "status", "grant", "signin"}
    BY <2>1 DEF IInv, Calls
  <2>4. CASE phase = "idle"
    BY <1>2, <2>1, <2>2, <2>4, HasAnswered DEF IInv
  <2>5. CASE phase # "idle"
    <3>1. /\ q.op = "role" => phase = "check" /\ Present(q.who)
          /\ q.op = "grant" /\ phase = "write" /\ q.to = "allow" => MayGive(req[s].by, {q.perm})
      BY <2>3, <2>5 DEF AfterLook, Present
    <3>2. users' = users /\ UNCHANGED tables
      BY <2>1 DEF Reads, tables
    <3> HIDE DEF phase
    <3>3. req'[s].at = phase /\ req'[s].q = req[s].q /\ req'[s].by = req[s].by
      BY <2>1, <2>5, HasRead DEF IInv
    <3>4. Vetted(s)'
      BY <2>3, <3>1, <3>2, <3>3 DEF Vetted, MayGive, Present
    <3>. QED
      BY <1>2, <2>2, <3>4
  <2>. QED
    BY <2>4, <2>5
<1>7. ASSUME NEW s \in Slot, Check(s) PROVE \A t \in Slot : Vetted(t)'
  <2> DEFINE q == req[s].q
  <2> DEFINE phase == AfterCheck(q, req[s].by, req[s].target)
  <2>1. req[s].at = "check" /\ req[s] # Idle /\ Reads(s, phase, RolePermissions(q.name), req[s].target)
    BY <1>7, IdleWaits DEF Check
  <2>2. \A t \in Slot : t # s => req'[t] = req[t]
    BY <2>1 DEF Reads, IInv, TypeOK
  <2>3. q.op \in {"role", "create", "update", "delete"}
    BY <2>1 DEF IInv, Calls
  <2>4. CASE phase = "idle"
    BY <1>2, <2>1, <2>2, <2>4, HasAnswered DEF IInv
  <2>5. CASE phase # "idle"
    <3>1. /\ q.op = "role" => AssertCanAssignRole(req[s].by, q.name)
          /\ q.op = "create" => MayGive(req[s].by, q.perms) /\ q.perms # NoRole
          /\ q.op = "update" => MayGive(req[s].by, IF q.perms = NoRole THEN GetRole(q.name) ELSE q.perms)
      <4>1. q.op = "create" => q.perms # NoRole
        <5>1. q \in Routes \cup SignIns
          BY <2>1, Busy DEF IInv
        <5>. QED
          BY <5>1, Shape DEF NoRole
      <4>. QED
        BY <2>3, <2>5, <4>1 DEF AfterCheck
    <3>2. users' = users
      BY <2>1 DEF Reads, tables
    <3> HIDE DEF phase
    <3>3. /\ req'[s].at = phase /\ req'[s].q = req[s].q /\ req'[s].by = req[s].by
          /\ req'[s].seen = RolePermissions(q.name)
      BY <2>1, <2>5, HasRead DEF IInv
    <3>4. Present(q.who) \/ q.op # "role"
      BY <2>1 DEF Vetted
    <3>5. RolePermissions(q.name) \subseteq GetRole(q.name)
      BY DEF RolePermissions
    <3>6. Vetted(s)'
      BY <2>3, <3>1, <3>2, <3>3, <3>4, <3>5 DEF Vetted, MayGive, AssertCanAssignRole, Present
    <3>. QED
      BY <1>2, <2>2, <3>6
  <2>. QED
    BY <2>4, <2>5
<1>8. ASSUME NEW s \in Slot, Count(s) PROVE \A t \in Slot : Vetted(t)'
  <2> DEFINE q == req[s].q
  <2>1. req[s].at = "count" /\ req[s] # Idle /\ req[s] \in Requests /\ q.op \in {"role", "status", "delete", "signin"}
    BY <1>8, IdleWaits, Busy DEF Count, IInv, Calls
  <2>2. \A t \in Slot : t # s => req'[t] = req[t]
    BY <1>8 DEF Count, Reads, Goes, IInv, TypeOK
  <2>3. CASE q.op # "role"
    <3>1. req'[s].at = "idle" \/ req'[s].q = q
      <4>1. CASE q.op = "signin" /\ WithRole("owner") = {}
        <5>1. Reads(s, "write", {}, "owner")
          BY <1>8, <4>1 DEF Count
        <5>. QED
          BY <2>1, <5>1, HasRead DEF IInv
      <4>2. CASE ~ (q.op = "signin" /\ WithRole("owner") = {})
        <5>1. Goes(s, AfterCount(q))
          BY <1>8, <4>2 DEF Count
        <5>2. Reads(s, AfterCount(q), req[s].seen, req[s].target)
          BY <2>1, <5>1, GoesReads DEF IInv
        <5>3. CASE AfterCount(q) = "idle"
          <6>1. req'[s] = Idle
            BY <5>2, <5>3 DEF Reads, IInv, TypeOK
          <6>. QED
            BY <6>1, IdleWaits
        <5>4. CASE AfterCount(q) # "idle"
          BY <2>1, <5>2, <5>4, HasRead DEF IInv
        <5>. QED
          BY <5>3, <5>4
      <4>. QED
        BY <4>1, <4>2
    <3>2. Vetted(s)'
      BY <2>1, <2>3, <3>1 DEF Vetted
    <3>. QED
      BY <1>2, <2>2, <3>2
  <2>4. CASE q.op = "role"
    <3>1. Goes(s, AfterCount(q)) /\ users' = users
      BY <1>8, <2>4 DEF Count, Goes, tables
    <3>2. Reads(s, AfterCount(q), req[s].seen, req[s].target)
      BY <2>1, <3>1, GoesReads DEF IInv
    <3>3. CASE AfterCount(q) = "idle"
      BY <1>2, <2>2, <3>2, <3>3, HasAnswered DEF IInv
    <3>4. CASE AfterCount(q) # "idle"
      <4>1. AfterCount(q) = "write"
        BY <2>4, <3>4 DEF AfterCount
      <4>2. req'[s].at = "write" /\ req'[s].q = q /\ req'[s].by = req[s].by /\ req'[s].seen = req[s].seen
        BY <2>1, <3>2, <4>1, HasRead DEF IInv
      <4>3. Vetted(s)'
        BY <2>1, <2>4, <3>1, <4>2 DEF Vetted, Present
      <4>. QED
        BY <1>2, <2>2, <4>3
    <3>. QED
      BY <3>3, <3>4
  <2>. QED
    BY <2>3, <2>4
<1>9. ASSUME NEW s \in Slot, Write(s) \/ Log(s) \/ CallFails(s) PROVE \A t \in Slot : Vetted(t)'
  <2>1. \A t \in Slot : t # s => req'[t] = req[t]
    BY <1>9 DEF Write, Log, CallFails, IInv, TypeOK
  <2>2. req'[s].at \in {"idle", "log"}
    <3>1. CASE Write(s)
      <4>1. req[s] \in Requests
        BY <3>1, Busy, IdleWaits DEF Write, IInv
      <4>2. req'[s] = IF req[s].q.op = "signin" THEN Idle ELSE [req[s] EXCEPT !.at = "log"]
        BY <3>1 DEF Write, IInv, TypeOK
      <4>. QED
        BY <4>1, <4>2, IdleWaits DEF Requests
    <3>2. CASE Log(s) \/ CallFails(s)
      <4>1. req'[s] = Idle
        BY <3>2 DEF Log, CallFails, IInv, TypeOK
      <4>. QED
        BY <4>1, IdleWaits
    <3>. QED
      BY <1>9, <3>1, <3>2
  <2>. QED
    BY <1>2, <1>3, <2>1, <2>2
<1>. QED
  BY <1>4, <1>5, <1>6, <1>7, <1>8, <1>9 DEF Next

\* What it means to hold a permission.
LEMMA HoldsIs ==
  ASSUME NEW u, NEW p
  PROVE  p \in Holds(u) <=>
           /\ Present(u) /\ users[u].status # "suspended"
           /\ \/ users[u].role = "owner" /\ p \in PERMISSIONS
              \/ /\ users[u].role # "owner"
                 /\ \/ p \in RolePermissions(users[u].role)
                    \/ p \in Granted /\ grants[<<u, p>>] = "allow"
                 /\ ~ (p \in Granted /\ grants[<<u, p>>] = "deny")
  BY DEF Holds, ResolvePermissions, EffectivePermissions

\* The same after a step.
LEMMA HoldsIsThen ==
  ASSUME NEW u, NEW p
  PROVE  p \in Holds(u)' <=>
           /\ Present(u)' /\ users'[u].status # "suspended"
           /\ \/ users'[u].role = "owner" /\ p \in PERMISSIONS
              \/ /\ users'[u].role # "owner"
                 /\ \/ p \in RolePermissions(users[u].role)'
                    \/ p \in Granted /\ grants'[<<u, p>>] = "allow"
                 /\ ~ (p \in Granted /\ grants'[<<u, p>>] = "deny")
  BY DEF Holds, ResolvePermissions, EffectivePermissions

\* What somebody gains by a write is vouched for.
LEMMA WriteGains ==
  ASSUME IInv, NEW s \in Slot, Vetted(s), Write(s), NEW u \in Person, NEW p, p \in Holds(u)', p \notin Holds(u)
  PROVE  Vouched(req[s], p)
<1> USE AdminAssumption
<1> DEFINE q == req[s].q
<1> DEFINE by == req[s].by
<1>1. req[s].at = "write" /\ Mutate(q, req[s]) /\ q \in Routes \cup SignIns
  BY Busy, IdleWaits DEF Write, IInv
<1>2. /\ q.op \in {"role", "status", "grant", "ungrant", "create", "update", "delete", "flag", "signin"}
      /\ q.op \in {"role", "status", "grant", "ungrant", "signin"} => q.who \in Person
      /\ q.op \in {"role", "update", "delete"} => q.name \in SYSTEM_ROLES \cup Custom
      /\ q.op = "status" => q.to \in {"active", "suspended"}
      /\ q.op = "grant" => q.to \in {"allow", "deny"} /\ q.perm \in Granted
      /\ q.op = "create" => q.name \in Custom
  BY <1>1, Shape
<1>3. /\ users \in [Person -> [role : RoleNames, status : {"active", "suspended"}]]
      /\ roles \in [Custom -> (SUBSET PERMISSIONS) \cup {NoRole}]
      /\ grants \in [Person \X Granted -> {"allow", "deny", None}]
  BY DEF IInv, TypeOK, RoleNames
<1>4. roles' = roles => RolePermissions(users[u].role)' = RolePermissions(users'[u].role)
  BY DEF RolePermissions, GetRole
<1>11. ASSUME users'[u].role = users[u].role, users'[u].status = users[u].status, roles' = roles,
              p \in Granted => grants'[<<u, p>>] = grants[<<u, p>>]
       PROVE  FALSE
  <2>1. RolePermissions(users[u].role)' = RolePermissions(users[u].role)
    BY <1>11 DEF RolePermissions, GetRole
  <2>2. Present(u)' <=> Present(u)
    BY <1>11 DEF Present
  <2>. QED
    BY <1>11, <2>1, <2>2, HoldsIs, HoldsIsThen
<1>5. CASE q.op \in {"ungrant", "signin"} \/ (q.op = "status" /\ q.to = "active")
  BY <1>5 DEF Vouched
<1>6. CASE q.op = "flag"
  <2>1. users' = users /\ roles' = roles /\ grants' = grants
    BY <1>1, <1>6 DEF Mutate
  <2>. QED
    BY <1>11, <2>1
<1>7. CASE q.op = "status" /\ q.to = "suspended"
  <2>1. users' = [users EXCEPT ![q.who].status = q.to] /\ roles' = roles /\ grants' = grants
    BY <1>1, <1>7 DEF Mutate
  <2>2. u # q.who
    <3>1. users'[u].status # "suspended"
      BY HoldsIsThen
    <3>2. users'[q.who].status = "suspended"
      BY <1>2, <1>3, <1>7, <2>1
    <3>. QED
      BY <3>1, <3>2
  <2>3. users'[u] = users[u]
    BY <1>3, <2>1, <2>2
  <2>. QED
    BY <1>11, <2>1, <2>3
<1>8. CASE q.op = "role"
  <2>1. users' = [users EXCEPT ![q.who].role = q.name] /\ roles' = roles /\ grants' = grants
    BY <1>1, <1>8 DEF Mutate
  <2>2. CASE u # q.who
    <3>1. users'[u] = users[u]
      BY <1>3, <2>1, <2>2
    <3>. QED
      BY <1>11, <2>1, <3>1
  <2>3. CASE u = q.who
    <3>1. users'[u].role = q.name /\ users'[u].status = users[u].status
      BY <1>2, <1>3, <1>8, <2>1, <2>3
    <3>2. Present(u) /\ (q.name \in {"owner", "admin"} => by.role = "owner")
          /\ (by.role = "owner" \/ req[s].seen \subseteq by.perms)
      BY <1>1, <1>8, <2>3 DEF Vetted
    <3>3. CASE q.name = "owner"
      BY <3>2, <3>3 DEF Vouched
    <3>4. CASE q.name # "owner"
      <4>1. p \in RolePermissions(q.name) \/ (p \in Granted /\ grants[<<u, p>>] = "allow")
        BY <1>4, <2>1, <3>1, <3>4, HoldsIsThen
      <4>2. ~ (p \in Granted /\ grants[<<u, p>>] = "deny") /\ users[u].status # "suspended"
        BY <2>1, <3>1, <3>4, HoldsIsThen
      <4>3. ~ (p \in Granted /\ grants[<<u, p>>] = "allow")
        BY <3>2, <4>2, HoldsIs
      <4>. QED
        BY <1>8, <3>2, <4>1, <4>3 DEF Vouched
    <3>. QED
      BY <3>3, <3>4
  <2>. QED
    BY <2>2, <2>3
<1>9. CASE q.op = "grant"
  <2>1. users' = users /\ roles' = roles /\ grants' = [grants EXCEPT ![<<q.who, q.perm>>] = q.to]
    BY <1>1, <1>9 DEF Mutate
  <2>2. CASE u = q.who /\ p = q.perm
    <3>1. grants'[<<u, p>>] = q.to /\ p \in Granted
      BY <1>2, <1>3, <1>9, <2>1, <2>2
    <3>2. CASE q.to = "deny"
      <4>1. users[u].role = "owner" /\ p \in Holds(u)
        BY <1>4, <2>1, <3>1, <3>2, HoldsIs, HoldsIsThen DEF Present
      <4>. QED
        BY <4>1
    <3>3. CASE q.to = "allow"
      BY <1>1, <1>9, <2>2, <3>3 DEF Vetted, Vouched
    <3>. QED
      BY <1>2, <1>9, <3>2, <3>3
  <2>3. CASE ~ (u = q.who /\ p = q.perm)
    <3>1. p \in Granted => grants'[<<u, p>>] = grants[<<u, p>>]
      BY <1>3, <2>1, <2>3
    <3>. QED
      BY <1>11, <2>1, <3>1
  <2>. QED
    BY <2>2, <2>3
<1>10. CASE q.op \in {"create", "update", "delete"}
  <2>1. users' = users /\ grants' = grants
    BY <1>1, <1>10 DEF Mutate
  <2>2. p \in RolePermissions(users[u].role)' /\ p \notin RolePermissions(users[u].role)
    BY <2>1, HoldsIs, HoldsIsThen DEF Present
  <2>3. users[u].role \notin SYSTEM_ROLES
    BY <2>1, <2>2 DEF RolePermissions, GetRole
  <2>4. p \in roles'[users[u].role] \ {None} /\ p \notin roles[users[u].role] \ {None}
    BY <2>1, <2>2, <2>3 DEF RolePermissions, GetRole
  <2>5. users[u].role \in Custom
    <3>1. Present(u)
      BY <2>1, HoldsIsThen DEF Present
    <3>. QED
      BY <1>3, <2>3, <3>1 DEF RoleNames, Present
  <2>6. CASE q.op = "delete"
    <3>1. roles' = [roles EXCEPT ![q.name] = NoRole]
      BY <1>1, <2>6 DEF Mutate
    <3>. QED
      BY <1>3, <2>4, <2>5, <3>1 DEF NoRole
  <2>7. CASE q.op \in {"create", "update"}
    <3> DEFINE ps == IF q.perms = NoRole THEN req[s].seen ELSE q.perms
    <3>1. roles' = [roles EXCEPT ![q.name] = ps]
      BY <1>1, <2>7 DEF Mutate, Upsert
    <3>2. by.role = "owner" \/ ps \subseteq by.perms
      BY <1>1, <2>7 DEF Vetted
    <3> HIDE DEF ps
    <3>3. p \in ps
      BY <1>3, <2>4, <2>5, <3>1
    <3>. QED
      BY <3>2, <3>3 DEF Vouched
  <2>. QED
    BY <1>10, <2>6, <2>7
<1>. QED
  BY <1>2, <1>5, <1>6, <1>7, <1>8, <1>9, <1>10

\* What a step gives, a write gives, or a call has failed.
LEMMA Gains ==
  ASSUME IInv, \A s \in Slot : Vetted(s), Next, tables' # tables, NEW u \in Person, NEW p \in Holds(u)' \ Holds(u)
  PROVE  faults' # faults \/ \E s \in Slot : req[s].at = "write" /\ req'[s] # req[s] /\ Vouched(req[s], p)
<1>1. CASE Boot
  BY <1>1 DEF Boot, IInv, TypeOK
<1>2. ASSUME NEW s \in Slot, Write(s)
      PROVE  req[s].at = "write" /\ req'[s] # req[s] /\ Vouched(req[s], p)
  <2>1. Vouched(req[s], p)
    BY <1>2, WriteGains
  <2>2. req[s].at = "write" /\ req[s] \in Requests
    BY <1>2, Busy, IdleWaits DEF Write, IInv
  <2>3. req'[s] = IF req[s].q.op = "signin" THEN Idle ELSE [req[s] EXCEPT !.at = "log"]
    BY <1>2 DEF Write, IInv, TypeOK
  <2>4. req'[s].at # "write"
    BY <2>2, <2>3, IdleWaits DEF Requests
  <2>. QED
    BY <2>1, <2>2, <2>4
<1>3. ASSUME NEW s \in Slot,
             \/ Request(s) \/ RequestOnFallback(s) \/ SignIn(s)
             \/ Look(s) \/ Check(s) \/ Count(s) \/ Log(s) \/ CallFails(s)
      PROVE  FALSE
  BY <1>3 DEF Request, RequestOnFallback, SignIn, Open, Look, Check, Count, Reads, Goes, Log, CallFails, tables
<1>. QED
  BY <1>1, <1>2, <1>3 DEF Next

-----------------------------------------------------------------------------
(* Theorems *)

\* The invariant holds of every behaviour.
LEMMA Invariant == Spec => []IInv
<1>1. IInv /\ [Next]_vars => IInv'
  BY StepKeeps
<1>. QED
  BY <1>1, Initially, PTL DEF Spec

\* The tables keep the columns of db/schema.ts and the requests their shapes.
THEOREM AdminTypeCorrect == Spec => []TypeOK
<1>1. IInv => TypeOK
  BY DEF IInv
<1>. QED
  BY <1>1, Invariant, PTL

\* Requests that do not overlap leave nobody with a role that is not defined.
THEOREM RolesExist == Spec => []AssignedRolesExist
<1>1. IInv => AssignedRolesExist
  BY DEF IInv
<1>. QED
  BY <1>1, Invariant, PTL

\* Without a failed call, what differs from the start is named in the audit log, or about to be.
THEOREM ChangesAreNamed == Spec => []AuditNamesChanges
<1>1. IInv => AuditNamesChanges
  BY DEF IInv
<1>. QED
  BY <1>1, Invariant, PTL

\* The last owner is protected, whoever demotes whom, unless requests overlap.
THEOREM LastOwnerIsProtected == Spec => LastOwnerStays
<1>1. IInv /\ [Next]_vars => [WithRole("owner") # {} /\ ~overlapped' => WithRole("owner")' # {}]_vars
  BY StepKeeps
<1>. QED
  BY <1>1, Invariant, PTL DEF Spec, LastOwnerStays
\* "You can only assign roles / delegate permissions that are a subset of your own", in whatever order
\* the requests wait, with the exceptions that Vouched lists.
THEOREM NobodyGivesMore == Spec => GainsAreVouchedFor
<1> DEFINE Both == IInv /\ \A s \in Slot : Vetted(s)
<1>1. Init => Both
  <2>1. Init => \A s \in Slot : Vetted(s)
    BY IdleWaits DEF Init, Vetted
  <2>. QED
    BY <2>1, Initially
<1>2. Both /\ [Next]_vars => Both'
  <2>1. ASSUME Both, UNCHANGED vars PROVE (\A s \in Slot : Vetted(s))'
    BY <2>1 DEF vars, tables, Vetted, Present
  <2>. QED
    BY <2>1, StepKeeps, VettedStep
<1>3. Both /\ [Next]_vars =>
        [tables' # tables => \A u \in Person : \A p \in Holds(u)' \ Holds(u) :
           faults' # faults \/ \E s \in Slot : req[s].at = "write" /\ req'[s] # req[s] /\ Vouched(req[s], p)]_vars
  BY Gains
<1>. QED
  BY <1>1, <1>2, <1>3, PTL DEF Spec, GainsAreVouchedFor

=============================================================================
