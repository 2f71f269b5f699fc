-------------------------------- MODULE Admin --------------------------------
(***************************************************************************)
(* The admin console's API (apps/api/src/modules/admin.ts) on the tables   *)
(* user, roles, user_grants and feature_flags (admin/repo.ts), the request *)
(* middleware that computes an actor's permissions once, when the request  *)
(* arrives (middleware.ts, rbac.ts), the first sign-in of a person         *)
(* (ensureAppUser in auth/logto.ts) and the boot-time set-up               *)
(* (db/bootstrap.ts).                                                      *)
(*                                                                         *)
(* A request is a record of req: what was asked, the actor as the          *)
(* middleware saw it, and what its handler has read so far.  A handler     *)
(* runs from one database call to the next in one step: Look is getUser,   *)
(* Check getRole, Count countByRole, Write the mutation and Log the audit  *)
(* entry, so that Slot requests interleave at every await.                 *)
(*                                                                         *)
(* The inputs are small sets (Person, Custom, Assigned, Granted, RoleSets, *)
(* Flag); MaxRequests bounds the requests, MaxFaults the failed database   *)
(* calls and the restarts.  E-mail addresses are compared with AdminEmail  *)
(* only; names, labels and paging are left out.                            *)
(***************************************************************************)
EXTENDS FiniteSets, Naturals

CONSTANTS Person, AdminEmail, Custom, Assigned, Granted, RoleSets, Flag, Start, StartRoles,
          Slot, None, MaxRequests, MaxFaults

PERMISSIONS == {"users:read", "users:write", "roles:assign", "roles:manage", "permissions:grant", "flags:write",
                "audit:read", "convert:server", "conversions:read", "conversions:write", "chat:use"}

SYSTEM_ROLES == {"owner", "admin", "moderator", "user"}

SYSTEM_ROLE_PERMISSIONS ==
  [owner |-> PERMISSIONS,
   admin |-> PERMISSIONS \ {"roles:manage"},
   moderator |-> {"users:read", "audit:read", "conversions:read", "chat:use"},
   user |-> {"convert:server", "conversions:read", "conversions:write", "chat:use"}]

ASSUME AdminAssumption ==
  /\ AdminEmail \in Person /\ None \notin SYSTEM_ROLES \cup Custom \cup Person \cup PERMISSIONS
  /\ Custom \cap SYSTEM_ROLES = {} /\ Assigned \subseteq SYSTEM_ROLES \cup Custom
  /\ Granted \subseteq PERMISSIONS /\ RoleSets \subseteq SUBSET PERMISSIONS
  /\ MaxRequests \in Nat /\ MaxFaults \in Nat

\* The tables that the model starts with: nobody has a role that is not there.
ASSUME StartAssumption ==
  /\ Start \in [Person -> [role : SYSTEM_ROLES \cup Custom \cup {None}, status : {"active", "suspended"}]]
  /\ StartRoles \in [Custom -> (SUBSET PERMISSIONS) \cup {{None}}]
  /\ \A u \in Person : Start[u].role \in Custom => StartRoles[Start[u].role] # {None}

VARIABLES
  users,      \* user: role (None: no row) and status of each person
  roles,      \* roles: the permissions of each custom role, {None} when there is none
  grants,     \* user_grants: <<person, permission>> -> "allow", "deny" or None
  flags,      \* feature_flags: the flags that are on
  audit,      \* audit_log: <<operation, person or role or flag>>
  req,        \* the requests in progress
  started,    \* requests so far
  overlapped, \* history: a request has written while another was between its first read and its write
  faults

tables == <<users, roles, grants, flags>>
vars == <<tables, audit, req, started, overlapped, faults>>

NoRole == {None}
Idle == [at |-> "idle"]

Init ==
  /\ users = Start
  /\ roles = StartRoles
  /\ grants = [x \in Person \X Granted |-> None]
  /\ flags = {} /\ audit = {}
  /\ req = [s \in Slot |-> Idle]
  /\ started = 0 /\ overlapped = FALSE /\ faults = 0

-----------------------------------------------------------------------------
(* Permissions *)

GetRole(n) == IF n \in SYSTEM_ROLES THEN SYSTEM_ROLE_PERMISSIONS[n] ELSE roles[n]

\* A role that is not in the table has no permissions.
RolePermissions(n) == GetRole(n) \ {None}

EffectivePermissions(base, u) ==
  (base \cup {p \in Granted : grants[<<u, p>>] = "allow"}) \ {p \in Granted : grants[<<u, p>>] = "deny"}

\* What the middleware gives the handler.
ResolvePermissions(u) ==
  IF users[u].status = "suspended" THEN {}
  ELSE IF users[u].role = "owner" THEN PERMISSIONS
  ELSE EffectivePermissions(RolePermissions(users[u].role), u)

\* When the grants cannot be read, the permissions of the built-in role.
Fallback(u) == IF users[u].role \in SYSTEM_ROLES THEN SYSTEM_ROLE_PERMISSIONS[users[u].role] ELSE {}

Present(u) == users[u].role # None
WithRole(n) == {u \in Person : users[u].role = n}

-----------------------------------------------------------------------------
(* Requests *)

\* The routes: what each one asks for, and the permission it requires.
Routes ==
  [op : {"role"}, who : Person, name : Assigned] \cup
  [op : {"status"}, who : Person, to : {"active", "suspended"}] \cup
  [op : {"grant"}, who : Person, perm : Granted, to : {"allow", "deny"}] \cup
  [op : {"ungrant"}, who : Person, perm : Granted] \cup
  [op : {"create"}, name : Custom, perms : RoleSets] \cup
  [op : {"update"}, name : Assigned, perms : RoleSets \cup {NoRole}] \cup
  [op : {"delete"}, name : Assigned] \cup
  [op : {"flag"}, flag : Flag, to : BOOLEAN]

Required ==
  [role |-> "roles:assign", status |-> "users:write", grant |-> "permissions:grant", ungrant |-> "permissions:grant",
   create |-> "roles:manage", update |-> "roles:manage", delete |-> "roles:manage", flag |-> "flags:write"]

\* Nobody changes their own role or grants, or suspends themselves.
OnSelf(a, q) ==
  \/ (q.op \in {"role", "grant", "ungrant"} /\ q.who = a)
  \/ (q.op = "status" /\ q.to = "suspended" /\ q.who = a)

\* Where the handler waits first.
FirstRead(q) ==
  CASE q.op \in {"role", "status", "grant", "signin"} -> "look"
    [] q.op \in {"create", "update", "delete"} -> "check"
    [] OTHER -> "write"

By(u, perms) == [id |-> u, role |-> users[u].role, perms |-> perms]

Free(s) == req[s] = Idle /\ started < MaxRequests

Open(s, q, by) ==
  /\ req' = [req EXCEPT ![s] = [at |-> FirstRead(q), q |-> q, by |-> by, seen |-> {}, target |-> None]]
  /\ started' = started + 1
  /\ UNCHANGED <<tables, audit, overlapped>>

\* The middleware reads the row and then the permissions of its role; both are as of one moment here.
Request(s) ==
  /\ Free(s) /\ UNCHANGED faults
  /\ \E a \in {p \in Person : Present(p)} : \E perms \in {ResolvePermissions(a)} :
       \E q \in {r \in Routes : ~OnSelf(a, r) /\ Required[r.op] \in perms} : Open(s, q, By(a, perms))

\* effectivePermissionsFor fails, and works again for the handler.
RequestOnFallback(s) ==
  /\ Free(s)
  /\ faults < MaxFaults /\ faults' = faults + 1
  /\ \E a \in {p \in Person : Present(p) /\ users[p].status = "active" /\ users[p].role # "owner"} :
       \E q \in {r \in Routes : ~OnSelf(a, r) /\ Required[r.op] \in Fallback(a)} : Open(s, q, By(a, Fallback(a)))

\* The middleware of any request of a person who has no row yet.
SignIn(s) ==
  /\ Free(s) /\ UNCHANGED faults
  /\ \E u \in {p \in Person : ~Present(p)} :
       Open(s, [op |-> "signin", who |-> u], [id |-> u, role |-> None, perms |-> {}])

\* The request's next phase; "idle" answers it.
Goes(s, phase) ==
  /\ req' = [req EXCEPT ![s] = IF phase = "idle" THEN Idle ELSE [@ EXCEPT !.at = phase]]
  /\ UNCHANGED <<tables, audit, started, overlapped, faults>>

Reads(s, phase, seen, target) ==
  /\ req' = [req EXCEPT ![s] = IF phase = "idle" THEN Idle ELSE [@ EXCEPT !.at = phase, !.seen = seen, !.target = target]]
  /\ UNCHANGED <<tables, audit, started, overlapped, faults>>

-----------------------------------------------------------------------------
(* Handlers *)

\* Mutant: the actor's own permissions are not looked at.
MayGiveAnything(by, perms) == TRUE

\* Only what one has oneself can be given; an owner has everything.
MayGive(by, perms) == by.role = "owner" \/ perms \subseteq by.perms

AssertCanAssignRole(by, n) ==
  /\ GetRole(n) # NoRole
  /\ n \in {"owner", "admin"} => by.role = "owner"
  /\ MayGive(by, GetRole(n))

AfterLook(q, by, row) ==
  IF (row.role = None) # (q.op = "signin") THEN "idle"
  ELSE
  CASE q.op = "signin" -> IF q.who = AdminEmail THEN "count" ELSE "write"
    [] q.op = "role" -> "check"
    [] q.op = "status" -> IF q.to = "suspended" /\ row.role = "owner" THEN "count" ELSE "write"
    [] q.op = "grant" -> IF q.to = "allow" /\ ~MayGive(by, {q.perm}) THEN "idle" ELSE "write"

Look(s) ==
  /\ req[s].at = "look"
  /\ LET q == req[s].q row == users[q.who]
     IN Reads(s, AfterLook(q, req[s].by, row), {}, row.role)

AfterCheck(q, by, target) ==
  CASE q.op = "role" ->
         IF ~AssertCanAssignRole(by, q.name) THEN "idle"
         ELSE IF target = "owner" /\ q.name # "owner" THEN "count" ELSE "write"
    [] q.op = "create" -> IF GetRole(q.name) = NoRole /\ MayGive(by, q.perms) THEN "write" ELSE "idle"
    [] q.op = "update" ->
         IF q.name \notin SYSTEM_ROLES /\ GetRole(q.name) # NoRole
            /\ MayGive(by, IF q.perms = NoRole THEN GetRole(q.name) ELSE q.perms) THEN "write" ELSE "idle"
    [] q.op = "delete" -> IF q.name \notin SYSTEM_ROLES /\ GetRole(q.name) # NoRole THEN "count" ELSE "idle"

Check(s) ==
  /\ req[s].at = "check"
  /\ LET q == req[s].q
     IN Reads(s, AfterCheck(q, req[s].by, req[s].target), RolePermissions(q.name), req[s].target)

\* Mutant: the owner to go is not counted.
AfterCountTooLate(q) ==
  CASE q.op \in {"role", "status"} -> IF WithRole("owner") = {} THEN "idle" ELSE "write"
    [] q.op = "delete" -> IF WithRole(q.name) # {} THEN "idle" ELSE "write"
    [] q.op = "signin" -> "write"

\* Mutant: a role is deleted whoever has it.
AfterCountOfOwners(q) ==
  CASE q.op \in {"role", "status"} -> IF Cardinality(WithRole("owner")) <= 1 THEN "idle" ELSE "write"
    [] OTHER -> "write"

\* A suspended owner counts.
AfterCount(q) ==
  CASE q.op \in {"role", "status"} -> IF Cardinality(WithRole("owner")) <= 1 THEN "idle" ELSE "write"
    [] q.op = "delete" -> IF WithRole(q.name) # {} THEN "idle" ELSE "write"
    [] q.op = "signin" -> "write"

Count(s) ==
  /\ req[s].at = "count"
  /\ IF req[s].q.op = "signin" /\ WithRole("owner") = {}
     THEN Reads(s, "write", {}, "owner")
     ELSE Goes(s, AfterCount(req[s].q))

\* An update that names no permissions writes those it has read.
Upsert(q, seen) == [roles EXCEPT ![q.name] = IF q.perms = NoRole THEN seen ELSE q.perms]

Insert(q, target) ==
  IF Present(q.who) THEN users
  ELSE [users EXCEPT ![q.who] = [role |-> IF target = "owner" THEN "owner" ELSE "user", status |-> "active"]]

About(q) == CASE q.op \in {"role", "status", "grant", "ungrant"} -> q.who
              [] q.op = "flag" -> q.flag
              [] OTHER -> q.name

Mutate(q, r) ==
  /\ users' = CASE q.op = "role" -> [users EXCEPT ![q.who].role = q.name]
                [] q.op = "status" -> [users EXCEPT ![q.who].status = q.to]
                [] q.op = "signin" -> Insert(q, r.target)
                [] OTHER -> users
  /\ grants' = CASE q.op = "grant" -> [grants EXCEPT ![<<q.who, q.perm>>] = q.to]
                 [] q.op = "ungrant" -> [grants EXCEPT ![<<q.who, q.perm>>] = None]
                 [] OTHER -> grants
  /\ roles' = CASE q.op \in {"create", "update"} -> Upsert(q, r.seen)
                [] q.op = "delete" -> [roles EXCEPT ![q.name] = NoRole]
                [] OTHER -> roles
  /\ flags' = CASE q.op = "flag" -> IF q.to THEN flags \cup {q.flag} ELSE flags \ {q.flag}
                [] OTHER -> flags

Write(s) ==
  /\ req[s].at = "write"
  /\ Mutate(req[s].q, req[s])
  /\ req' = [req EXCEPT ![s] = IF @.q.op = "signin" THEN Idle ELSE [@ EXCEPT !.at = "log"]]
  /\ overlapped' = (overlapped \/ \E t \in Slot \ {s} : req[t].at \in {"check", "count", "write"})
  /\ UNCHANGED <<audit, started, faults>>

\* Mutant: role changes only are logged.
LogRolesOnly(s) ==
  /\ req[s].at = "log"
  /\ audit' = IF req[s].q.op = "role" THEN audit \cup {<<"role", About(req[s].q)>>} ELSE audit
  /\ req' = [req EXCEPT ![s] = Idle]
  /\ UNCHANGED <<tables, started, overlapped, faults>>

Log(s) ==
  /\ req[s].at = "log"
  /\ audit' = audit \cup {<<req[s].q.op, About(req[s].q)>>}
  /\ req' = [req EXCEPT ![s] = Idle]
  /\ UNCHANGED <<tables, started, overlapped, faults>>

\* A database call fails: the request is answered 500, and what it has written stays.
CallFails(s) ==
  /\ req[s] # Idle
  /\ req' = [req EXCEPT ![s] = Idle]
  /\ faults < MaxFaults /\ faults' = faults + 1
  /\ UNCHANGED <<tables, audit, started, overlapped>>

\* ensureBootstrapAdmin: without an owner row, the person with ADMIN_EMAIL becomes one again.
Boot ==
  /\ faults < MaxFaults /\ faults' = faults + 1
  /\ req' = [s \in Slot |-> Idle]
  /\ users' = IF WithRole("owner") = {} /\ Present(AdminEmail)
              THEN [users EXCEPT ![AdminEmail] = [role |-> "owner", status |-> "active"]] ELSE users
  /\ UNCHANGED <<roles, grants, flags, audit, started, overlapped>>

Next ==
  \/ Boot
  \/ \E s \in Slot :
       \/ Request(s) \/ RequestOnFallback(s) \/ SignIn(s)
       \/ Look(s) \/ Check(s) \/ Count(s) \/ Write(s) \/ Log(s) \/ CallFails(s)

Spec == Init /\ [][Next]_vars

-----------------------------------------------------------------------------
(* Properties *)

\* The tables have the columns of db/schema.ts, and a request in progress is at one of its handler's calls.
TypeOK ==
  /\ users \in [Person -> [role : SYSTEM_ROLES \cup Custom \cup {None}, status : {"active", "suspended"}]]
  /\ roles \in [Custom -> (SUBSET PERMISSIONS) \cup {NoRole}]
  /\ grants \in [Person \X Granted -> {"allow", "deny", None}]
  /\ flags \subseteq Flag
  /\ req \in [Slot -> {Idle} \cup
                [at : {"look", "check", "count", "write", "log"}, q : Routes \cup [op : {"signin"}, who : Person],
                 by : [id : Person, role : SYSTEM_ROLES \cup Custom \cup {None}, perms : SUBSET PERMISSIONS],
                 seen : SUBSET PERMISSIONS, target : SYSTEM_ROLES \cup Custom \cup {None}]]
  /\ started \in Nat /\ overlapped \in BOOLEAN /\ faults \in Nat

\* "You can only assign roles / delegate permissions that are a subset of your own" (admin.ts:8-9): a step by
\* which a person comes to hold a permission is the write of a request, and then its actor was an owner or held
\* the permission when the request arrived.  The exceptions are what the code leaves open: the role has got the
\* permission since it was checked, a deny is withdrawn, a suspended person is reactivated, a first sign-in.
Holds(u) == IF Present(u) THEN ResolvePermissions(u) ELSE {}

Vouched(r, p) ==
  \/ r.by.role = "owner" \/ p \in r.by.perms
  \/ r.q.op \in {"ungrant", "signin"} \/ (r.q.op = "status" /\ r.q.to = "active")
  \/ (r.q.op = "role" /\ p \notin r.seen)

GainsAreVouchedFor ==
  [][tables' # tables => \A u \in Person : \A p \in Holds(u)' \ Holds(u) :
        faults' # faults \/ \E s \in Slot : req[s].at = "write" /\ req'[s] # req[s] /\ Vouched(req[s], p)]_vars

\* "The last owner is protected from removal" (admin.ts:9-10): as long as no request has written between the
\* reads and the write of another one, there is an owner's row once there has been one.
LastOwnerStays == [][WithRole("owner") # {} /\ ~overlapped' => WithRole("owner")' # {}]_vars

\* "role is still assigned to users; reassign them first" (admin.ts:202): nobody has a role that is not defined,
\* unless requests have overlapped.
AssignedRolesExist ==
  overlapped \/ \A u \in Person : Present(u) => users[u].role \in SYSTEM_ROLES \/ roles[users[u].role] # NoRole

\* An entry about x, or a request about to write one.
Named(ops, x) == \/ \E op \in ops : <<op, x>> \in audit
                 \/ \E s \in Slot : req[s].at = "log" /\ req[s].q.op \in ops /\ About(req[s].q) = x

\* "Every mutation is written to the audit log" (admin.ts:10): what differs from the start is named by an entry
\* or by a request about to write one, unless a call has failed.
AuditNamesChanges ==
  \/ faults > 0
  \/ /\ \A u \in Person : Start[u].role # None =>
           /\ users[u].role # Start[u].role => Named({"role"}, u)
           /\ users[u].status # Start[u].status => Named({"status"}, u)
     /\ \A u \in Person, p \in Granted : grants[<<u, p>>] # None => Named({"grant"}, u)
     /\ \A n \in Custom : roles[n] # StartRoles[n] => Named({"create", "update", "delete"}, n)
     /\ \A f \in flags : Named({"flag"}, f)
=============================================================================
