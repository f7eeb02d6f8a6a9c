--------------------------- MODULE Authorization ---------------------------
(***************************************************************************)
(* Role based authorization (crates/iam): the rows of sys_users and        *)
(* sys_roles, the Casbin rules stored in casbin_rule, and in every process *)
(* a snapshot of all three that decides requests (EnforcementEngine).      *)
(*                                                                         *)
(* A management request changes the database first and the snapshot of     *)
(* its own process afterwards, both under the process's mutation_lock when *)
(* rules are concerned; other processes learn of the change from a Redis   *)
(* notification, which may be lost, or from their next periodic reload.  A *)
(* reload reads rules, users and roles with separate queries.              *)
(*                                                                         *)
(* One step is one database transaction or one critical section.  Inside a *)
(* critical section the snapshot's write lock is held, so no reader of the *)
(* process can see a state between a save and the matching change of the   *)
(* snapshot: the two are one step, and CutAfterSave is the request that is *)
(* dropped between them.                                                   *)
(***************************************************************************)
EXTENDS Naturals, FiniteSets

CONSTANTS
    Procs,          \* processes serving one database
    Requests,       \* management requests, each issued at most once
    Users, Roles,   \* identities of accounts and of normal roles (serial ids, never reused)
    SuperAdmin,     \* the protected role
    Permissions,    \* enabled permission codes of the access catalog
    PageOf,         \* the owning page permission of every action permission
    DeptOf,         \* the department of every account
    InitDatabases,  \* the databases the processes may have started from
    Ops,            \* the kinds of requests issued
    Cuts,           \* TRUE: a request may be dropped at any await
    MaxCrashes,     \* bound on process crashes
    NoOne, NoUser, NoRole

AllRoles == Roles \cup {SuperAdmin}
RowStates == {"new", "enabled", "disabled", "gone"}
OpKinds == {"assign", "access", "userStatus", "roleStatus", "deleteUser",
            "deleteRole", "createUser", "createRole", "ensureAdmin"}

ASSUME AuthorizationConstants ==
    /\ SuperAdmin \notin Roles
    /\ NoUser \notin Users /\ NoRole \notin AllRoles
    /\ NoOne \notin Requests /\ "reload" \notin Requests /\ NoOne # "reload"
    /\ DOMAIN PageOf \subseteq Permissions
    /\ \A a \in DOMAIN PageOf : PageOf[a] \in Permissions \ DOMAIN PageOf
    /\ DOMAIN DeptOf = Users
    /\ InitDatabases \subseteq [users : [Users -> RowStates], roles : [AllRoles -> RowStates],
                               memberships : SUBSET (Users \X AllRoles),
                               grants : SUBSET (AllRoles \X Permissions)]
    /\ Ops \subseteq OpKinds
    /\ Cuts \in BOOLEAN
    /\ MaxCrashes \in Nat

VARIABLES
    users,          \* sys_users: whether the row exists and its enable column
    roles,          \* sys_roles: whether the row exists and its status column
    memberships,    \* casbin_rule, ptype g: <<user, role>>
    grants,         \* casbin_rule, ptype p: <<role, permission>>
    memory,         \* the snapshot of every process
    alive,          \* the processes that have loaded a snapshot and serve
    lock,           \* the holder of every process's mutation_lock
    reload,         \* the rebuild in progress in every process
    inbox,          \* a reload notification waits in the process
    reqs,           \* the management requests
    crashes,
    behind          \* history: the database changed in a way the process has not been told of

database == <<users, roles, memberships, grants>>
vars == <<users, roles, memberships, grants, memory, alive, lock, reload, inbox, reqs, crashes, behind>>

-----------------------------------------------------------------------------
(* Reading the database.                                                   *)

RowStatus(row) == IF row \in {"enabled", "disabled"} THEN row ELSE "none"
Exists(row) == row \in {"enabled", "disabled"}
UserFacts == [u \in Users |-> RowStatus(users[u])]
EnabledRoles == {r \in AllRoles : roles[r] = "enabled"}

NoSnapshot == [memberships |-> {}, grants |-> {},
               users |-> [u \in Users |-> "none"], enabledRoles |-> {}]
FromDatabase == [memberships |-> memberships, grants |-> grants,
                 users |-> UserFacts, enabledRoles |-> EnabledRoles]

\* Every action permission a role holds comes with its owning page.
Closed(g) == \A x \in g : x[2] \in DOMAIN PageOf => <<x[1], PageOf[x[2]]>> \in g

\* validate_loaded_policy, on rules m, g read earlier and facts us, rs.
Loadable(m, g, us, rs) ==
    /\ rs[SuperAdmin] = "enabled"
    /\ \A x \in g : Exists(rs[x[1]])
    /\ Closed(g)
    /\ \A x \in m : us[x[1]] # "none" /\ Exists(rs[x[2]])
    /\ {SuperAdmin} \X Permissions \subseteq g

StoredLoadable == Loadable(memberships, grants, UserFacts, roles)

-----------------------------------------------------------------------------
(* Decisions on a snapshot.                                                *)

RolesIn(m, u) == {r \in AllRoles : <<u, r>> \in m}
PermissionsIn(g, r) == {x \in Permissions : <<r, x>> \in g}

\* require_active_user, then authorize_permission.
Allowed(s, u, perm) ==
    /\ s.users[u] = "enabled"
    /\ \E r \in RolesIn(s.memberships, u) \cap s.enabledRoles :
           perm \in PermissionsIn(s.grants, r)

IsActiveSuperAdmin(p, u) ==
    /\ memory[p].users[u] = "enabled"
    /\ SuperAdmin \in memory[p].enabledRoles
    /\ <<u, SuperAdmin>> \in memory[p].memberships

SomeSuperAdmin(p) == \E actor \in Users : IsActiveSuperAdmin(p, actor)

\* require_role_manager, for some actor.
MayManageRoles(p) == SomeSuperAdmin(p)

\* Accounts::boundary and require_visible_user for some actor.
VisibleToSomeone(p, target) ==
    \E actor \in Users :
        /\ users[actor] = "enabled"
        /\ \/ IsActiveSuperAdmin(p, actor) /\ Exists(users[target])
           \/ DeptOf[actor] = DeptOf[target] /\ Exists(users[target])
           \/ actor = target

\* Variant: the permissions of every role of the user, enabled or not.
AssignedPermissions(p, u) ==
    UNION {PermissionsIn(memory[p].grants, r) : r \in {x \in RolesIn(memory[p].memberships, u) : Exists(roles[x])}}

\* active_user_role_ids, then effective_permission_grants: what the access view
\* of a user shows, named by the roles that exist in the database.
ActiveRoles(p, u) == RolesIn(memory[p].memberships, u) \cap memory[p].enabledRoles
EffectivePermissions(p, u) ==
    UNION {PermissionsIn(memory[p].grants, r) : r \in {x \in ActiveRoles(p, u) : Exists(roles[x])}}

\* Accounts::access: the roles of a user that exist, whatever their status, and
\* what the enabled ones among them grant.
AccessView(p, u) ==
    [assigned |-> {r \in RolesIn(memory[p].memberships, u) : Exists(roles[r])},
     effective |-> EffectivePermissions(p, u)]

\* RoleService::access, by role_permissions: what the editor of a role starts from.
RoleAccessView(p, role) == PermissionsIn(memory[p].grants, role)

HasMembers(p, role) == \E u \in Users : <<u, role>> \in memory[p].memberships

-----------------------------------------------------------------------------
(* The Casbin library and its SQL adapter, from how the engine uses them.  *)
(* A bulk save is one transaction.  The unique index on a rule makes a     *)
(* second insert of it fail the transaction, or the adapter skips the row; *)
(* deleting a rule that is not there likewise.  Both outcomes are allowed. *)

AddOutcomes(stored, new) ==
    {[ok |-> TRUE, rules |-> stored \cup new]}
    \cup IF new \cap stored # {} THEN {[ok |-> FALSE, rules |-> stored]} ELSE {}

RemoveOutcomes(stored, old) ==
    {[ok |-> TRUE, rules |-> stored \ old]}
    \cup IF old \subseteq stored THEN {} ELSE {[ok |-> FALSE, rules |-> stored]}

\* remove_filtered_*: when no row matched, the in-memory rules may be left alone.
FilteredOutcomes(stored, held, matching) ==
    {[stored |-> stored \ matching, held |-> held \ matching]}
    \cup IF stored \cap matching = {} THEN {[stored |-> stored, held |-> held]} ELSE {}

\* A notification published by p reaches any of the other processes, or none.
Notify(p) ==
    \E S \in SUBSET (alive \ {p}) : inbox' = [q \in Procs |-> inbox[q] \/ q \in S]

-----------------------------------------------------------------------------
(* Requests.                                                               *)

Terminal == {"idle", "ok", "failed", "cut"}
LockedSteps == {"add", "remove", "detachRole"}

Idle == [pc |-> "idle", at |-> NoOne, op |-> "none", user |-> NoUser, role |-> NoRole,
         want |-> {}, add |-> {}, rem |-> {}, to |-> "none"]

\* What a request asks for, and what it found or computed on the way.
Fields == [pc : {"validate", "replace", "update", "insert", "overlay", "bootstrap",
                 "detachUser", "revoke", "deleteRow"} \cup Terminal \cup LockedSteps,
           at : Procs \cup {NoOne}, op : OpKinds \cup {"none"},
           user : Users \cup {NoUser}, role : AllRoles \cup {NoRole},
           want : (SUBSET AllRoles) \cup (SUBSET Permissions),
           add : (SUBSET (Users \X AllRoles)) \cup (SUBSET (AllRoles \X Permissions)),
           rem : (SUBSET (Users \X AllRoles)) \cup (SUBSET (AllRoles \X Permissions)),
           to : {"none", "enabled", "disabled"}]

Goto(r, pc) == reqs' = [reqs EXCEPT ![r].pc = pc]

\* The database changed through p: the other processes have not heard of it.
Outdate(p) ==
    /\ behind' = [q \in Procs |-> behind[q] \/ q # p]
    /\ reload' = [q \in Procs |->
                     [reload[q] EXCEPT !.missed = @ \/ (q # p /\ reload[q].pc # "idle")]]

\* Admission reads the snapshot of p, then the rows the request names; a
\* refused request changes nothing and has no step.
Issue(r, p, q) ==
    /\ reqs[r].pc = "idle"
    /\ p \in alive
    /\ q.op \in Ops
    /\ reqs' = [reqs EXCEPT ![r] = [q EXCEPT !.at = p]]
    /\ UNCHANGED <<database, memory, alive, lock, reload, inbox, crashes, behind>>

\* PUT /users/{id}/roles: replace_user_roles up to the reading of the user row.
IssueAssign(r, p) ==
    \E u \in Users, want \in SUBSET AllRoles :
        /\ SomeSuperAdmin(p)
        /\ Exists(users[u])
        /\ Issue(r, p, [Idle EXCEPT !.pc = "validate", !.op = "assign", !.user = u, !.want = want])

\* Variant: the page of an action is not added to the requested set.
NormalizeNothing(perms) == perms

\* normalize_role_access: an action permission brings its page.
NormalizeAccess(perms) == perms \cup {PageOf[a] : a \in perms \cap DOMAIN PageOf}

\* require_mutable_role, the part that reads the role row.
Mutable(role) == Exists(roles[role]) /\ role # SuperAdmin

\* PUT /roles/{id}/access: replace_access, before anything is read.
AccessRequest(role, perms) ==
    [Idle EXCEPT !.pc = "replace", !.op = "access", !.role = role, !.want = NormalizeAccess(perms)]

\* replace_role_access up to the engine: require_mutable_role.
IssueAccess(r, p) ==
    \E role \in AllRoles, perms \in SUBSET Permissions :
        /\ MayManageRoles(p)
        /\ Mutable(role)
        /\ Issue(r, p, AccessRequest(role, perms))

\* PUT /users/{id}: the target is visible to the actor.
IssueUserStatus(r, p) ==
    \E u \in Users, to \in {"enabled", "disabled"} :
        /\ VisibleToSomeone(p, u)
        /\ Issue(r, p, [Idle EXCEPT !.pc = "update", !.op = "userStatus", !.user = u, !.to = to])

\* PUT /roles/{id}; a payload without a status is the same as one naming the current status.
IssueRoleStatus(r, p) ==
    \E role \in AllRoles, to \in {"enabled", "disabled"} :
        /\ MayManageRoles(p)
        /\ Mutable(role)
        /\ Issue(r, p, [Idle EXCEPT !.pc = "update", !.op = "roleStatus", !.role = role, !.to = to])

IssueDeleteUser(r, p) ==
    \E u \in Users :
        /\ VisibleToSomeone(p, u)
        /\ Issue(r, p, [Idle EXCEPT !.pc = "detachUser", !.op = "deleteUser", !.user = u])

\* DELETE /roles/{id}: refused while the snapshot of p shows a member.
IssueDeleteRole(r, p) ==
    \E role \in AllRoles :
        /\ MayManageRoles(p)
        /\ Mutable(role)
        /\ ~HasMembers(p, role)
        /\ Issue(r, p, [Idle EXCEPT !.pc = "revoke", !.op = "deleteRole", !.role = role])

\* prepare_initial_user_roles: they need a super administrator and must all be enabled.
MayGive(p, actor, want) ==
    want # {} => IsActiveSuperAdmin(p, actor) /\ want \subseteq EnabledRoles

\* POST /users.
IssueCreateUser(r, p) ==
    \E u \in Users, to \in {"enabled", "disabled"}, want \in SUBSET AllRoles :
        /\ users[u] = "new"
        /\ \E actor \in Users : users[actor] = "enabled" /\ MayGive(p, actor, want)
        /\ Issue(r, p, [Idle EXCEPT !.pc = "insert", !.op = "createUser", !.user = u,
                                    !.want = want, !.to = to])

IssueCreateRole(r, p) ==
    \E role \in Roles, to \in {"enabled", "disabled"} :
        /\ MayManageRoles(p)
        /\ roles[role] = "new"
        /\ Issue(r, p, [Idle EXCEPT !.pc = "insert", !.op = "createRole", !.role = role, !.to = to])

\* The init command: ensure_admin, by a process of its own.
IssueEnsureAdmin(r, p) ==
    \E u \in Users :
        /\ users[u] # "gone"
        /\ Issue(r, p, [Idle EXCEPT !.pc = "insert", !.op = "ensureAdmin", !.user = u, !.to = "enabled"])

-----------------------------------------------------------------------------
(* Steps of a request.                                                     *)

\* validate_role_replacement: every requested role exists, and those the
\* snapshot does not already show for the user are enabled.
Validate(r) ==
    LET q == reqs[r]
        current == RolesIn(memory[q.at].memberships, q.user)
    IN  /\ q.pc = "validate"
        /\ Goto(r, IF /\ \A role \in q.want : Exists(roles[role])
                      /\ \A role \in q.want \ current : roles[role] = "enabled"
                   THEN "replace" ELSE "failed")
        /\ UNCHANGED <<database, memory, alive, lock, reload, inbox, crashes, behind>>

Subject(q) == IF q.op = "access" THEN q.role ELSE q.user
Held(q) == LET s == memory[q.at]
           IN  {x \in (IF q.op = "access" THEN s.grants ELSE s.memberships) : x[1] = Subject(q)}
Stored(q) == IF q.op = "access" THEN grants ELSE memberships

\* replace_user_roles, replace_role_permissions: take the lock and compare
\* the wanted rules with those of the snapshot.
Diff(r) ==
    LET q == reqs[r]
        wanted == {Subject(q)} \X q.want
        add == wanted \ Held(q)
        rem == Held(q) \ wanted
    IN  /\ q.pc = "replace"
        /\ lock[q.at] = NoOne
        /\ reqs' = [reqs EXCEPT ![r] =
               [q EXCEPT !.add = add, !.rem = rem,
                         !.pc = IF add # {} THEN "add" ELSE IF rem # {} THEN "remove" ELSE "ok"]]
        /\ lock' = IF wanted = Held(q) THEN lock ELSE [lock EXCEPT ![q.at] = r]
        /\ UNCHANGED <<database, memory, alive, reload, inbox, crashes, behind>>

\* Variant: Casbin's rules change whether or not the transaction commits.
SaveKeepsFailure(r, next, outcome, add, rem) ==
    LET q == reqs[r]
        pc == IF outcome.ok THEN next ELSE "failed"
    IN  /\ IF q.op = "access"
           THEN grants' = outcome.rules /\ UNCHANGED memberships
           ELSE memberships' = outcome.rules /\ UNCHANGED grants
        /\ memory' = IF q.op = "access"
                     THEN [memory EXCEPT ![q.at].grants = (@ \cup add) \ rem]
                     ELSE [memory EXCEPT ![q.at].memberships = (@ \cup add) \ rem]
        /\ Outdate(q.at)
        /\ Notify(q.at)
        /\ Goto(r, pc)
        /\ lock' = IF pc = "remove" THEN lock ELSE [lock EXCEPT ![q.at] = NoOne]
        /\ UNCHANGED <<users, roles, alive, crashes>>

\* One bulk save succeeded or failed; next is where a success continues.
Save(r, next, outcome, add, rem) ==
    LET q == reqs[r]
        pc == IF outcome.ok THEN next ELSE "failed"
    IN  /\ IF q.op = "access"
           THEN grants' = outcome.rules /\ UNCHANGED memberships
           ELSE memberships' = outcome.rules /\ UNCHANGED grants
        /\ IF outcome.ok
           THEN /\ memory' = IF q.op = "access"
                             THEN [memory EXCEPT ![q.at].grants = (@ \cup add) \ rem]
                             ELSE [memory EXCEPT ![q.at].memberships = (@ \cup add) \ rem]
                /\ Outdate(q.at)
                /\ Notify(q.at)
           ELSE UNCHANGED <<memory, reload, inbox, behind>>
        /\ Goto(r, pc)
        /\ lock' = IF pc = "remove" THEN lock ELSE [lock EXCEPT ![q.at] = NoOne]
        /\ UNCHANGED <<users, roles, alive, crashes>>

Add(r) ==
    /\ reqs[r].pc = "add"
    /\ \E o \in AddOutcomes(Stored(reqs[r]), reqs[r].add) :
           Save(r, IF reqs[r].rem = {} THEN "ok" ELSE "remove", o, reqs[r].add, {})

Remove(r) ==
    /\ reqs[r].pc = "remove"
    /\ \E o \in RemoveOutcomes(Stored(reqs[r]), reqs[r].rem) :
           Save(r, "ok", o, {}, reqs[r].rem)

-----------------------------------------------------------------------------
(* Rows of sys_users and sys_roles.                                        *)

\* A row is written before the snapshot is touched.
SetUser(r, row) ==
    /\ users' = [users EXCEPT ![reqs[r].user] = row]
    /\ Outdate(reqs[r].at)
    /\ Goto(r, "overlay")
    /\ UNCHANGED <<roles, memberships, grants, memory, alive, lock, inbox, crashes>>

SetRole(r, row) ==
    /\ roles' = [roles EXCEPT ![reqs[r].role] = row]
    /\ Outdate(reqs[r].at)
    /\ Goto(r, "overlay")
    /\ UNCHANGED <<users, memberships, grants, memory, alive, lock, inbox, crashes>>

\* The statement touched no row, or violated a unique index.
NoRow(r) ==
    /\ Goto(r, "failed")
    /\ UNCHANGED <<database, memory, alive, lock, reload, inbox, crashes, behind>>

UpdateUser(r) ==
    LET q == reqs[r]
    IN  /\ q.pc = "update" /\ q.op = "userStatus"
        /\ IF Exists(users[q.user]) THEN SetUser(r, q.to) ELSE NoRow(r)

UpdateRole(r) ==
    LET q == reqs[r]
    IN  /\ q.pc = "update" /\ q.op = "roleStatus"
        /\ IF Exists(roles[q.role]) THEN SetRole(r, q.to) ELSE NoRow(r)

InsertUser(r) ==
    LET q == reqs[r]
    IN  /\ q.pc = "insert" /\ q.op = "createUser"
        /\ IF users[q.user] = "new" THEN SetUser(r, q.to) ELSE NoRow(r)

InsertRole(r) ==
    LET q == reqs[r]
    IN  /\ q.pc = "insert" /\ q.op = "createRole"
        /\ IF roles[q.role] = "new" THEN SetRole(r, q.to) ELSE NoRow(r)

\* ensure_admin_user: the account is found and updated, or inserted; an account
\* deleted since it was found is not noticed.
UpsertAdmin(r) ==
    LET q == reqs[r]
    IN  /\ q.pc = "insert" /\ q.op = "ensureAdmin"
        /\ SetUser(r, IF users[q.user] = "gone" THEN "gone" ELSE "enabled")

AfterOverlay(q) ==
    CASE q.op = "createUser" /\ q.want # {} -> "replace"
      [] q.op = "ensureAdmin" -> "bootstrap"
      [] OTHER -> "ok"

WithStatus(s, q) ==
    IF q.user # NoUser THEN [s EXCEPT !.users[q.user] = q.to]
    ELSE [s EXCEPT !.enabledRoles = IF q.to = "enabled" THEN @ \cup {q.role} ELSE @ \ {q.role}]

\* Variant: the status is written to the snapshot without the mutation lock.
OverlayUnlocked(r) ==
    LET q == reqs[r]
    IN  /\ q.pc = "overlay"
        /\ memory' = [memory EXCEPT ![q.at] = WithStatus(@, q)]
        /\ behind' = [behind EXCEPT ![q.at] = @ \/ q.to #
               RowStatus(IF q.user # NoUser THEN users[q.user] ELSE roles[q.role])]
        /\ Goto(r, AfterOverlay(q))
        /\ Notify(q.at)
        /\ UNCHANGED <<database, alive, lock, reload, crashes>>

\* set_user_status, set_role_status.  The row may have changed again since it
\* was written: then the snapshot now shows an outdated status.
Overlay(r) ==
    LET q == reqs[r]
        row == IF q.user # NoUser THEN users[q.user] ELSE roles[q.role]
    IN  /\ q.pc = "overlay"
        /\ lock[q.at] = NoOne
        /\ memory' = [memory EXCEPT ![q.at] = WithStatus(@, q)]
        /\ behind' = [behind EXCEPT ![q.at] = @ \/ RowStatus(row) # q.to]
        /\ Goto(r, AfterOverlay(q))
        /\ Notify(q.at)
        /\ UNCHANGED <<database, alive, lock, reload, crashes>>

\* ensure_bootstrap_role: the roles the snapshot shows, and the protected one.
Bootstrap(r) ==
    LET q == reqs[r]
    IN  /\ q.pc = "bootstrap"
        /\ reqs' = [reqs EXCEPT ![r].pc = "replace",
               ![r].want = RolesIn(memory[q.at].memberships, q.user) \cup {SuperAdmin}]
        /\ UNCHANGED <<database, memory, alive, lock, reload, inbox, crashes, behind>>

\* EnforcementEngine::remove_user: the memberships of the account, then its status.
DetachUser(r) ==
    LET q == reqs[r]
    IN  /\ q.pc = "detachUser"
        /\ lock[q.at] = NoOne
        /\ \E o \in FilteredOutcomes(memberships, memory[q.at].memberships, {q.user} \X AllRoles) :
               /\ memberships' = o.stored
               /\ memory' = [memory EXCEPT ![q.at].memberships = o.held,
                                           ![q.at].users[q.user] = "none"]
        /\ Goto(r, "deleteRow")
        /\ Outdate(q.at)
        /\ Notify(q.at)
        /\ UNCHANGED <<users, roles, grants, alive, lock, crashes>>

\* EnforcementEngine::remove_role: its permissions in one transaction, ...
Revoke(r) ==
    LET q == reqs[r]
    IN  /\ q.pc = "revoke"
        /\ lock[q.at] = NoOne
        /\ \E o \in FilteredOutcomes(grants, memory[q.at].grants, {q.role} \X Permissions) :
               /\ grants' = o.stored
               /\ memory' = [memory EXCEPT ![q.at].grants = o.held]
        /\ lock' = [lock EXCEPT ![q.at] = r]
        /\ Goto(r, "detachRole")
        /\ Outdate(q.at)
        /\ Notify(q.at)
        /\ UNCHANGED <<users, roles, memberships, alive, crashes>>

\* ... then whatever memberships it has, and its status.
DetachRole(r) ==
    LET q == reqs[r]
    IN  /\ q.pc = "detachRole"
        /\ \E o \in FilteredOutcomes(memberships, memory[q.at].memberships, Users \X {q.role}) :
               /\ memberships' = o.stored
               /\ memory' = [memory EXCEPT ![q.at].memberships = o.held,
                                           ![q.at].enabledRoles = @ \ {q.role}]
        /\ lock' = [lock EXCEPT ![q.at] = NoOne]
        /\ Goto(r, "deleteRow")
        /\ Outdate(q.at)
        /\ Notify(q.at)
        /\ UNCHANGED <<users, roles, grants, alive, crashes>>

\* The row goes last.  A reload since, or in progress, has put it back into the snapshot.
RowDeleted(r, shown) ==
    LET p == reqs[r].at
    IN  /\ behind' = [q \in Procs |-> behind[q] \/ q # p \/ shown]
        /\ reload' = [q \in Procs |-> [reload[q] EXCEPT !.missed = @ \/ reload[q].pc # "idle"]]
        /\ Notify(p)
        /\ Goto(r, "ok")
        /\ UNCHANGED <<memberships, grants, memory, alive, lock, crashes>>

DeleteUserRow(r) ==
    LET q == reqs[r]
    IN  /\ q.pc = "deleteRow" /\ q.op = "deleteUser"
        /\ IF Exists(users[q.user])
           THEN /\ users' = [users EXCEPT ![q.user] = "gone"]
                /\ UNCHANGED roles
                /\ RowDeleted(r, memory[q.at].users[q.user] # "none")
           ELSE NoRow(r)

DeleteRoleRow(r) ==
    LET q == reqs[r]
    IN  /\ q.pc = "deleteRow" /\ q.op = "deleteRole"
        /\ IF Exists(roles[q.role])
           THEN /\ roles' = [roles EXCEPT ![q.role] = "gone"]
                /\ UNCHANGED users
                /\ RowDeleted(r, q.role \in memory[q.at].enabledRoles)
           ELSE NoRow(r)

-----------------------------------------------------------------------------
(* A request whose future is dropped, or whose statement fails.            *)

Unlocked(r) == [p \in Procs |-> IF lock[p] = r THEN NoOne ELSE lock[p]]

Cut(r) ==
    LET q == reqs[r]
    IN  /\ Cuts
        /\ q.pc \notin Terminal
        /\ Goto(r, "cut")
        /\ lock' = Unlocked(r)
        /\ IF q.pc \in {"overlay", "deleteRow"}
           THEN /\ behind' = [behind EXCEPT ![q.at] = TRUE]
                /\ reload' = [reload EXCEPT ![q.at].missed = @ \/ reload[q.at].pc # "idle"]
           ELSE UNCHANGED <<behind, reload>>
        /\ UNCHANGED <<database, memory, alive, inbox, crashes>>

\* The transaction of a save commits, and the request ends before the snapshot changes.
CutAfterSave(r) ==
    LET q == reqs[r]
    IN  /\ Cuts
        /\ \/ q.pc = "add" /\ \E o \in AddOutcomes(Stored(q), q.add) :
                  IF q.op = "access" THEN grants' = o.rules /\ UNCHANGED memberships
                                     ELSE memberships' = o.rules /\ UNCHANGED grants
           \/ q.pc = "remove" /\ \E o \in RemoveOutcomes(Stored(q), q.rem) :
                  IF q.op = "access" THEN grants' = o.rules /\ UNCHANGED memberships
                                     ELSE memberships' = o.rules /\ UNCHANGED grants
           \/ q.pc = "detachUser" /\ lock[q.at] = NoOne /\ UNCHANGED grants
                  /\ memberships' = {x \in memberships : x[1] # q.user}
           \/ q.pc = "revoke" /\ lock[q.at] = NoOne /\ UNCHANGED memberships
                  /\ grants' = {x \in grants : x[1] # q.role}
           \/ q.pc = "detachRole" /\ UNCHANGED grants
                  /\ memberships' = {x \in memberships : x[2] # q.role}
        /\ Goto(r, "cut")
        /\ lock' = Unlocked(r)
        /\ behind' = [p \in Procs |-> TRUE]
        /\ reload' = [p \in Procs |-> [reload[p] EXCEPT !.missed = @ \/ reload[p].pc # "idle"]]
        /\ UNCHANGED <<users, roles, memory, alive, inbox, crashes>>

-----------------------------------------------------------------------------
(* Reloading: every period, on a notification, and at start-up.            *)

NoReload == [pc |-> "idle", memberships |-> {}, grants |-> {},
             users |-> [u \in Users |-> "none"], missed |-> FALSE]

\* Variant: the rebuild reads the rules before it takes the lock.
StartReloadUnlocked(p) ==
    /\ reload[p].pc = "idle"
    /\ reload' = [reload EXCEPT ![p] = [NoReload EXCEPT !.pc = "users",
                     !.memberships = memberships, !.grants = grants]]
    /\ inbox' = [inbox EXCEPT ![p] = FALSE]
    /\ UNCHANGED <<database, memory, alive, lock, reqs, crashes, behind>>

\* The lock is taken and the rules are read.
StartReload(p) ==
    /\ reload[p].pc = "idle"
    /\ lock[p] = NoOne
    /\ lock' = [lock EXCEPT ![p] = "reload"]
    /\ reload' = [reload EXCEPT ![p] = [NoReload EXCEPT !.pc = "users",
                     !.memberships = memberships, !.grants = grants]]
    /\ inbox' = [inbox EXCEPT ![p] = FALSE]
    /\ UNCHANGED <<database, memory, alive, reqs, crashes, behind>>

ReadUsers(p) ==
    /\ reload[p].pc = "users"
    /\ reload' = [reload EXCEPT ![p].pc = "roles", ![p].users = UserFacts]
    /\ UNCHANGED <<database, memory, alive, lock, inbox, reqs, crashes, behind>>

Candidate(p) == [memberships |-> reload[p].memberships, grants |-> reload[p].grants,
                 users |-> reload[p].users, enabledRoles |-> EnabledRoles]

Valid(p) == Loadable(reload[p].memberships, reload[p].grants, reload[p].users, roles)

EndReload(p) ==
    /\ reload' = [reload EXCEPT ![p] = NoReload]
    /\ lock' = [lock EXCEPT ![p] = NoOne]
    /\ UNCHANGED <<database, inbox, reqs, crashes>>

\* Variant: the snapshot is kept while the rules have not changed.
InstallChangedRules(p) ==
    LET changed == \/ memory[p].memberships # reload[p].memberships
                   \/ memory[p].grants # reload[p].grants
    IN  /\ reload[p].pc = "roles"
        /\ Valid(p)
        /\ memory' = IF changed THEN [memory EXCEPT ![p] = Candidate(p)] ELSE memory
        /\ alive' = alive \cup {p}
        /\ behind' = IF changed THEN [behind EXCEPT ![p] = reload[p].missed] ELSE behind
        /\ EndReload(p)

\* The roles are read; the candidate is valid and replaces the snapshot.
Install(p) ==
    /\ reload[p].pc = "roles"
    /\ Valid(p)
    /\ memory' = [memory EXCEPT ![p] = Candidate(p)]
    /\ alive' = alive \cup {p}
    /\ behind' = [behind EXCEPT ![p] = reload[p].missed]
    /\ EndReload(p)

\* The candidate is invalid: a serving process keeps its snapshot, a starting one stops.
Reject(p) ==
    /\ reload[p].pc = "roles"
    /\ ~Valid(p)
    /\ EndReload(p)
    /\ UNCHANGED <<memory, alive, behind>>

\* The process stops: its requests, its snapshot and its notifications are lost.
Crash(p) ==
    /\ crashes < MaxCrashes
    /\ crashes' = crashes + 1
    /\ alive' = alive \ {p}
    /\ memory' = [memory EXCEPT ![p] = NoSnapshot]
    /\ lock' = [lock EXCEPT ![p] = NoOne]
    /\ reload' = [reload EXCEPT ![p] = NoReload]
    /\ inbox' = [inbox EXCEPT ![p] = FALSE]
    /\ reqs' = [r \in Requests |-> IF reqs[r].at = p /\ reqs[r].pc \notin Terminal
                                   THEN [reqs[r] EXCEPT !.pc = "cut"] ELSE reqs[r]]
    /\ behind' = [behind EXCEPT ![p] = TRUE]
    /\ UNCHANGED database

-----------------------------------------------------------------------------
(* Specification.                                                          *)

Init ==
    /\ \E d \in InitDatabases :
           /\ users = d.users /\ roles = d.roles
           /\ memberships = d.memberships /\ grants = d.grants
    /\ StoredLoadable
    /\ memory = [p \in Procs |-> FromDatabase]
    /\ alive = Procs
    /\ lock = [p \in Procs |-> NoOne]
    /\ reload = [p \in Procs |-> NoReload]
    /\ inbox = [p \in Procs |-> FALSE]
    /\ reqs = [r \in Requests |-> Idle]
    /\ crashes = 0
    /\ behind = [p \in Procs |-> FALSE]

IssueSome(r) ==
    \E p \in Procs :
        \/ IssueAssign(r, p)
        \/ IssueAccess(r, p)
        \/ IssueUserStatus(r, p)
        \/ IssueRoleStatus(r, p)
        \/ IssueDeleteUser(r, p)
        \/ IssueDeleteRole(r, p)
        \/ IssueCreateUser(r, p)
        \/ IssueCreateRole(r, p)
        \/ IssueEnsureAdmin(r, p)

Step(r) ==
    \/ Validate(r)
    \/ Diff(r)
    \/ Add(r)
    \/ Remove(r)
    \/ UpdateUser(r)
    \/ UpdateRole(r)
    \/ InsertUser(r)
    \/ InsertRole(r)
    \/ UpsertAdmin(r)
    \/ Overlay(r)
    \/ Bootstrap(r)
    \/ DetachUser(r)
    \/ Revoke(r)
    \/ DetachRole(r)
    \/ DeleteUserRow(r)
    \/ DeleteRoleRow(r)

Reload(p) ==
    \/ StartReload(p)
    \/ ReadUsers(p)
    \/ Install(p)
    \/ Reject(p)

Next ==
    \/ \E r \in Requests : IssueSome(r) \/ Step(r) \/ Cut(r) \/ CutAfterSave(r)
    \/ \E p \in Procs : Reload(p) \/ Crash(p)

\* The periodic timer and the handlers of a running process keep going;
\* requests, drops, crashes and the delivery of notifications need not happen.
Fairness ==
    /\ \A r \in Requests : WF_vars(Step(r))
    /\ \A p \in Procs : WF_vars(Reload(p))

Spec == Init /\ [][Next]_vars
FairSpec == Spec /\ Fairness

-----------------------------------------------------------------------------
(* Properties.                                                             *)

Snapshots == [memberships : SUBSET (Users \X AllRoles), grants : SUBSET (AllRoles \X Permissions),
              users : [Users -> {"none", "enabled", "disabled"}], enabledRoles : SUBSET AllRoles]

\* Types, the mutation lock being held exactly by the reload or the request
\* that is inside its critical section (tokio Mutex guards of engine.rs).
TypeOK ==
    /\ users \in [Users -> RowStates] /\ roles \in [AllRoles -> RowStates]
    /\ memberships \subseteq Users \X AllRoles
    /\ grants \subseteq AllRoles \X Permissions
    /\ memory \in [Procs -> Snapshots]
    /\ alive \subseteq Procs
    /\ reqs \in [Requests -> Fields]
    /\ crashes \in 0..MaxCrashes
    /\ inbox \in [Procs -> BOOLEAN] /\ behind \in [Procs -> BOOLEAN]
    /\ \A p \in Procs : reload[p].pc # "idle" <=> lock[p] = "reload"
    /\ \A r \in Requests, p \in Procs :
           lock[p] = r <=> reqs[r].at = p /\ reqs[r].pc \in LockedSteps

Settled(p) ==
    /\ p \in alive
    /\ \A r \in Requests : reqs[r].at = p => reqs[r].pc \notin {"overlay", "deleteRow"}

\* What the stored rows and rules say about a request of u.
AllowedByDatabase(u, perm) == Allowed(FromDatabase, u, perm)

\* A reload never overwrites a more recent local change, and a local change
\* never loses a part of a reload (engine.rs: mutation_lock): a process that
\* has missed no change of the database decides every request as the
\* database does, whatever reloads and requests it interleaves.
DecisionsFollowDatabase ==
    \A p \in Procs : Settled(p) /\ ~behind[p] =>
        \A u \in Users, perm \in Permissions :
            Allowed(memory[p], u, perm) <=> AllowedByDatabase(u, perm)

\* The views an administrator decides on (Accounts::access, RoleService::access)
\* tell the truth: an enabled user's view lists exactly the permissions that a
\* request of the user is granted, though it walks the snapshot on a way of its
\* own and reads sys_roles; it names the roles that are stored for the user; and
\* the editor of a role shows what is stored, so that saving it unchanged
\* takes nothing away.
AccessViewMatchesDecisions ==
    \A p \in Procs : Settled(p) /\ ~behind[p] =>
        /\ \A u \in Users : memory[p].users[u] = "enabled" =>
               /\ AccessView(p, u).effective = {perm \in Permissions : Allowed(memory[p], u, perm)}
               /\ AccessView(p, u).assigned = {r \in AllRoles : Exists(roles[r]) /\ <<u, r>> \in memberships}
        /\ \A r \in AllRoles : Exists(roles[r]) => RoleAccessView(p, r) = PermissionsIn(grants, r)

\* The protected role keeps every permission and stays enabled, so that
\* start-up validation cannot fail for its sake (require_mutable_role).
SuperAdminComplete ==
    /\ {SuperAdmin} \X Permissions \subseteq grants
    /\ roles[SuperAdmin] = "enabled"

\* A rule enters a snapshot only when it is stored, or was when the reload
\* read it: a failed save grants nothing (replace_user_roles and
\* replace_role_permissions return before Casbin's rules change).
NoUnsavedRule ==
    [][\A p \in Procs :
          /\ memory'[p].memberships \ memory[p].memberships
                 \subseteq memberships' \cup reload[p].memberships
          /\ memory'[p].grants \ memory[p].grants \subseteq grants' \cup reload[p].grants]_vars

\* Where every process is up to date, stored action permissions come with
\* their page, between the two saves of a replacement and after a dropped
\* request too, so that the closure check of validate_loaded_policy cannot
\* reject the next reload.  Behind an outdated snapshot it can: a page may be
\* revoked whose action the snapshot does not show.
StoredActionsHavePages == (\A p \in Procs : ~behind[p]) => Closed(grants)

\* Types, and no sequence of requests makes a rule set that validate_loaded_policy refuses
\* for the sake of the protected role or of an action without its page.
StoredRulesValidate == TypeOK /\ SuperAdminComplete /\ StoredActionsHavePages

\* Periodic reload repairs whatever notifications missed: if the stored
\* rules can be loaded from some time on, every serving snapshot ends up
\* equal to the database for good.
SnapshotsConverge ==
    <>[]StoredLoadable => <>[](\A p \in alive : memory[p] = FromDatabase)

\* iam.md, Stable errors: "assigning an unknown or newly disabled Role returns INVALID_ROLES".
AssignedRolesExist ==
    [][\A x \in memberships' \ memberships : Exists(roles[x[2]])]_vars

=============================================================================
