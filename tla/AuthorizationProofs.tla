------------------------- MODULE AuthorizationProofs -------------------------
(***************************************************************************)
(* Proofs, for any processes, requests, accounts, roles and permissions,   *)
(* of what Authorization promises: the stored rules can be loaded, a       *)
(* process that has missed no change of the database decides and shows     *)
(* what is stored, and no failed save grants anything.                     *)
(***************************************************************************)
EXTENDS Authorization, TLAPS

-----------------------------------------------------------------------------
(* The inductive invariant.                                                *)

RowsOps == {"assign", "createUser", "ensureAdmin"}
StatusOps == {"userStatus", "roleStatus", "createUser", "createRole", "ensureAdmin"}

\* What a request asks for and may be at, by its kind.
GoodRequest(q) ==
    /\ q.op \in RowsOps \cup {"userStatus", "deleteUser"} => q.user \in Users /\ q.role = NoRole
    /\ q.op \in {"access", "roleStatus", "deleteRole", "createRole"} => q.user = NoUser /\ q.role \in Roles
    /\ q.op \in StatusOps => q.to \in {"enabled", "disabled"}
    /\ q.op = "access" =>
           /\ q.want \subseteq Permissions
           /\ \A a \in q.want \cap DOMAIN PageOf : PageOf[a] \in q.want
           /\ q.add \subseteq {q.role} \X Permissions /\ q.rem \subseteq {q.role} \X Permissions
    /\ q.op \in RowsOps =>
           /\ q.want \subseteq AllRoles
           /\ q.add \subseteq {q.user} \X AllRoles /\ q.rem \subseteq {q.user} \X AllRoles
    /\ q.pc = "validate" => q.op = "assign"
    /\ q.pc \in {"replace", "add", "remove"} => q.op \in RowsOps \cup {"access"}
    /\ q.pc \in {"update", "insert", "overlay"} => q.op \in StatusOps
    /\ q.pc = "bootstrap" => q.op = "ensureAdmin"
    /\ q.pc = "detachUser" => q.op = "deleteUser"
    /\ q.pc \in {"revoke", "detachRole"} => q.op = "deleteRole"
    /\ q.pc = "deleteRow" => q.op \in {"deleteUser", "deleteRole"}

Placed(q) == q.pc # "idle" => q.at \in Procs /\ q.op # "none"

Rebuild == [pc : {"idle", "users", "roles"}, memberships : SUBSET (Users \X AllRoles),
            grants : SUBSET (AllRoles \X Permissions),
            users : [Users -> {"none", "enabled", "disabled"}], missed : BOOLEAN]

\* What TypeOK leaves out.
RequestInv ==
    /\ reload \in [Procs -> Rebuild]
    /\ lock \in [Procs -> Requests \cup {NoOne, "reload"}]
    /\ \A r \in Requests : GoodRequest(reqs[r]) /\ Placed(reqs[r])

\* A request that has written a row, and has not yet shown it to its process or deletes it next.
Pending(q, p) == q.at = p /\ q.pc \in {"overlay", "deleteRow"}
UserPending(p, u) == \E r \in Requests : Pending(reqs[r], p) /\ reqs[r].user = u
RolePending(p, role) == \E r \in Requests : Pending(reqs[r], p) /\ reqs[r].role = role

\* The statuses facts of the accounts are those stored, up to what p itself is about to change.
UsersUpToPending(p, facts) ==
    \A u \in Users : facts[u] = RowStatus(users[u]) \/ (Exists(users[u]) /\ UserPending(p, u))

\* A process that has missed no change holds the stored rules, and the stored rows too,
\* up to those it is about to change.
MemoryInv ==
    \A p \in Procs : ~behind[p] =>
        /\ memory[p].memberships = memberships /\ memory[p].grants = grants
        /\ UsersUpToPending(p, memory[p].users)
        /\ \A role \in AllRoles :
               \/ role \in memory[p].enabledRoles <=> roles[role] = "enabled"
               \/ Exists(roles[role]) /\ RolePending(p, role)

\* So does a reload that has missed no change since it read.
ReloadInv ==
    \A p \in Procs : reload[p].pc # "idle" /\ ~reload[p].missed =>
        /\ reload[p].memberships = memberships /\ reload[p].grants = grants
        /\ reload[p].pc = "roles" => UsersUpToPending(p, reload[p].users)

\* The saves still to come lead from the stored permissions to those that q wants for its role.
Replaces(q, pc, stored) ==
    LET wanted == {q.role} \X q.want
    IN  /\ q.add \subseteq wanted /\ q.rem \cap wanted = {}
        /\ wanted \subseteq stored \cup (IF pc = "add" THEN q.add ELSE {})
        /\ \A x \in stored : x[1] = q.role => x \in wanted \cup q.rem

ReplaceInv ==
    \A r \in Requests :
        reqs[r].op = "access" /\ reqs[r].pc \in {"add", "remove"} /\ ~behind[reqs[r].at] =>
            Replaces(reqs[r], reqs[r].pc, grants)

InductiveInv ==
    /\ RequestInv /\ MemoryInv /\ ReloadInv /\ ReplaceInv
    /\ SuperAdminComplete /\ StoredActionsHavePages


-----------------------------------------------------------------------------
(* What the common parts of the actions do.                                *)

Steps == {"validate", "replace", "update", "insert", "overlay", "bootstrap",
          "detachUser", "revoke", "deleteRow"} \cup Terminal \cup LockedSteps

Rules == (SUBSET (Users \X AllRoles)) \cup (SUBSET (AllRoles \X Permissions))
Wants == (SUBSET AllRoles) \cup (SUBSET Permissions)

LEMMA FieldSets ==
  Fields = [pc : Steps, at : Procs \cup {NoOne}, op : OpKinds \cup {"none"},
            user : Users \cup {NoUser}, role : AllRoles \cup {NoRole}, want : Wants,
            add : Rules, rem : Rules, to : {"none", "enabled", "disabled"}]
BY DEF Fields, Steps, Rules, Wants

LEMMA RuleSets ==
  /\ \A S : S \subseteq Users \X AllRoles => S \in Rules
  /\ \A S : S \subseteq AllRoles \X Permissions => S \in Rules
  /\ \A S : S \subseteq AllRoles => S \in Wants
  /\ \A S : S \subseteq Permissions => S \in Wants
BY DEF Rules, Wants

LEMMA IdleRequest == Idle \in Fields /\ Idle.pc = "idle" /\ GoodRequest(Idle)
BY DEF Idle, Fields, GoodRequest, RowsOps, StatusOps, Terminal, LockedSteps

LEMMA GotoFields ==
  ASSUME TypeOK, NEW r \in Requests, NEW pc \in Steps, Goto(r, pc)
  PROVE  /\ reqs' \in [Requests -> Fields]
         /\ \A o \in Requests \ {r} : reqs'[o] = reqs[o]
         /\ reqs'[r].pc = pc /\ reqs'[r].at = reqs[r].at /\ reqs'[r].op = reqs[r].op
         /\ reqs'[r].user = reqs[r].user /\ reqs'[r].role = reqs[r].role
         /\ reqs'[r].want = reqs[r].want /\ reqs'[r].add = reqs[r].add
         /\ reqs'[r].rem = reqs[r].rem /\ reqs'[r].to = reqs[r].to
<1> DEFINE k == [reqs[r] EXCEPT !.pc = pc]
<1>1. reqs' = [reqs EXCEPT ![r] = k]
  BY DEF Goto
<1>2. reqs[r] \in Fields
  BY DEF TypeOK
<1>3. k \in Fields /\ k.pc = pc /\ k.at = reqs[r].at /\ k.op = reqs[r].op
      /\ k.user = reqs[r].user /\ k.role = reqs[r].role /\ k.want = reqs[r].want
      /\ k.add = reqs[r].add /\ k.rem = reqs[r].rem /\ k.to = reqs[r].to
  BY <1>2 DEF Fields, Steps
<1> HIDE DEF k
<1> QED
  BY <1>1, <1>3 DEF TypeOK

\* A request that ends asks for what it asked for.
LEMMA EndedRequest ==
  ASSUME TypeOK, RequestInv, NEW r \in Requests, reqs[r].pc # "idle",
         NEW pc \in {"ok", "failed", "cut"}, Goto(r, pc)
  PROVE  /\ reqs' \in [Requests -> Fields] /\ \A o \in Requests \ {r} : reqs'[o] = reqs[o]
         /\ reqs'[r].pc = pc /\ reqs'[r].at = reqs[r].at
         /\ GoodRequest(reqs'[r]) /\ Placed(reqs'[r])
<1>1. GoodRequest(reqs[r]) /\ Placed(reqs[r])
  BY DEF RequestInv
<1>2. pc \in Steps
  BY DEF Steps, Terminal
<1>3. PICK q : q = reqs[r]
  OBVIOUS
<1>4. PICK k : k = reqs'[r]
  OBVIOUS
<1>5. /\ reqs' \in [Requests -> Fields] /\ \A o \in Requests \ {r} : reqs'[o] = reqs[o]
      /\ k.pc = pc /\ k.at = q.at /\ k.op = q.op /\ k.user = q.user /\ k.role = q.role
      /\ k.want = q.want /\ k.add = q.add /\ k.rem = q.rem /\ k.to = q.to
  BY <1>2, <1>3, <1>4, GotoFields
<1>6. GoodRequest(k)
  BY <1>1, <1>3, <1>5 DEF GoodRequest
<1>7. Placed(k)
  BY <1>1, <1>3, <1>5 DEF Placed
<1> QED
  BY <1>3, <1>4, <1>5, <1>6, <1>7

LEMMA OutdateFields ==
  ASSUME TypeOK, RequestInv, NEW p \in Procs, Outdate(p)
  PROVE  /\ behind' \in [Procs -> BOOLEAN] /\ reload' \in [Procs -> Rebuild]
         /\ \A q \in Procs \ {p} : behind'[q]
         /\ behind'[p] = behind[p]
         /\ \A q \in Procs :
                /\ reload'[q].pc = reload[q].pc
                /\ reload'[q].memberships = reload[q].memberships
                /\ reload'[q].grants = reload[q].grants /\ reload'[q].users = reload[q].users
                /\ q # p /\ reload[q].pc # "idle" => reload'[q].missed
         /\ reload'[p].missed = reload[p].missed
<1>1. /\ behind' = [q \in Procs |-> behind[q] \/ q # p]
      /\ reload' = [q \in Procs |->
                      [reload[q] EXCEPT !.missed = reload[q].missed \/ (q # p /\ reload[q].pc # "idle")]]
  BY DEF Outdate
<1>2. behind' \in [Procs -> BOOLEAN] /\ (\A q \in Procs \ {p} : behind'[q]) /\ behind'[p] = behind[p]
  <2>1. ASSUME NEW q \in Procs
        PROVE  behind'[q] \in BOOLEAN /\ (q # p => behind'[q]) /\ (q = p => behind'[q] = behind[q])
    <3> DEFINE b == behind[q] \/ q # p
    <3>1. behind'[q] = b
      BY <1>1
    <3>2. b \in BOOLEAN /\ (q # p => b) /\ (q = p => b = behind[q])
      BY DEF TypeOK
    <3> HIDE DEF b
    <3> QED
      BY <3>1, <3>2
  <2> QED
    BY <1>1, <2>1
<1>3. ASSUME NEW q \in Procs
      PROVE  /\ reload'[q] \in Rebuild
             /\ reload'[q].pc = reload[q].pc
             /\ reload'[q].memberships = reload[q].memberships
             /\ reload'[q].grants = reload[q].grants /\ reload'[q].users = reload[q].users
             /\ reload'[q].missed = (reload[q].missed \/ (q # p /\ reload[q].pc # "idle"))
  <2> DEFINE b == reload[q].missed \/ (q # p /\ reload[q].pc # "idle")
  <2>1. reload[q] \in Rebuild
    BY DEF RequestInv
  <2>2. b \in BOOLEAN
    BY <2>1 DEF Rebuild
  <2>3. reload'[q] = [reload[q] EXCEPT !.missed = b]
    BY <1>1
  <2> HIDE DEF b
  <2>4. /\ reload'[q] \in Rebuild
        /\ reload'[q].pc = reload[q].pc
        /\ reload'[q].memberships = reload[q].memberships
        /\ reload'[q].grants = reload[q].grants /\ reload'[q].users = reload[q].users
        /\ reload'[q].missed = b
    BY <2>1, <2>2, <2>3 DEF Rebuild
  <2> QED
    BY <2>4 DEF b
<1>4. reload' \in [Procs -> Rebuild]
  BY <1>1, <1>3
<1>5. reload'[p].missed = reload[p].missed
  BY <1>3 DEF RequestInv, Rebuild
<1> QED
  BY <1>2, <1>3, <1>4, <1>5

LEMMA NotifyType ==
  ASSUME TypeOK, NEW p \in Procs, Notify(p)
  PROVE  inbox' \in [Procs -> BOOLEAN]
BY DEF TypeOK, Notify

-----------------------------------------------------------------------------
(* Steps that change requests only.                                        *)

\* A request that leaves a pending step has found its row gone.
LEMMA RequestStep ==
  ASSUME TypeOK, InductiveInv, NEW r \in Requests,
         UNCHANGED <<database, memory, alive, reload, inbox, crashes, behind>>,
         reqs' \in [Requests -> Fields], \A o \in Requests \ {r} : reqs'[o] = reqs[o],
         lock' \in [Procs -> Requests \cup {NoOne, "reload"}],
         \A p \in Procs : reload[p].pc # "idle" <=> lock'[p] = "reload",
         \A o \in Requests, p \in Procs :
             lock'[p] = o <=> reqs'[o].at = p /\ reqs'[o].pc \in LockedSteps,
         GoodRequest(reqs'[r]), Placed(reqs'[r]),
         reqs[r].pc # "overlay",
         reqs[r].pc = "deleteRow" =>
             /\ reqs[r].user \in Users => ~Exists(users[reqs[r].user])
             /\ reqs[r].role \in AllRoles => ~Exists(roles[reqs[r].role]),
         reqs'[r].op = "access" /\ reqs'[r].pc \in {"add", "remove"} /\ ~behind[reqs'[r].at] =>
             Replaces(reqs'[r], reqs'[r].pc, grants)
  PROVE  TypeOK' /\ InductiveInv'
<1>1. TypeOK'
  BY DEF TypeOK, database
<1>2. RequestInv'
  BY DEF InductiveInv, RequestInv
<1>3. \A p, u : u \in Users /\ Exists(users[u]) /\ UserPending(p, u) =>
          \E o \in Requests : Pending(reqs'[o], p) /\ reqs'[o].user = u
  BY DEF UserPending, Pending
<1>4. \A p, role : role \in AllRoles /\ Exists(roles[role]) /\ RolePending(p, role) =>
          \E o \in Requests : Pending(reqs'[o], p) /\ reqs'[o].role = role
  BY DEF RolePending, Pending
<1>5. MemoryInv'
  <2> SUFFICES ASSUME NEW p \in Procs, ~behind[p]
               PROVE  /\ memory[p].memberships = memberships /\ memory[p].grants = grants
                      /\ UsersUpToPending(p, memory[p].users)'
                      /\ \A role \in AllRoles :
                             \/ role \in memory[p].enabledRoles <=> roles[role] = "enabled"
                             \/ Exists(roles[role]) /\ RolePending(p, role)'
    BY DEF MemoryInv, database
  <2>1. /\ memory[p].memberships = memberships /\ memory[p].grants = grants
        /\ UsersUpToPending(p, memory[p].users)
        /\ \A role \in AllRoles :
               \/ role \in memory[p].enabledRoles <=> roles[role] = "enabled"
               \/ Exists(roles[role]) /\ RolePending(p, role)
    BY DEF InductiveInv, MemoryInv
  <2>2. UsersUpToPending(p, memory[p].users)'
    <3>1. \A u \in Users : \/ memory[p].users[u] = RowStatus(users[u])
                           \/ Exists(users[u]) /\ UserPending(p, u)
      BY <2>1 DEF UsersUpToPending
    <3>2. \A u \in Users : Exists(users[u]) /\ UserPending(p, u) => UserPending(p, u)'
      BY <1>3 DEF UserPending
    <3> QED
      BY <3>1, <3>2 DEF UsersUpToPending, database
  <2>3. \A role \in AllRoles : RolePending(p, role) /\ Exists(roles[role]) => RolePending(p, role)'
    BY <1>4 DEF RolePending
  <2> QED
    BY <2>1, <2>2, <2>3
<1>6. ReloadInv'
  <2> SUFFICES ASSUME NEW p \in Procs, reload[p].pc # "idle", ~reload[p].missed
               PROVE  /\ reload[p].memberships = memberships /\ reload[p].grants = grants
                      /\ reload[p].pc = "roles" => UsersUpToPending(p, reload[p].users)'
    BY DEF ReloadInv, database
  <2>1. /\ reload[p].memberships = memberships /\ reload[p].grants = grants
        /\ reload[p].pc = "roles" => UsersUpToPending(p, reload[p].users)
    BY DEF InductiveInv, ReloadInv
  <2>2. ASSUME reload[p].pc = "roles"
        PROVE  UsersUpToPending(p, reload[p].users)'
    <3>1. \A u \in Users : \/ reload[p].users[u] = RowStatus(users[u])
                           \/ Exists(users[u]) /\ UserPending(p, u)
      BY <2>1, <2>2 DEF UsersUpToPending
    <3>2. \A u \in Users : Exists(users[u]) /\ UserPending(p, u) => UserPending(p, u)'
      BY <1>3 DEF UserPending
    <3> QED
      BY <3>1, <3>2 DEF UsersUpToPending, database
  <2> QED
    BY <2>1, <2>2
<1>7. ReplaceInv'
  <2> SUFFICES ASSUME NEW o \in Requests
               PROVE  reqs'[o].op = "access" /\ reqs'[o].pc \in {"add", "remove"} /\ ~behind[reqs'[o].at] =>
                          Replaces(reqs'[o], reqs'[o].pc, grants)
    BY DEF ReplaceInv, Replaces, database
  <2> QED
    BY DEF InductiveInv, ReplaceInv
<1>8. SuperAdminComplete' /\ StoredActionsHavePages'
  BY DEF InductiveInv, SuperAdminComplete, StoredActionsHavePages, Closed, database
<1> QED
  BY <1>1, <1>2, <1>5, <1>6, <1>7, <1>8 DEF InductiveInv


\* A request enters process p.
LEMMA IssueStep ==
  ASSUME TypeOK, InductiveInv, NEW r \in Requests, NEW p \in Procs, NEW q \in Fields,
         GoodRequest(q), q.op # "none", q.pc \notin LockedSteps, Issue(r, p, q)
  PROVE  TypeOK' /\ InductiveInv'
<1> DEFINE k == [q EXCEPT !.at = p]
<1>1. /\ k \in Fields /\ k.pc = q.pc /\ k.at = p /\ k.op = q.op /\ k.user = q.user
      /\ k.role = q.role /\ k.want = q.want /\ k.add = q.add /\ k.rem = q.rem /\ k.to = q.to
  BY DEF Fields
<1>2. /\ reqs[r].pc = "idle" /\ reqs' = [reqs EXCEPT ![r] = k]
      /\ UNCHANGED <<database, memory, alive, lock, reload, inbox, crashes, behind>>
  BY DEF Issue
<1> HIDE DEF k
<1>3. reqs' \in [Requests -> Fields] /\ reqs'[r] = k /\ \A o \in Requests \ {r} : reqs'[o] = reqs[o]
  BY <1>1, <1>2 DEF TypeOK
<1>4. GoodRequest(k) /\ Placed(k)
  BY <1>1 DEF GoodRequest, Placed
<1>5. \A o \in Requests, s \in Procs : lock'[s] = o <=> reqs'[o].at = s /\ reqs'[o].pc \in LockedSteps
  BY <1>1, <1>2, <1>3 DEF TypeOK, LockedSteps
<1>6. /\ lock' \in [Procs -> Requests \cup {NoOne, "reload"}]
      /\ \A s \in Procs : reload[s].pc # "idle" <=> lock'[s] = "reload"
  BY <1>2 DEF TypeOK, InductiveInv, RequestInv
<1>7. k.pc \notin {"add", "remove"}
  BY <1>1 DEF LockedSteps
<1> QED
  BY <1>2, <1>3, <1>4, <1>5, <1>6, <1>7, RequestStep

LEMMA IssueSomeStep ==
  ASSUME TypeOK, InductiveInv, NEW r \in Requests, IssueSome(r)
  PROVE  TypeOK' /\ InductiveInv'
<1> USE IdleRequest, AuthorizationConstants
<1>1. PICK p \in Procs :
        \/ IssueAssign(r, p) \/ IssueAccess(r, p) \/ IssueUserStatus(r, p)
        \/ IssueRoleStatus(r, p) \/ IssueDeleteUser(r, p) \/ IssueDeleteRole(r, p)
        \/ IssueCreateUser(r, p) \/ IssueCreateRole(r, p) \/ IssueEnsureAdmin(r, p)
  BY DEF IssueSome
<1>2. CASE IssueAssign(r, p)
  <2>1. PICK u \in Users, want \in SUBSET AllRoles :
          Issue(r, p, [Idle EXCEPT !.pc = "validate", !.op = "assign", !.user = u, !.want = want])
    BY <1>2 DEF IssueAssign
  <2> DEFINE q == [Idle EXCEPT !.pc = "validate", !.op = "assign", !.user = u, !.want = want]
  <2>2. /\ q \in Fields /\ q.pc = "validate" /\ q.op = "assign" /\ q.user = u /\ q.role = NoRole
        /\ q.want = want /\ q.add = {} /\ q.rem = {} /\ q.to = "none"
    BY DEF Idle, Fields, OpKinds, AllRoles
  <2> HIDE DEF q
  <2>3. GoodRequest(q) /\ q.op # "none" /\ q.pc \notin LockedSteps
    BY <2>2 DEF GoodRequest, RowsOps, StatusOps, LockedSteps
  <2> QED
    BY <2>1, <2>2, <2>3, IssueStep DEF q
<1>3. CASE IssueAccess(r, p)
  <2>1. PICK role \in AllRoles, perms \in SUBSET Permissions :
          Mutable(role) /\ Issue(r, p, AccessRequest(role, perms))
    BY <1>3 DEF IssueAccess
  <2> DEFINE want == NormalizeAccess(perms)
             q == [Idle EXCEPT !.pc = "replace", !.op = "access", !.role = role, !.want = want]
  <2>2. want \in SUBSET Permissions
    BY DEF NormalizeAccess
  <2>9. \A a \in want \cap DOMAIN PageOf : PageOf[a] \in want
    BY DEF NormalizeAccess
  <2>3. role \in Roles /\ role \in AllRoles
    BY <2>1 DEF Mutable, AllRoles
  <2>4. Issue(r, p, q)
    BY <2>1 DEF AccessRequest
  <2> HIDE DEF want
  <2>5. /\ q \in Fields /\ q.pc = "replace" /\ q.op = "access" /\ q.user = NoUser /\ q.role = role
        /\ q.want = want /\ q.add = {} /\ q.rem = {} /\ q.to = "none"
    <3>1. want \in Wants
      BY <2>2, RuleSets
    <3> QED
      BY <2>3, <3>1, FieldSets DEF Idle, Steps, OpKinds
  <2> HIDE DEF q
  <2>6. GoodRequest(q) /\ q.op # "none" /\ q.pc \notin LockedSteps
    BY <2>2, <2>3, <2>5, <2>9 DEF GoodRequest, RowsOps, StatusOps, LockedSteps
  <2> QED
    BY <2>4, <2>5, <2>6, IssueStep
<1>4. CASE IssueUserStatus(r, p)
  <2>1. PICK u \in Users, to \in {"enabled", "disabled"} :
          Issue(r, p, [Idle EXCEPT !.pc = "update", !.op = "userStatus", !.user = u, !.to = to])
    BY <1>4 DEF IssueUserStatus
  <2> DEFINE q == [Idle EXCEPT !.pc = "update", !.op = "userStatus", !.user = u, !.to = to]
  <2>2. /\ q \in Fields /\ q.pc = "update" /\ q.op = "userStatus" /\ q.user = u /\ q.role = NoRole
        /\ q.want = {} /\ q.add = {} /\ q.rem = {} /\ q.to = to
    BY DEF Idle, Fields, OpKinds, AllRoles
  <2> HIDE DEF q
  <2>3. GoodRequest(q) /\ q.op # "none" /\ q.pc \notin LockedSteps
    BY <2>2 DEF GoodRequest, RowsOps, StatusOps, LockedSteps
  <2> QED
    BY <2>1, <2>2, <2>3, IssueStep DEF q
<1>5. CASE IssueRoleStatus(r, p)
  <2>1. PICK role \in AllRoles, to \in {"enabled", "disabled"} :
          /\ Mutable(role)
          /\ Issue(r, p, [Idle EXCEPT !.pc = "update", !.op = "roleStatus", !.role = role, !.to = to])
    BY <1>5 DEF IssueRoleStatus
  <2> DEFINE q == [Idle EXCEPT !.pc = "update", !.op = "roleStatus", !.role = role, !.to = to]
  <2>2. role \in Roles
    BY <2>1 DEF Mutable, AllRoles
  <2>3. /\ q \in Fields /\ q.pc = "update" /\ q.op = "roleStatus" /\ q.user = NoUser /\ q.role = role
        /\ q.want = {} /\ q.add = {} /\ q.rem = {} /\ q.to = to
    BY <2>2 DEF Idle, Fields, OpKinds, AllRoles
  <2> HIDE DEF q
  <2>4. GoodRequest(q) /\ q.op # "none" /\ q.pc \notin LockedSteps
    BY <2>2, <2>3 DEF GoodRequest, RowsOps, StatusOps, LockedSteps
  <2> QED
    BY <2>1, <2>3, <2>4, IssueStep DEF q
<1>6. CASE IssueDeleteUser(r, p)
  <2>1. PICK u \in Users : Issue(r, p, [Idle EXCEPT !.pc = "detachUser", !.op = "deleteUser", !.user = u])
    BY <1>6 DEF IssueDeleteUser
  <2> DEFINE q == [Idle EXCEPT !.pc = "detachUser", !.op = "deleteUser", !.user = u]
  <2>2. /\ q \in Fields /\ q.pc = "detachUser" /\ q.op = "deleteUser" /\ q.user = u /\ q.role = NoRole
        /\ q.want = {} /\ q.add = {} /\ q.rem = {} /\ q.to = "none"
    BY DEF Idle, Fields, OpKinds, AllRoles
  <2> HIDE DEF q
  <2>3. GoodRequest(q) /\ q.op # "none" /\ q.pc \notin LockedSteps
    BY <2>2 DEF GoodRequest, RowsOps, StatusOps, LockedSteps
  <2> QED
    BY <2>1, <2>2, <2>3, IssueStep DEF q
<1>7. CASE IssueDeleteRole(r, p)
  <2>1. PICK role \in AllRoles :
          /\ Mutable(role)
          /\ Issue(r, p, [Idle EXCEPT !.pc = "revoke", !.op = "deleteRole", !.role = role])
    BY <1>7 DEF IssueDeleteRole
  <2> DEFINE q == [Idle EXCEPT !.pc = "revoke", !.op = "deleteRole", !.role = role]
  <2>2. role \in Roles
    BY <2>1 DEF Mutable, AllRoles
  <2>3. /\ q \in Fields /\ q.pc = "revoke" /\ q.op = "deleteRole" /\ q.user = NoUser /\ q.role = role
        /\ q.want = {} /\ q.add = {} /\ q.rem = {} /\ q.to = "none"
    BY <2>2 DEF Idle, Fields, OpKinds, AllRoles
  <2> HIDE DEF q
  <2>4. GoodRequest(q) /\ q.op # "none" /\ q.pc \notin LockedSteps
    BY <2>2, <2>3 DEF GoodRequest, RowsOps, StatusOps, LockedSteps
  <2> QED
    BY <2>1, <2>3, <2>4, IssueStep DEF q
<1>8. CASE IssueCreateUser(r, p)
  <2>1. PICK u \in Users, to \in {"enabled", "disabled"}, want \in SUBSET AllRoles :
          Issue(r, p, [Idle EXCEPT !.pc = "insert", !.op = "createUser", !.user = u,
                                   !.want = want, !.to = to])
    BY <1>8 DEF IssueCreateUser
  <2> DEFINE q == [Idle EXCEPT !.pc = "insert", !.op = "createUser", !.user = u,
                               !.want = want, !.to = to]
  <2>2. /\ q \in Fields /\ q.pc = "insert" /\ q.op = "createUser" /\ q.user = u /\ q.role = NoRole
        /\ q.want = want /\ q.add = {} /\ q.rem = {} /\ q.to = to
    BY DEF Idle, Fields, OpKinds, AllRoles
  <2> HIDE DEF q
  <2>3. GoodRequest(q) /\ q.op # "none" /\ q.pc \notin LockedSteps
    BY <2>2 DEF GoodRequest, RowsOps, StatusOps, LockedSteps
  <2> QED
    BY <2>1, <2>2, <2>3, IssueStep DEF q
<1>9. CASE IssueCreateRole(r, p)
  <2>1. PICK role \in Roles, to \in {"enabled", "disabled"} :
          Issue(r, p, [Idle EXCEPT !.pc = "insert", !.op = "createRole", !.role = role, !.to = to])
    BY <1>9 DEF IssueCreateRole
  <2> DEFINE q == [Idle EXCEPT !.pc = "insert", !.op = "createRole", !.role = role, !.to = to]
  <2>2. /\ q \in Fields /\ q.pc = "insert" /\ q.op = "createRole" /\ q.user = NoUser /\ q.role = role
        /\ q.want = {} /\ q.add = {} /\ q.rem = {} /\ q.to = to
    BY DEF Idle, Fields, OpKinds, AllRoles
  <2> HIDE DEF q
  <2>3. GoodRequest(q) /\ q.op # "none" /\ q.pc \notin LockedSteps
    BY <2>2 DEF GoodRequest, RowsOps, StatusOps, LockedSteps
  <2> QED
    BY <2>1, <2>2, <2>3, IssueStep DEF q
<1>10. CASE IssueEnsureAdmin(r, p)
  <2>1. PICK u \in Users :
          Issue(r, p, [Idle EXCEPT !.pc = "insert", !.op = "ensureAdmin", !.user = u, !.to = "enabled"])
    BY <1>10 DEF IssueEnsureAdmin
  <2> DEFINE q == [Idle EXCEPT !.pc = "insert", !.op = "ensureAdmin", !.user = u, !.to = "enabled"]
  <2>2. /\ q \in Fields /\ q.pc = "insert" /\ q.op = "ensureAdmin" /\ q.user = u /\ q.role = NoRole
        /\ q.want = {} /\ q.add = {} /\ q.rem = {} /\ q.to = "enabled"
    BY DEF Idle, Fields, OpKinds, AllRoles
  <2> HIDE DEF q
  <2>3. GoodRequest(q) /\ q.op # "none" /\ q.pc \notin LockedSteps
    BY <2>2 DEF GoodRequest, RowsOps, StatusOps, LockedSteps
  <2> QED
    BY <2>1, <2>2, <2>3, IssueStep DEF q
<1> QED
  BY <1>1, <1>2, <1>3, <1>4, <1>5, <1>6, <1>7, <1>8, <1>9, <1>10

-----------------------------------------------------------------------------
(* Requests that read before they change rules.                            *)

LEMMA ValidateStep ==
  ASSUME TypeOK, InductiveInv, NEW r \in Requests, Validate(r)
  PROVE  TypeOK' /\ InductiveInv'
<1> DEFINE pc == IF /\ \A role \in reqs[r].want : Exists(roles[role])
                    /\ \A role \in reqs[r].want \ RolesIn(memory[reqs[r].at].memberships, reqs[r].user) :
                           roles[role] = "enabled"
                 THEN "replace" ELSE "failed"
<1>1. /\ reqs[r].pc = "validate" /\ Goto(r, pc)
      /\ UNCHANGED <<database, memory, alive, lock, reload, inbox, crashes, behind>>
  BY DEF Validate
<1>2. pc \in {"replace", "failed"} /\ pc \in Steps
  BY DEF Steps, Terminal
<1> HIDE DEF pc
<1>3. GoodRequest(reqs[r]) /\ Placed(reqs[r])
  BY DEF InductiveInv, RequestInv
<1>4. /\ reqs' \in [Requests -> Fields]
      /\ \A o \in Requests \ {r} : reqs'[o] = reqs[o]
      /\ reqs'[r].pc = pc /\ reqs'[r].at = reqs[r].at
      /\ GoodRequest(reqs'[r]) /\ Placed(reqs'[r])
  BY <1>1, <1>2, <1>3, GotoFields DEF GoodRequest, Placed, RowsOps
<1>5. /\ lock' \in [Procs -> Requests \cup {NoOne, "reload"}]
      /\ \A s \in Procs : reload[s].pc # "idle" <=> lock'[s] = "reload"
  BY <1>1 DEF TypeOK, InductiveInv, RequestInv
<1>6. \A o \in Requests, s \in Procs : lock'[s] = o <=> reqs'[o].at = s /\ reqs'[o].pc \in LockedSteps
  BY <1>1, <1>2, <1>4 DEF TypeOK, LockedSteps
<1> QED
  BY <1>1, <1>2, <1>4, <1>5, <1>6, RequestStep

\* ensure_bootstrap_role asks for roles only.
LEMMA BootstrapStep ==
  ASSUME TypeOK, InductiveInv, NEW r \in Requests, Bootstrap(r)
  PROVE  TypeOK' /\ InductiveInv'
<1> DEFINE want == RolesIn(memory[reqs[r].at].memberships, reqs[r].user) \cup {SuperAdmin}
           k == [reqs[r] EXCEPT !.pc = "replace", !.want = want]
<1>1. /\ reqs[r].pc = "bootstrap" /\ reqs' = [reqs EXCEPT ![r] = k]
      /\ UNCHANGED <<database, memory, alive, lock, reload, inbox, crashes, behind>>
  BY DEF Bootstrap
<1>2. want \in SUBSET AllRoles
  BY DEF RolesIn, AllRoles
<1>3. GoodRequest(reqs[r]) /\ Placed(reqs[r]) /\ reqs[r] \in Fields
  BY DEF InductiveInv, RequestInv, TypeOK
<1> HIDE DEF want
<1>4. /\ k \in Fields /\ k.pc = "replace" /\ k.at = reqs[r].at /\ k.op = reqs[r].op /\ k.user = reqs[r].user
      /\ k.role = reqs[r].role /\ k.want = want /\ k.add = reqs[r].add /\ k.rem = reqs[r].rem /\ k.to = reqs[r].to
  BY <1>2, <1>3 DEF Fields
<1> HIDE DEF k
<1>5. GoodRequest(k) /\ Placed(k)
  BY <1>1, <1>2, <1>3, <1>4 DEF GoodRequest, Placed, RowsOps
<1>6. reqs' \in [Requests -> Fields] /\ reqs'[r] = k /\ \A o \in Requests \ {r} : reqs'[o] = reqs[o]
  BY <1>1, <1>4 DEF TypeOK
<1>7. /\ lock' \in [Procs -> Requests \cup {NoOne, "reload"}]
      /\ \A s \in Procs : reload[s].pc # "idle" <=> lock'[s] = "reload"
  BY <1>1 DEF TypeOK, InductiveInv, RequestInv
<1>8. \A o \in Requests, s \in Procs : lock'[s] = o <=> reqs'[o].at = s /\ reqs'[o].pc \in LockedSteps
  BY <1>1, <1>4, <1>6 DEF TypeOK, LockedSteps
<1> QED
  BY <1>1, <1>4, <1>5, <1>6, <1>7, <1>8, RequestStep


\* A replacement takes the lock and compares: behind no change, what it keeps is stored.
LEMMA DiffStep ==
  ASSUME TypeOK, InductiveInv, NEW r \in Requests, Diff(r)
  PROVE  TypeOK' /\ InductiveInv'
<1> DEFINE q == reqs[r]
           wanted == {Subject(q)} \X q.want
           add == wanted \ Held(q)
           rem == Held(q) \ wanted
           pc == IF add # {} THEN "add" ELSE IF rem # {} THEN "remove" ELSE "ok"
           k == [q EXCEPT !.add = add, !.rem = rem, !.pc = pc]
<1>1. /\ q.pc = "replace" /\ lock[q.at] = NoOne
      /\ reqs' = [reqs EXCEPT ![r] = k]
      /\ lock' = IF wanted = Held(q) THEN lock ELSE [lock EXCEPT ![q.at] = r]
      /\ UNCHANGED <<database, memory, alive, reload, inbox, crashes, behind>>
  BY DEF Diff
<1>2. q \in Fields /\ GoodRequest(q) /\ Placed(q) /\ q.at \in Procs
  BY <1>1 DEF InductiveInv, RequestInv, TypeOK, Placed
<1>3. memory[q.at] \in Snapshots
  BY <1>2 DEF TypeOK
<1>4. q.op = "access" =>
          /\ Subject(q) = q.role /\ Held(q) = {x \in memory[q.at].grants : x[1] = q.role}
          /\ q.role \in AllRoles /\ q.want \subseteq Permissions
  BY <1>2 DEF Subject, Held, GoodRequest, AllRoles
<1>5. q.op # "access" =>
          /\ Subject(q) = q.user /\ Held(q) = {x \in memory[q.at].memberships : x[1] = q.user}
          /\ q.user \in Users /\ q.want \subseteq AllRoles /\ q.op \in RowsOps
  BY <1>1, <1>2 DEF Subject, Held, GoodRequest, RowsOps
<1>6. q.op = "access" => add \subseteq {q.role} \X Permissions /\ rem \subseteq {q.role} \X Permissions
  BY <1>3, <1>4 DEF Snapshots
<1>7. q.op # "access" => add \subseteq {q.user} \X AllRoles /\ rem \subseteq {q.user} \X AllRoles
  BY <1>3, <1>5 DEF Snapshots
<1>8. add \in Rules /\ rem \in Rules
  <2>1. CASE q.op = "access"
    <3>1. add \subseteq AllRoles \X Permissions /\ rem \subseteq AllRoles \X Permissions
      BY <1>4, <1>6, <2>1
    <3> QED
      BY <3>1, RuleSets
  <2>2. CASE q.op # "access"
    <3>1. add \subseteq Users \X AllRoles /\ rem \subseteq Users \X AllRoles
      BY <1>5, <1>7, <2>2
    <3> QED
      BY <3>1, RuleSets
  <2> QED
    BY <2>1, <2>2
<1>9. ASSUME q.op = "access", ~behind[q.at]
      PROVE  /\ add \subseteq {q.role} \X q.want /\ rem \cap ({q.role} \X q.want) = {}
             /\ {q.role} \X q.want \subseteq grants \cup (IF pc = "add" THEN add ELSE {})
             /\ \A x \in grants : x[1] = q.role => x \in ({q.role} \X q.want) \cup rem
  <2>1. memory[q.at].grants = grants
    BY <1>2, <1>9 DEF InductiveInv, MemoryInv
  <2> QED
    BY <1>4, <1>9, <2>1
<1>10. pc = "ok" <=> wanted = Held(q)
  OBVIOUS
<1>11. pc \in {"add", "remove", "ok"} /\ (pc = "remove" => add = {}) /\ pc \in Steps
  BY DEF Steps, Terminal, LockedSteps
<1> HIDE DEF wanted, add, rem, pc
<1>12. /\ k \in Fields /\ k.pc = pc /\ k.at = q.at /\ k.op = q.op /\ k.user = q.user /\ k.role = q.role
       /\ k.want = q.want /\ k.add = add /\ k.rem = rem /\ k.to = q.to
  BY <1>2, <1>8, <1>11, FieldSets
<1> HIDE DEF k
<1>13. reqs' \in [Requests -> Fields] /\ reqs'[r] = k /\ \A o \in Requests \ {r} : reqs'[o] = reqs[o]
  BY <1>1, <1>12 DEF TypeOK
<1>14. GoodRequest(k) /\ Placed(k)
  BY <1>1, <1>2, <1>5, <1>6, <1>7, <1>11, <1>12 DEF GoodRequest, Placed, RowsOps
<1>15. /\ lock' \in [Procs -> Requests \cup {NoOne, "reload"}]
       /\ lock' = IF pc = "ok" THEN lock ELSE [lock EXCEPT ![q.at] = r]
  BY <1>1, <1>10 DEF InductiveInv, RequestInv
<1>16. \A s \in Procs : reload[s].pc # "idle" <=> lock'[s] = "reload"
  BY <1>1, <1>2, <1>15, AuthorizationConstants DEF TypeOK, InductiveInv, RequestInv
<1>17. \A o \in Requests, s \in Procs : lock'[s] = o <=> reqs'[o].at = s /\ reqs'[o].pc \in LockedSteps
  BY <1>1, <1>2, <1>11, <1>12, <1>13, <1>15, AuthorizationConstants
     DEF TypeOK, InductiveInv, RequestInv, LockedSteps
<1> QED
  <2>1. k.op = "access" /\ k.pc \in {"add", "remove"} /\ ~behind[k.at] => Replaces(k, k.pc, grants)
    BY <1>9, <1>12 DEF Replaces
  <2> QED
    BY <1>1, <1>11, <1>12, <1>13, <1>14, <1>15, <1>16, <1>17, <2>1, RequestStep


-----------------------------------------------------------------------------
(* Rows of accounts and roles.                                             *)

\* A row that is not there refuses the request.
LEMMA NoRowStep ==
  ASSUME TypeOK, InductiveInv, NEW r \in Requests, NoRow(r),
         \/ reqs[r].pc \in {"update", "insert"}
         \/ /\ reqs[r].pc = "deleteRow"
            /\ reqs[r].user \in Users => ~Exists(users[reqs[r].user])
            /\ reqs[r].role \in AllRoles => ~Exists(roles[reqs[r].role])
  PROVE  TypeOK' /\ InductiveInv'
<1>1. /\ Goto(r, "failed")
      /\ UNCHANGED <<database, memory, alive, lock, reload, inbox, crashes, behind>>
  BY DEF NoRow
<1>2. reqs[r].pc # "idle"
  OBVIOUS
<1>3. /\ reqs' \in [Requests -> Fields]
      /\ \A o \in Requests \ {r} : reqs'[o] = reqs[o]
      /\ reqs'[r].pc = "failed" /\ reqs'[r].at = reqs[r].at
      /\ GoodRequest(reqs'[r]) /\ Placed(reqs'[r])
  BY <1>1, <1>2, EndedRequest DEF InductiveInv
<1>4. /\ lock' \in [Procs -> Requests \cup {NoOne, "reload"}]
      /\ \A s \in Procs : reload[s].pc # "idle" <=> lock'[s] = "reload"
  BY <1>1 DEF TypeOK, InductiveInv, RequestInv
<1>5. \A o \in Requests, s \in Procs : lock'[s] = o <=> reqs'[o].at = s /\ reqs'[o].pc \in LockedSteps
  BY <1>1, <1>3 DEF TypeOK, LockedSteps
<1> QED
  BY <1>1, <1>3, <1>4, <1>5, RequestStep

\* A row is written: its process still shows the old one, the others have missed it.
LEMMA RowStep ==
  ASSUME TypeOK, InductiveInv, NEW r \in Requests,
         reqs[r].pc \in {"update", "insert"}, Outdate(reqs[r].at), Goto(r, "overlay"),
         UNCHANGED <<memberships, grants, memory, alive, lock, inbox, crashes>>,
         users' \in [Users -> RowStates], roles' \in [AllRoles -> RowStates],
         roles'[SuperAdmin] = roles[SuperAdmin],
         \A u \in Users : users'[u] = users[u] \/ (u = reqs[r].user /\ Exists(users'[u])),
         \A x \in AllRoles : roles'[x] = roles[x] \/ (x = reqs[r].role /\ Exists(roles'[x]))
  PROVE  TypeOK' /\ InductiveInv'
<1>0. GoodRequest(reqs[r]) /\ Placed(reqs[r]) /\ reqs[r].at \in Procs
  BY DEF InductiveInv, RequestInv, Placed
<1>1. PICK at \in Procs : at = reqs[r].at
  BY <1>0
<1>2. "overlay" \in Steps
  BY DEF Steps
<1>3. /\ reqs' \in [Requests -> Fields]
      /\ \A o \in Requests \ {r} : reqs'[o] = reqs[o]
      /\ reqs'[r].pc = "overlay" /\ reqs'[r].at = at
      /\ reqs'[r].user = reqs[r].user /\ reqs'[r].role = reqs[r].role
      /\ GoodRequest(reqs'[r]) /\ Placed(reqs'[r])
  BY <1>0, <1>1, <1>2, GotoFields DEF GoodRequest, Placed, RowsOps, StatusOps
<1>4. /\ behind' \in [Procs -> BOOLEAN] /\ reload' \in [Procs -> Rebuild]
      /\ (\A p \in Procs \ {at} : behind'[p]) /\ behind'[at] = behind[at]
      /\ \A p \in Procs :
             /\ reload'[p].pc = reload[p].pc
             /\ reload'[p].memberships = reload[p].memberships
             /\ reload'[p].grants = reload[p].grants /\ reload'[p].users = reload[p].users
             /\ p # at /\ reload[p].pc # "idle" => reload'[p].missed
      /\ reload'[at].missed = reload[at].missed
  BY <1>1, OutdateFields DEF InductiveInv
<1>5. \A o \in Requests, p \in Procs : lock'[p] = o <=> reqs'[o].at = p /\ reqs'[o].pc \in LockedSteps
  BY <1>3 DEF TypeOK, LockedSteps
<1>6. TypeOK'
  <2>1. \A p \in Procs : reload'[p].pc # "idle" <=> lock'[p] = "reload"
    BY <1>4 DEF TypeOK
  <2> QED
    BY <1>3, <1>4, <1>5, <2>1 DEF TypeOK
<1>7. RequestInv'
  BY <1>3, <1>4 DEF InductiveInv, RequestInv
<1>8. ASSUME NEW facts, UsersUpToPending(at, facts)
      PROVE  \A u \in Users : \/ facts[u] = RowStatus(users'[u])
                              \/ Exists(users'[u]) /\ UserPending(at, u)'
  <2> TAKE u \in Users
  <2>1. CASE u = reqs[r].user /\ Exists(users'[u])
    BY <1>3, <2>1 DEF UserPending, Pending
  <2>2. CASE users'[u] = users[u]
    <3>1. UserPending(at, u) => UserPending(at, u)'
      BY <1>3 DEF UserPending, Pending
    <3> QED
      BY <1>8, <2>2, <3>1 DEF UsersUpToPending
  <2> QED
    BY <2>1, <2>2
<1>9. MemoryInv'
  <2> SUFFICES ASSUME ~behind[at]
               PROVE  /\ memory[at].memberships = memberships /\ memory[at].grants = grants
                      /\ \A u \in Users : \/ memory[at].users[u] = RowStatus(users'[u])
                                          \/ Exists(users'[u]) /\ UserPending(at, u)'
                      /\ \A role \in AllRoles :
                             \/ role \in memory[at].enabledRoles <=> roles'[role] = "enabled"
                             \/ Exists(roles'[role]) /\ RolePending(at, role)'
    BY <1>4 DEF MemoryInv, UsersUpToPending
  <2>1. /\ memory[at].memberships = memberships /\ memory[at].grants = grants
        /\ UsersUpToPending(at, memory[at].users)
        /\ \A role \in AllRoles :
               \/ role \in memory[at].enabledRoles <=> roles[role] = "enabled"
               \/ Exists(roles[role]) /\ RolePending(at, role)
    BY DEF InductiveInv, MemoryInv
  <2>2. ASSUME NEW role \in AllRoles
        PROVE  \/ role \in memory[at].enabledRoles <=> roles'[role] = "enabled"
               \/ Exists(roles'[role]) /\ RolePending(at, role)'
    <3>1. CASE role = reqs[r].role /\ Exists(roles'[role])
      BY <1>3, <3>1 DEF RolePending, Pending
    <3>2. CASE roles'[role] = roles[role]
      <4>1. RolePending(at, role) => RolePending(at, role)'
        BY <1>3 DEF RolePending, Pending
      <4> QED
        BY <2>1, <3>2, <4>1
    <3> QED
      BY <3>1, <3>2
  <2> QED
    BY <1>8, <2>1, <2>2
<1>10. ReloadInv'
  <2> SUFFICES ASSUME reload[at].pc # "idle", ~reload[at].missed
               PROVE  /\ reload[at].memberships = memberships /\ reload[at].grants = grants
                      /\ reload[at].pc = "roles" =>
                             \A u \in Users : \/ reload[at].users[u] = RowStatus(users'[u])
                                              \/ Exists(users'[u]) /\ UserPending(at, u)'
    BY <1>4 DEF ReloadInv, UsersUpToPending
  <2>1. /\ reload[at].memberships = memberships /\ reload[at].grants = grants
        /\ reload[at].pc = "roles" => UsersUpToPending(at, reload[at].users)
    BY DEF InductiveInv, ReloadInv
  <2> QED
    BY <1>8, <2>1
<1>11. ReplaceInv'
  BY <1>3, <1>4 DEF InductiveInv, ReplaceInv, Replaces, RequestInv, Placed
<1>12. SuperAdminComplete' /\ StoredActionsHavePages'
  BY <1>4 DEF InductiveInv, SuperAdminComplete, StoredActionsHavePages, Closed
<1> QED
  BY <1>6, <1>7, <1>9, <1>10, <1>11, <1>12 DEF InductiveInv


LEMMA WriteRowStep ==
  ASSUME TypeOK, InductiveInv, NEW r \in Requests,
         \/ UpdateUser(r)
         \/ UpdateRole(r)
         \/ InsertUser(r)
         \/ InsertRole(r)
         \/ UpsertAdmin(r)
  PROVE  TypeOK' /\ InductiveInv'
<1> DEFINE q == reqs[r]
<1>1. GoodRequest(q) /\ users \in [Users -> RowStates] /\ roles \in [AllRoles -> RowStates]
  BY DEF InductiveInv, RequestInv, TypeOK
<1>2. q.pc \in {"update", "insert"} /\ q.op \in StatusOps
  BY DEF UpdateUser, UpdateRole, InsertUser, InsertRole, UpsertAdmin, StatusOps
<1>3. q.to \in {"enabled", "disabled"}
  BY <1>1, <1>2 DEF GoodRequest
<1>4. ASSUME NEW row \in RowStates, SetUser(r, row), q.user \in Users, Exists(row) \/ row = users[q.user]
      PROVE  TypeOK' /\ InductiveInv'
  <2>1. users' = [users EXCEPT ![q.user] = row] /\ roles' = roles
    BY <1>4 DEF SetUser
  <2>2. /\ users' \in [Users -> RowStates]
        /\ \A u \in Users : users'[u] = users[u] \/ (u = q.user /\ Exists(users'[u]))
    BY <1>1, <1>4, <2>1
  <2>3. /\ Outdate(q.at) /\ Goto(r, "overlay")
        /\ UNCHANGED <<memberships, grants, memory, alive, lock, inbox, crashes>>
    BY <1>4 DEF SetUser
  <2> QED
    BY <1>1, <1>2, <2>1, <2>2, <2>3, RowStep
<1>5. ASSUME NEW row \in RowStates, SetRole(r, row), q.role \in Roles, Exists(row)
      PROVE  TypeOK' /\ InductiveInv'
  <2>1. roles' = [roles EXCEPT ![q.role] = row] /\ users' = users
    BY <1>5 DEF SetRole
  <2>2. /\ roles' \in [AllRoles -> RowStates] /\ roles'[SuperAdmin] = roles[SuperAdmin]
        /\ \A x \in AllRoles : roles'[x] = roles[x] \/ (x = q.role /\ Exists(roles'[x]))
    BY <1>1, <1>5, <2>1, AuthorizationConstants DEF AllRoles
  <2>3. /\ Outdate(q.at) /\ Goto(r, "overlay")
        /\ UNCHANGED <<memberships, grants, memory, alive, lock, inbox, crashes>>
    BY <1>5 DEF SetRole
  <2> QED
    BY <1>1, <1>2, <2>1, <2>2, <2>3, RowStep
<1>6. q.to \in RowStates /\ Exists(q.to) /\ "gone" \in RowStates /\ "enabled" \in RowStates /\ Exists("enabled")
  BY <1>3 DEF RowStates, Exists
<1>7. ASSUME NoRow(r)
      PROVE  TypeOK' /\ InductiveInv'
  BY <1>2, <1>7, NoRowStep
<1>8. CASE UpdateUser(r) \/ InsertUser(r)
  <2>1. q.user \in Users
    BY <1>1, <1>8 DEF UpdateUser, InsertUser, GoodRequest, RowsOps
  <2> QED
    BY <1>4, <1>6, <1>7, <1>8, <2>1 DEF UpdateUser, InsertUser
<1>9. CASE UpdateRole(r) \/ InsertRole(r)
  <2>1. q.role \in Roles
    BY <1>1, <1>9 DEF UpdateRole, InsertRole, GoodRequest
  <2> QED
    BY <1>5, <1>6, <1>7, <1>9, <2>1 DEF UpdateRole, InsertRole
<1>10. CASE UpsertAdmin(r)
  <2>1. q.user \in Users
    BY <1>1, <1>10 DEF UpsertAdmin, GoodRequest, RowsOps
  <2>2. CASE users[q.user] = "gone"
    BY <1>4, <1>6, <1>10, <2>1, <2>2 DEF UpsertAdmin
  <2>3. CASE users[q.user] # "gone"
    BY <1>4, <1>6, <1>10, <2>1, <2>3 DEF UpsertAdmin
  <2> QED
    BY <2>2, <2>3
<1> QED
  BY <1>8, <1>9, <1>10

\* The process shows the status it has written, or learns that the row has changed again.
LEMMA OverlayStep ==
  ASSUME TypeOK, InductiveInv, NEW r \in Requests, Overlay(r)
  PROVE  TypeOK' /\ InductiveInv'
<1>1. /\ reqs[r].pc = "overlay" /\ GoodRequest(reqs[r]) /\ Placed(reqs[r])
      /\ reqs[r].op \in StatusOps /\ reqs[r].to \in {"enabled", "disabled"}
  BY DEF Overlay, InductiveInv, RequestInv, GoodRequest
<1>2. PICK at \in Procs, user \in Users \cup {NoUser}, role \in AllRoles \cup {NoRole}, to \in {"enabled", "disabled"} :
        reqs[r].at = at /\ reqs[r].user = user /\ reqs[r].role = role /\ reqs[r].to = to
  <2>1. reqs[r] \in Fields /\ reqs[r].at \in Procs
    BY <1>1 DEF Placed, TypeOK
  <2> QED
    BY <1>1, <2>1, FieldSets
<1>3. (user \in Users /\ role = NoRole) \/ (user = NoUser /\ role \in Roles)
  BY <1>1, <1>2 DEF GoodRequest, StatusOps, RowsOps
<1> DEFINE pc == AfterOverlay(reqs[r])
           shown == WithStatus(memory[at], reqs[r])
           row == IF user # NoUser THEN users[user] ELSE roles[role]
<1>4. /\ lock[at] = NoOne /\ memory' = [memory EXCEPT ![at] = shown]
      /\ behind' = [behind EXCEPT ![at] = behind[at] \/ RowStatus(row) # to]
      /\ Goto(r, pc) /\ Notify(at)
      /\ UNCHANGED <<database, alive, lock, reload, crashes>>
  BY <1>2 DEF Overlay
<1>5. /\ pc \in {"replace", "bootstrap", "ok"} /\ pc \in Steps
      /\ pc = "replace" => reqs[r].op = "createUser"
      /\ pc = "bootstrap" => reqs[r].op = "ensureAdmin"
  BY DEF AfterOverlay, Steps, Terminal
<1> HIDE DEF pc
<1>6. /\ reqs' \in [Requests -> Fields]
      /\ \A o \in Requests \ {r} : reqs'[o] = reqs[o]
      /\ reqs'[r].pc = pc /\ reqs'[r].at = at
      /\ GoodRequest(reqs'[r]) /\ Placed(reqs'[r])
  BY <1>1, <1>2, <1>4, <1>5, GotoFields DEF GoodRequest, Placed, RowsOps, StatusOps
<1>7. /\ shown \in Snapshots /\ shown.memberships = memory[at].memberships
      /\ shown.grants = memory[at].grants
      /\ \A u \in Users : shown.users[u] = IF u = user THEN to ELSE memory[at].users[u]
      /\ \A x \in AllRoles : IF x = role THEN x \in shown.enabledRoles <=> to = "enabled"
                             ELSE x \in shown.enabledRoles <=> x \in memory[at].enabledRoles
  <2>1. memory[at] \in Snapshots
    BY DEF TypeOK
  <2>2. CASE user \in Users /\ role = NoRole
    <3>1. shown = [memory[at] EXCEPT !.users[user] = to]
      BY <1>2, <2>2, AuthorizationConstants DEF WithStatus
    <3> QED
      BY <2>1, <2>2, <3>1, AuthorizationConstants DEF Snapshots
  <2>3. CASE user = NoUser /\ role \in Roles
    <3>1. shown = [memory[at] EXCEPT !.enabledRoles =
                      IF to = "enabled" THEN memory[at].enabledRoles \cup {role}
                      ELSE memory[at].enabledRoles \ {role}]
      BY <1>2, <2>3, AuthorizationConstants DEF WithStatus
    <3>2. role \in AllRoles
      BY <2>3 DEF AllRoles
    <3> QED
      BY <2>1, <2>3, <3>1, <3>2, AuthorizationConstants DEF Snapshots
  <2> QED
    BY <1>3, <2>2, <2>3
<1> HIDE DEF shown
<1>8. behind' \in [Procs -> BOOLEAN] /\ \A p \in Procs : ~behind'[p] => ~behind[p]
  <2> DEFINE b == behind[at] \/ RowStatus(row) # to
  <2>1. b \in BOOLEAN /\ (~b => ~behind[at])
    BY DEF TypeOK
  <2>2. behind' = [behind EXCEPT ![at] = b]
    BY <1>4
  <2> HIDE DEF b
  <2> QED
    BY <2>1, <2>2 DEF TypeOK
<1>9. ~behind'[at] => RowStatus(row) = to
  BY <1>4 DEF TypeOK
<1>10. TypeOK'
  <2>1. inbox' \in [Procs -> BOOLEAN]
    BY <1>4, NotifyType
  <2>2. \A o \in Requests, p \in Procs : lock'[p] = o <=> reqs'[o].at = p /\ reqs'[o].pc \in LockedSteps
    BY <1>1, <1>2, <1>4, <1>5, <1>6 DEF TypeOK, LockedSteps
  <2>3. memory' \in [Procs -> Snapshots]
    BY <1>4, <1>7 DEF TypeOK
  <2> QED
    BY <1>4, <1>6, <1>8, <2>1, <2>2, <2>3 DEF TypeOK, database
<1>11. RequestInv'
  BY <1>4, <1>6 DEF InductiveInv, RequestInv
<1>12. /\ \A p \in Procs, u \in Users : UserPending(p, u) /\ (p = at => u # user) => UserPending(p, u)'
       /\ \A p \in Procs, x \in AllRoles : RolePending(p, x) /\ (p = at => x # role) => RolePending(p, x)'
  BY <1>2, <1>6 DEF UserPending, RolePending, Pending

<1>13. MemoryInv'
  <2> SUFFICES ASSUME NEW p \in Procs, ~behind'[p]
               PROVE  /\ memory'[p].memberships = memberships /\ memory'[p].grants = grants
                      /\ \A u \in Users : \/ memory'[p].users[u] = RowStatus(users[u])
                                          \/ Exists(users[u]) /\ UserPending(p, u)'
                      /\ \A x \in AllRoles : \/ x \in memory'[p].enabledRoles <=> roles[x] = "enabled"
                                             \/ Exists(roles[x]) /\ RolePending(p, x)'
    BY <1>4 DEF MemoryInv, UsersUpToPending, database
  <2>1. /\ memory[p].memberships = memberships /\ memory[p].grants = grants
        /\ \A u \in Users : \/ memory[p].users[u] = RowStatus(users[u])
                            \/ Exists(users[u]) /\ UserPending(p, u)
        /\ \A x \in AllRoles : \/ x \in memory[p].enabledRoles <=> roles[x] = "enabled"
                               \/ Exists(roles[x]) /\ RolePending(p, x)
    BY <1>8 DEF InductiveInv, MemoryInv, UsersUpToPending
  <2>2. CASE p # at
    <3>1. memory'[p] = memory[p]
      BY <1>4, <2>2 DEF TypeOK
    <3> QED
      BY <1>12, <2>1, <2>2, <3>1
  <2>3. CASE p = at
    <3>1. memory'[p] = shown
      BY <1>4, <2>3 DEF TypeOK
    <3>2. RowStatus(row) = to
      BY <1>9, <2>3
    <3>3. ASSUME NEW u \in Users
          PROVE  \/ memory'[p].users[u] = RowStatus(users[u])
                 \/ Exists(users[u]) /\ UserPending(p, u)'
      BY <1>7, <1>12, <2>1, <2>3, <3>1, <3>2, AuthorizationConstants
    <3>4. ASSUME NEW x \in AllRoles
          PROVE  \/ x \in memory'[p].enabledRoles <=> roles[x] = "enabled"
                 \/ Exists(roles[x]) /\ RolePending(p, x)'
      <4>1. CASE x = role
        <5>1. user = NoUser
          BY <1>3, <3>4, <4>1, AuthorizationConstants
        <5>2. to = "enabled" <=> roles[x] = "enabled"
          BY <3>2, <4>1, <5>1 DEF RowStatus
        <5> QED
          BY <1>7, <3>1, <4>1, <5>2
      <4>2. CASE x # role
        BY <1>7, <1>12, <2>1, <2>3, <3>1, <4>2
      <4> QED
        BY <4>1, <4>2
    <3> QED
      BY <1>7, <2>1, <2>3, <3>1, <3>3, <3>4
  <2> QED
    BY <2>2, <2>3
<1>14. ReloadInv'
  <2> SUFFICES ASSUME NEW p \in Procs, reload[p].pc # "idle", ~reload[p].missed
               PROVE  /\ reload[p].memberships = memberships /\ reload[p].grants = grants
                      /\ reload[p].pc = "roles" =>
                             \A u \in Users : \/ reload[p].users[u] = RowStatus(users[u])
                                              \/ Exists(users[u]) /\ UserPending(p, u)'
    BY <1>4 DEF ReloadInv, UsersUpToPending, database
  <2>1. p # at
    BY <1>4, AuthorizationConstants DEF TypeOK
  <2>2. /\ reload[p].memberships = memberships /\ reload[p].grants = grants
        /\ reload[p].pc = "roles" =>
               \A u \in Users : \/ reload[p].users[u] = RowStatus(users[u])
                                \/ Exists(users[u]) /\ UserPending(p, u)
    BY DEF InductiveInv, ReloadInv, UsersUpToPending
  <2> QED
    BY <1>12, <2>1, <2>2
<1>15. ReplaceInv'
  BY <1>4, <1>5, <1>6, <1>8 DEF InductiveInv, ReplaceInv, Replaces, RequestInv, Placed, database
<1>16. SuperAdminComplete' /\ StoredActionsHavePages'
  BY <1>4, <1>8 DEF InductiveInv, SuperAdminComplete, StoredActionsHavePages, Closed, database
<1> QED
  BY <1>10, <1>11, <1>13, <1>14, <1>15, <1>16 DEF InductiveInv


-----------------------------------------------------------------------------
(* Rules, saved and shown in one critical section.                         *)

\* s is what process p holds afterwards; the other processes have missed the change.
LEMMA RulesStep ==
  ASSUME TypeOK, InductiveInv, NEW r \in Requests, NEW p \in Procs, NEW s \in Snapshots, NEW pc \in Steps,
         reqs[r].at = p, reqs[r].pc \notin {"idle", "overlay", "deleteRow"}, Goto(r, pc), pc # "overlay",
         GoodRequest(reqs'[r]), Outdate(p), Notify(p), UNCHANGED <<users, roles, alive, crashes>>,
         lock[p] \in {NoOne, r},
         lock' = [lock EXCEPT ![p] = IF pc \in LockedSteps THEN r ELSE NoOne],
         memory' = [memory EXCEPT ![p] = s],
         memberships' \subseteq Users \X AllRoles, grants' \subseteq AllRoles \X Permissions,
         ~behind[p] => s.memberships = memberships' /\ s.grants = grants',
         \A u \in Users : \/ s.users[u] = memory[p].users[u]
                          \/ s.users[u] = "none" /\ u = reqs[r].user /\ pc = "deleteRow",
         \A x \in AllRoles : \/ x \in s.enabledRoles <=> x \in memory[p].enabledRoles
                             \/ x \notin s.enabledRoles /\ x = reqs[r].role /\ pc = "deleteRow",
         {SuperAdmin} \X Permissions \subseteq grants',
         ~behind[p] /\ Closed(grants) => Closed(grants)',
         reqs[r].op = "access" /\ pc \in {"add", "remove"} /\ ~behind[p] => Replaces(reqs[r], pc, grants')
  PROVE  TypeOK' /\ InductiveInv'
<1>1. /\ reqs' \in [Requests -> Fields] /\ \A o \in Requests \ {r} : reqs'[o] = reqs[o]
      /\ reqs'[r].pc = pc /\ reqs'[r].at = p /\ reqs'[r].op = reqs[r].op
      /\ reqs'[r].user = reqs[r].user /\ reqs'[r].role = reqs[r].role /\ reqs'[r].want = reqs[r].want
      /\ reqs'[r].add = reqs[r].add /\ reqs'[r].rem = reqs[r].rem
  BY GotoFields
<1>2. /\ behind' \in [Procs -> BOOLEAN] /\ reload' \in [Procs -> Rebuild]
      /\ (\A q \in Procs \ {p} : behind'[q]) /\ behind'[p] = behind[p]
      /\ \A q \in Procs :
             /\ reload'[q].pc = reload[q].pc
             /\ reload'[q].memberships = reload[q].memberships
             /\ reload'[q].grants = reload[q].grants /\ reload'[q].users = reload[q].users
             /\ q # p /\ reload[q].pc # "idle" => reload'[q].missed
  BY OutdateFields DEF InductiveInv
<1>3. Placed(reqs[r]) /\ Placed(reqs'[r])
  BY <1>1 DEF InductiveInv, RequestInv, Placed
<1>4. reload[p].pc = "idle"
  BY AuthorizationConstants DEF TypeOK
<1>5. \A o \in Requests \ {r} : reqs[o].at = p => reqs[o].pc \notin LockedSteps
  BY AuthorizationConstants DEF TypeOK
<1>6. lock \in [Procs -> Requests \cup {NoOne, "reload"}]
  BY DEF InductiveInv, RequestInv
<1>7. TypeOK'
  <2>1. inbox' \in [Procs -> BOOLEAN]
    BY NotifyType
  <2>2. ASSUME NEW o \in Requests, NEW q \in Procs
        PROVE  lock'[q] = o <=> reqs'[o].at = q /\ reqs'[o].pc \in LockedSteps
    <3>1. lock[q] = o <=> reqs[o].at = q /\ reqs[o].pc \in LockedSteps
      BY DEF TypeOK
    <3>2. CASE q # p
      BY <1>1, <1>6, <3>1, <3>2
    <3>3. CASE q = p /\ o = r
      BY <1>1, <1>6, <3>3, AuthorizationConstants
    <3>4. CASE q = p /\ o # r
      BY <1>1, <1>5, <1>6, <3>4, AuthorizationConstants
    <3> QED
      BY <3>2, <3>3, <3>4
  <2>3. \A q \in Procs : reload'[q].pc # "idle" <=> lock'[q] = "reload"
    BY <1>2, <1>4, <1>6, AuthorizationConstants DEF TypeOK
  <2>4. memory' \in [Procs -> Snapshots]
    BY DEF TypeOK
  <2> QED
    BY <1>1, <1>2, <2>1, <2>2, <2>3, <2>4 DEF TypeOK
<1>8. RequestInv'
  BY <1>1, <1>2, <1>3, <1>6 DEF InductiveInv, RequestInv
<1>9. /\ \A u \in Users : UserPending(p, u) => UserPending(p, u)'
      /\ \A x \in AllRoles : RolePending(p, x) => RolePending(p, x)'
  BY <1>1 DEF UserPending, RolePending, Pending
<1>10. pc = "deleteRow" =>
           /\ \A u \in Users : u = reqs[r].user => UserPending(p, u)'
           /\ \A x \in AllRoles : x = reqs[r].role => RolePending(p, x)'
  BY <1>1 DEF UserPending, RolePending, Pending
<1>11. MemoryInv'
  <2> SUFFICES ASSUME ~behind[p]
               PROVE  /\ s.memberships = memberships' /\ s.grants = grants'
                      /\ \A u \in Users : \/ s.users[u] = RowStatus(users[u])
                                          \/ Exists(users[u]) /\ UserPending(p, u)'
                      /\ \A x \in AllRoles : \/ x \in s.enabledRoles <=> roles[x] = "enabled"
                                             \/ Exists(roles[x]) /\ RolePending(p, x)'
    <3>1. memory'[p] = s
      BY DEF TypeOK
    <3> QED
      BY <1>2, <3>1 DEF MemoryInv, UsersUpToPending
  <2>1. /\ \A u \in Users : \/ memory[p].users[u] = RowStatus(users[u])
                            \/ Exists(users[u]) /\ UserPending(p, u)
        /\ \A x \in AllRoles : \/ x \in memory[p].enabledRoles <=> roles[x] = "enabled"
                               \/ Exists(roles[x]) /\ RolePending(p, x)
    BY DEF InductiveInv, MemoryInv, UsersUpToPending
  <2>2. ASSUME NEW u \in Users
        PROVE  \/ s.users[u] = RowStatus(users[u])
               \/ Exists(users[u]) /\ UserPending(p, u)'
    BY <1>9, <1>10, <2>1 DEF Exists, RowStatus
  <2>3. ASSUME NEW x \in AllRoles
        PROVE  \/ x \in s.enabledRoles <=> roles[x] = "enabled"
               \/ Exists(roles[x]) /\ RolePending(p, x)'
    BY <1>9, <1>10, <2>1 DEF Exists
  <2> QED
    BY <2>2, <2>3
<1>12. ReloadInv'
  BY <1>2, <1>4 DEF ReloadInv
<1>13. ReplaceInv'
  <2> SUFFICES ASSUME NEW o \in Requests, reqs'[o].op = "access", reqs'[o].pc \in {"add", "remove"},
                      ~behind'[reqs'[o].at]
               PROVE  Replaces(reqs'[o], reqs'[o].pc, grants')
    BY DEF ReplaceInv, Replaces
  <2>1. reqs'[o].at \in Procs
    BY <1>8 DEF RequestInv, Placed
  <2>2. reqs'[o].at = p
    BY <1>2, <2>1
  <2>3. o = r
    BY <1>1, <1>5, <2>2 DEF LockedSteps
  <2>4. Replaces(reqs[r], pc, grants')
    BY <1>1, <1>2, <2>2, <2>3
  <2> QED
    BY <1>1, <2>3, <2>4 DEF Replaces
<1>14. SuperAdminComplete'
  BY DEF InductiveInv, SuperAdminComplete
<1>15. StoredActionsHavePages'
  BY <1>2 DEF InductiveInv, StoredActionsHavePages
<1> QED
  BY <1>7, <1>8, <1>11, <1>12, <1>13, <1>14, <1>15 DEF InductiveInv


\* A bulk save either commits, and is shown, or changes nothing.
LEMMA SaveStep ==
  ASSUME TypeOK, InductiveInv, NEW r \in Requests, NEW next, NEW o, NEW add, NEW rem,
         Save(r, next, o, add, rem),
         \/ /\ reqs[r].pc = "add" /\ add = reqs[r].add /\ rem = {}
            /\ next = IF reqs[r].rem = {} THEN "ok" ELSE "remove"
         \/ reqs[r].pc = "remove" /\ add = {} /\ rem = reqs[r].rem /\ next = "ok",
         o.ok => o.rules = (Stored(reqs[r]) \cup add) \ rem,
         ~o.ok => o.rules = Stored(reqs[r])
  PROVE  TypeOK' /\ InductiveInv'
<1> DEFINE q == reqs[r]
           pc == IF o.ok THEN next ELSE "failed"
<1>1. GoodRequest(q) /\ Placed(q) /\ q.pc \in {"add", "remove"} /\ q.op \in RowsOps \cup {"access"}
  BY DEF InductiveInv, RequestInv, GoodRequest
<1>2. PICK p \in Procs : p = q.at
  BY <1>1 DEF Placed
<1>3. pc \in {"ok", "remove", "failed"} /\ pc \in Steps /\ (pc = "remove" => q.pc = "add" /\ o.ok)
  BY DEF Steps, Terminal, LockedSteps
<1>4. lock[p] = r /\ lock \in [Procs -> Requests \cup {NoOne, "reload"}]
  BY <1>1, <1>2 DEF TypeOK, InductiveInv, RequestInv, LockedSteps
<1>5. /\ IF q.op = "access" THEN grants' = o.rules /\ UNCHANGED memberships
                            ELSE memberships' = o.rules /\ UNCHANGED grants
      /\ Goto(r, pc) /\ UNCHANGED <<users, roles, alive, crashes>>
      /\ lock' = IF pc = "remove" THEN lock ELSE [lock EXCEPT ![p] = NoOne]
      /\ o.ok => /\ memory' = [memory EXCEPT ![p] =
                                 IF q.op = "access"
                                 THEN [memory[p] EXCEPT !.grants = (memory[p].grants \cup add) \ rem]
                                 ELSE [memory[p] EXCEPT !.memberships = (memory[p].memberships \cup add) \ rem]]
                 /\ Outdate(p) /\ Notify(p)
      /\ ~o.ok => UNCHANGED <<memory, reload, inbox, behind>>
  <2>1. /\ IF q.op = "access" THEN grants' = o.rules /\ UNCHANGED memberships
                              ELSE memberships' = o.rules /\ UNCHANGED grants
        /\ Goto(r, pc) /\ UNCHANGED <<users, roles, alive, crashes>>
        /\ lock' = IF pc = "remove" THEN lock ELSE [lock EXCEPT ![q.at] = NoOne]
        /\ ~o.ok => UNCHANGED <<memory, reload, inbox, behind>>
    BY DEF Save
  <2>2. ASSUME o.ok
        PROVE  /\ memory' = [memory EXCEPT ![q.at] =
                               IF q.op = "access"
                               THEN [memory[q.at] EXCEPT !.grants = (memory[q.at].grants \cup add) \ rem]
                               ELSE [memory[q.at] EXCEPT !.memberships = (memory[q.at].memberships \cup add) \ rem]]
               /\ Outdate(q.at) /\ Notify(q.at)
    BY <2>2 DEF Save
  <2> QED
    BY <1>2, <2>1, <2>2
<1>6. lock' = [lock EXCEPT ![p] = IF pc \in LockedSteps THEN r ELSE NoOne]
  BY <1>3, <1>4, <1>5 DEF LockedSteps
<1> HIDE DEF pc
<1>7. /\ reqs' \in [Requests -> Fields] /\ \A x \in Requests \ {r} : reqs'[x] = reqs[x]
      /\ reqs'[r].pc = pc /\ reqs'[r].at = p
      /\ GoodRequest(reqs'[r]) /\ Placed(reqs'[r])
  BY <1>1, <1>2, <1>3, <1>5, GotoFields DEF GoodRequest, Placed
<1>8. CASE ~o.ok
  <2>1. UNCHANGED <<database, memory, alive, reload, inbox, crashes, behind>>
    BY <1>5, <1>8 DEF Stored, database
  <2>2. pc = "failed"
    BY <1>8 DEF pc
  <2>3. lock' = [lock EXCEPT ![p] = NoOne]
    BY <1>6, <2>2 DEF LockedSteps
  <2>4. \A x \in Procs : reload[x].pc # "idle" <=> lock'[x] = "reload"
    BY <1>4, <2>3, AuthorizationConstants DEF TypeOK
  <2>5. \A x \in Requests, y \in Procs : lock'[y] = x <=> reqs'[x].at = y /\ reqs'[x].pc \in LockedSteps
    BY <1>4, <1>7, <2>2, <2>3, AuthorizationConstants DEF TypeOK, LockedSteps
  <2>6. lock' \in [Procs -> Requests \cup {NoOne, "reload"}]
    BY <1>4, <2>3
  <2> QED
    BY <1>1, <1>7, <2>1, <2>2, <2>4, <2>5, <2>6, RequestStep
<1>9. CASE o.ok /\ q.op = "access"
  <2>1. /\ memory[p] \in Snapshots /\ SuperAdmin \notin Roles /\ q.role \in Roles /\ q.role \in AllRoles
        /\ q.add \subseteq {q.role} \X Permissions /\ q.rem \subseteq {q.role} \X Permissions
        /\ q.want \subseteq Permissions
        /\ \A a \in q.want \cap DOMAIN PageOf : PageOf[a] \in q.want
    BY <1>1, <1>9, AuthorizationConstants DEF TypeOK, GoodRequest, AllRoles
  <2>2. PICK s : s = [memory[p] EXCEPT !.grants = (memory[p].grants \cup add) \ rem]
    OBVIOUS
  <2>3. add \subseteq {q.role} \X Permissions /\ rem \subseteq {q.role} \X Permissions
    BY <2>1
  <2>4. /\ s \in Snapshots /\ s.memberships = memory[p].memberships /\ s.users = memory[p].users
        /\ s.enabledRoles = memory[p].enabledRoles /\ s.grants = (memory[p].grants \cup add) \ rem
    BY <2>1, <2>2, <2>3 DEF Snapshots
  <2>5. grants' = (grants \cup add) \ rem /\ memberships' = memberships
    BY <1>5, <1>9 DEF Stored
  <2>6. grants' \subseteq AllRoles \X Permissions /\ memberships' \subseteq Users \X AllRoles
    BY <2>1, <2>3, <2>5 DEF TypeOK
  <2>7. {SuperAdmin} \X Permissions \subseteq grants'
    BY <2>1, <2>3, <2>5 DEF InductiveInv, SuperAdminComplete
  <2>8. ~behind[p] => s.memberships = memberships' /\ s.grants = grants'
    BY <2>4, <2>5 DEF InductiveInv, MemoryInv
  <2>9. ~behind[p] =>
            LET wanted == {q.role} \X q.want
            IN  /\ q.add \subseteq wanted /\ q.rem \cap wanted = {}
                /\ wanted \subseteq grants \cup (IF q.pc = "add" THEN q.add ELSE {})
                /\ \A x \in grants : x[1] = q.role => x \in wanted \cup q.rem
    BY <1>1, <1>2, <1>9 DEF InductiveInv, ReplaceInv, Replaces
  <2>10. pc \in {"add", "remove"} /\ ~behind[p] => Replaces(q, pc, grants')
    BY <1>3, <2>5, <2>9 DEF Replaces
  <2>11. ~behind[p] /\ Closed(grants) => Closed(grants)'
    <3> SUFFICES ASSUME ~behind[p], Closed(grants), NEW x \in grants', x[2] \in DOMAIN PageOf
                 PROVE  <<x[1], PageOf[x[2]]>> \in grants'
      BY DEF Closed
    <3>1. x = <<x[1], x[2]>>
      BY <2>6
    <3>2. CASE x[1] # q.role
      BY <2>3, <2>5, <3>2 DEF Closed
    <3>3. CASE x[1] = q.role /\ q.pc = "add"
      <4>1. rem = {} /\ add = q.add
        BY <3>3
      <4>2. CASE x \in grants
        BY <2>5, <4>1, <4>2 DEF Closed
      <4>3. CASE x \in add
        <5>1. x \in {q.role} \X q.want
          BY <2>9, <4>1, <4>3
        <5>2. <<q.role, PageOf[x[2]]>> \in {q.role} \X q.want
          BY <2>1, <5>1
        <5> QED
          BY <2>5, <2>9, <3>3, <4>1, <5>2
      <4> QED
        BY <2>5, <4>2, <4>3
    <3>4. CASE x[1] = q.role /\ q.pc = "remove"
      <4>1. rem = q.rem /\ add = {}
        BY <3>4
      <4>2. x \in {q.role} \X q.want
        BY <2>5, <2>9, <3>4, <4>1
      <4>3. <<q.role, PageOf[x[2]]>> \in {q.role} \X q.want
        BY <2>1, <4>2
      <4> QED
        BY <2>5, <2>9, <3>4, <4>1, <4>3
    <3> QED
      BY <1>1, <3>2, <3>3, <3>4
  <2>12. memory' = [memory EXCEPT ![p] = s] /\ Outdate(p) /\ Notify(p)
    BY <1>5, <1>9, <2>2
  <2>13. /\ reqs[r].at = p /\ reqs[r].pc \notin {"idle", "overlay", "deleteRow"} /\ pc # "overlay"
         /\ lock[p] \in {NoOne, r} /\ Goto(r, pc) /\ UNCHANGED <<users, roles, alive, crashes>>
         /\ \A u \in Users : s.users[u] = memory[p].users[u]
         /\ \A x \in AllRoles : x \in s.enabledRoles <=> x \in memory[p].enabledRoles
    BY <1>1, <1>2, <1>3, <1>4, <1>5, <2>4
  <2> QED
    BY <1>3, <1>6, <1>7, <2>4, <2>6, <2>7, <2>8, <2>10, <2>11, <2>12, <2>13, RulesStep
<1>10. CASE o.ok /\ q.op # "access"
  <2>1. /\ memory[p] \in Snapshots
        /\ q.user \in Users /\ q.add \subseteq {q.user} \X AllRoles /\ q.rem \subseteq {q.user} \X AllRoles
    BY <1>1, <1>10 DEF TypeOK, GoodRequest
  <2>2. PICK s : s = [memory[p] EXCEPT !.memberships = (memory[p].memberships \cup add) \ rem]
    OBVIOUS
  <2>3. add \subseteq {q.user} \X AllRoles /\ rem \subseteq {q.user} \X AllRoles
    BY <2>1
  <2>4. /\ s \in Snapshots /\ s.grants = memory[p].grants /\ s.users = memory[p].users
        /\ s.enabledRoles = memory[p].enabledRoles /\ s.memberships = (memory[p].memberships \cup add) \ rem
    BY <2>1, <2>2, <2>3 DEF Snapshots
  <2>5. memberships' = (memberships \cup add) \ rem /\ grants' = grants
    BY <1>5, <1>10 DEF Stored
  <2>6. grants' \subseteq AllRoles \X Permissions /\ memberships' \subseteq Users \X AllRoles
    BY <2>1, <2>3, <2>5 DEF TypeOK
  <2>7. {SuperAdmin} \X Permissions \subseteq grants'
    BY <2>5 DEF InductiveInv, SuperAdminComplete
  <2>8. ~behind[p] => s.memberships = memberships' /\ s.grants = grants'
    BY <2>4, <2>5 DEF InductiveInv, MemoryInv
  <2>9. Closed(grants) => Closed(grants)'
    BY <2>5 DEF Closed
  <2>10. memory' = [memory EXCEPT ![p] = s] /\ Outdate(p) /\ Notify(p)
    BY <1>5, <1>10, <2>2
  <2>11. /\ reqs[r].at = p /\ reqs[r].pc \notin {"idle", "overlay", "deleteRow"} /\ pc # "overlay"
         /\ lock[p] \in {NoOne, r} /\ Goto(r, pc) /\ UNCHANGED <<users, roles, alive, crashes>>
         /\ \A u \in Users : s.users[u] = memory[p].users[u]
         /\ \A x \in AllRoles : x \in s.enabledRoles <=> x \in memory[p].enabledRoles
         /\ reqs[r].op # "access"
    BY <1>1, <1>2, <1>3, <1>4, <1>5, <1>10, <2>4
  <2> QED
    BY <1>3, <1>6, <1>7, <2>4, <2>6, <2>7, <2>8, <2>9, <2>10, <2>11, RulesStep
<1> QED
  BY <1>8, <1>9, <1>10

LEMMA AddStep ==
  ASSUME TypeOK, InductiveInv, NEW r \in Requests, Add(r)
  PROVE  TypeOK' /\ InductiveInv'
<1>1. PICK o \in AddOutcomes(Stored(reqs[r]), reqs[r].add) :
        Save(r, IF reqs[r].rem = {} THEN "ok" ELSE "remove", o, reqs[r].add, {})
  BY DEF Add
<1>2. /\ o.ok => o.rules = (Stored(reqs[r]) \cup reqs[r].add) \ {}
      /\ ~o.ok => o.rules = Stored(reqs[r])
  BY DEF AddOutcomes
<1> QED
  BY <1>1, <1>2, SaveStep DEF Add

LEMMA RemoveStep ==
  ASSUME TypeOK, InductiveInv, NEW r \in Requests, Remove(r)
  PROVE  TypeOK' /\ InductiveInv'
<1>1. PICK o \in RemoveOutcomes(Stored(reqs[r]), reqs[r].rem) : Save(r, "ok", o, {}, reqs[r].rem)
  BY DEF Remove
<1>2. /\ o.ok => o.rules = (Stored(reqs[r]) \cup {}) \ reqs[r].rem
      /\ ~o.ok => o.rules = Stored(reqs[r])
  BY DEF RemoveOutcomes
<1> QED
  BY <1>1, <1>2, SaveStep DEF Remove


\* remove_filtered_*: the process keeps the stored rules if it held them.
LEMMA FilteredRules ==
  ASSUME NEW stored, NEW held, NEW matching, NEW o \in FilteredOutcomes(stored, held, matching)
  PROVE  /\ o.stored \subseteq stored /\ o.held \subseteq held
         /\ o.stored = stored \ matching
         /\ held = stored => o.held = o.stored
BY DEF FilteredOutcomes

LEMMA DetachUserStep ==
  ASSUME TypeOK, InductiveInv, NEW r \in Requests, DetachUser(r)
  PROVE  TypeOK' /\ InductiveInv'
<1> DEFINE q == reqs[r]
<1>1. /\ GoodRequest(q) /\ Placed(q) /\ q.pc = "detachUser" /\ q.op = "deleteUser"
      /\ q.user \in Users /\ q.role = NoRole
  BY DEF DetachUser, InductiveInv, RequestInv, GoodRequest
<1>2. PICK p \in Procs : p = q.at
  BY <1>1 DEF Placed
<1>3. PICK o \in FilteredOutcomes(memberships, memory[p].memberships, {q.user} \X AllRoles) :
        /\ memberships' = o.stored
        /\ memory' = [memory EXCEPT ![p].memberships = o.held, ![p].users[q.user] = "none"]
  BY <1>2 DEF DetachUser
<1>4. /\ lock[p] = NoOne /\ Goto(r, "deleteRow") /\ Outdate(p) /\ Notify(p)
      /\ UNCHANGED <<users, roles, grants, alive, lock, crashes>>
  BY <1>2 DEF DetachUser
<1>5. PICK s : s = [memory[p] EXCEPT !.memberships = o.held, !.users[q.user] = "none"]
  OBVIOUS
<1>6. /\ o.stored \subseteq memberships /\ o.held \subseteq memory[p].memberships
      /\ memory[p].memberships = memberships => o.held = o.stored
  BY FilteredRules
<1>7. memory[p] \in Snapshots
  BY DEF TypeOK
<1>8. /\ s \in Snapshots /\ s.memberships = o.held /\ s.grants = memory[p].grants
      /\ s.enabledRoles = memory[p].enabledRoles
      /\ \A u \in Users : s.users[u] = IF u = q.user THEN "none" ELSE memory[p].users[u]
  BY <1>1, <1>5, <1>6, <1>7 DEF Snapshots
<1>9. memory' = [memory EXCEPT ![p] = s]
  BY <1>3, <1>5
<1>10. /\ "deleteRow" \in Steps /\ "deleteRow" \notin LockedSteps
       /\ lock' = [lock EXCEPT ![p] = IF "deleteRow" \in LockedSteps THEN r ELSE NoOne]
  BY <1>4 DEF Steps, LockedSteps, InductiveInv, RequestInv
<1>11. GoodRequest(reqs'[r])
  BY <1>1, <1>4, <1>10, GotoFields DEF GoodRequest, RowsOps, StatusOps
<1>12. memberships' \subseteq Users \X AllRoles /\ grants' \subseteq AllRoles \X Permissions
  BY <1>3, <1>4, <1>6 DEF TypeOK
<1>13. ~behind[p] => s.memberships = memberships' /\ s.grants = grants'
  BY <1>3, <1>4, <1>6, <1>8 DEF InductiveInv, MemoryInv
<1>14. {SuperAdmin} \X Permissions \subseteq grants' /\ (Closed(grants) => Closed(grants)')
  BY <1>4 DEF InductiveInv, SuperAdminComplete, Closed
<1> QED
  <2>1. \A u \in Users : \/ s.users[u] = memory[p].users[u]
                         \/ s.users[u] = "none" /\ u = reqs[r].user /\ "deleteRow" = "deleteRow"
    BY <1>8
  <2>2. /\ reqs[r].at = p /\ reqs[r].op # "access" /\ reqs[r].pc \notin {"idle", "overlay", "deleteRow"}
        /\ lock[p] \in {NoOne, r} /\ "deleteRow" # "overlay"
    BY <1>1, <1>2, <1>4
  <2>3. \A x \in AllRoles : \/ x \in s.enabledRoles <=> x \in memory[p].enabledRoles
                            \/ x \notin s.enabledRoles /\ x = reqs[r].role /\ "deleteRow" = "deleteRow"
    BY <1>8
  <2>4. UNCHANGED <<users, roles, alive, crashes>> /\ Goto(r, "deleteRow") /\ Outdate(p) /\ Notify(p)
    BY <1>4
  <2>5. s \in Snapshots /\ "deleteRow" \in Steps
    BY <1>8, <1>10
  <2>6. lock' = [lock EXCEPT ![p] = IF "deleteRow" \in LockedSteps THEN r ELSE NoOne]
    BY <1>10
  <2> QED
    BY <1>9, <1>11, <1>12, <1>13, <1>14, <2>1, <2>2, <2>3, <2>4, <2>5, <2>6, RulesStep

\* A role loses all its permissions, and the protected one is not deleted.
LEMMA RevokeStep ==
  ASSUME TypeOK, InductiveInv, NEW r \in Requests, Revoke(r)
  PROVE  TypeOK' /\ InductiveInv'
<1> DEFINE q == reqs[r]
<1>1. /\ GoodRequest(q) /\ Placed(q) /\ q.pc = "revoke" /\ q.op = "deleteRole"
      /\ q.user = NoUser /\ q.role \in Roles
  BY DEF Revoke, InductiveInv, RequestInv, GoodRequest
<1>2. PICK p \in Procs : p = q.at
  BY <1>1 DEF Placed
<1>3. PICK o \in FilteredOutcomes(grants, memory[p].grants, {q.role} \X Permissions) :
        grants' = o.stored /\ memory' = [memory EXCEPT ![p].grants = o.held]
  BY <1>2 DEF Revoke
<1>4. /\ lock[p] = NoOne /\ lock' = [lock EXCEPT ![p] = r]
      /\ Goto(r, "detachRole") /\ Outdate(p) /\ Notify(p)
      /\ UNCHANGED <<users, roles, memberships, alive, crashes>>
  BY <1>2 DEF Revoke
<1>5. PICK s : s = [memory[p] EXCEPT !.grants = o.held]
  OBVIOUS
<1>6. /\ o.stored \subseteq grants /\ o.held \subseteq memory[p].grants
      /\ o.stored = grants \ ({q.role} \X Permissions)
      /\ memory[p].grants = grants => o.held = o.stored
  BY FilteredRules
<1>7. memory[p] \in Snapshots
  BY DEF TypeOK
<1>8. /\ s \in Snapshots /\ s.memberships = memory[p].memberships /\ s.grants = o.held
      /\ s.enabledRoles = memory[p].enabledRoles /\ s.users = memory[p].users
  BY <1>5, <1>6, <1>7 DEF Snapshots
<1>9. memory' = [memory EXCEPT ![p] = s]
  BY <1>3, <1>5
<1>10. /\ "detachRole" \in Steps /\ "detachRole" \in LockedSteps
       /\ lock' = [lock EXCEPT ![p] = IF "detachRole" \in LockedSteps THEN r ELSE NoOne]
  BY <1>4 DEF Steps, LockedSteps
<1>11. GoodRequest(reqs'[r])
  BY <1>1, <1>4, <1>10, GotoFields DEF GoodRequest, RowsOps, StatusOps
<1>12. memberships' \subseteq Users \X AllRoles /\ grants' \subseteq AllRoles \X Permissions
  BY <1>3, <1>4, <1>6 DEF TypeOK
<1>13. ~behind[p] => s.memberships = memberships' /\ s.grants = grants'
  BY <1>3, <1>4, <1>6, <1>8 DEF InductiveInv, MemoryInv
<1>14. {SuperAdmin} \X Permissions \subseteq grants'
  BY <1>1, <1>3, <1>6, AuthorizationConstants DEF InductiveInv, SuperAdminComplete
<1>15. Closed(grants) => Closed(grants)'
  <2> SUFFICES ASSUME Closed(grants), NEW x \in grants', x[2] \in DOMAIN PageOf
               PROVE  <<x[1], PageOf[x[2]]>> \in grants'
    BY DEF Closed
  <2>1. x \in grants /\ x \notin {q.role} \X Permissions /\ x \in AllRoles \X Permissions
    BY <1>3, <1>6, <1>12
  <2>2. x[1] # q.role
    BY <2>1
  <2> QED
    BY <1>3, <1>6, <2>1, <2>2 DEF Closed
<1> QED
  BY <1>1, <1>2, <1>4, <1>8, <1>9, <1>10, <1>11, <1>12, <1>13, <1>14, <1>15, RulesStep

LEMMA DetachRoleStep ==
  ASSUME TypeOK, InductiveInv, NEW r \in Requests, DetachRole(r)
  PROVE  TypeOK' /\ InductiveInv'
<1> DEFINE q == reqs[r]
<1>1. /\ GoodRequest(q) /\ Placed(q) /\ q.pc = "detachRole" /\ q.op = "deleteRole"
      /\ q.user = NoUser /\ q.role \in Roles
  BY DEF DetachRole, InductiveInv, RequestInv, GoodRequest
<1>2. PICK p \in Procs : p = q.at
  BY <1>1 DEF Placed
<1>3. PICK o \in FilteredOutcomes(memberships, memory[p].memberships, Users \X {q.role}) :
        /\ memberships' = o.stored
        /\ memory' = [memory EXCEPT ![p].memberships = o.held,
                                    ![p].enabledRoles = memory[p].enabledRoles \ {q.role}]
  BY <1>2 DEF DetachRole
<1>4. /\ lock' = [lock EXCEPT ![p] = NoOne]
      /\ Goto(r, "deleteRow") /\ Outdate(p) /\ Notify(p)
      /\ UNCHANGED <<users, roles, grants, alive, crashes>>
  BY <1>2 DEF DetachRole
<1>5. PICK s : s = [memory[p] EXCEPT !.memberships = o.held, !.enabledRoles = memory[p].enabledRoles \ {q.role}]
  OBVIOUS
<1>6. /\ o.stored \subseteq memberships /\ o.held \subseteq memory[p].memberships
      /\ memory[p].memberships = memberships => o.held = o.stored
  BY FilteredRules
<1>7. memory[p] \in Snapshots /\ lock[p] = r
  BY <1>1, <1>2 DEF TypeOK, LockedSteps
<1>8. /\ s \in Snapshots /\ s.memberships = o.held /\ s.grants = memory[p].grants
      /\ s.enabledRoles = memory[p].enabledRoles \ {q.role} /\ s.users = memory[p].users
  BY <1>5, <1>6, <1>7 DEF Snapshots
<1>9. memory' = [memory EXCEPT ![p] = s]
  BY <1>3, <1>5
<1>10. /\ "deleteRow" \in Steps /\ "deleteRow" \notin LockedSteps
       /\ lock' = [lock EXCEPT ![p] = IF "deleteRow" \in LockedSteps THEN r ELSE NoOne]
  BY <1>4 DEF Steps, LockedSteps
<1>11. GoodRequest(reqs'[r])
  BY <1>1, <1>4, <1>10, GotoFields DEF GoodRequest, RowsOps, StatusOps
<1>12. memberships' \subseteq Users \X AllRoles /\ grants' \subseteq AllRoles \X Permissions
  BY <1>3, <1>4, <1>6 DEF TypeOK
<1>13. ~behind[p] => s.memberships = memberships' /\ s.grants = grants'
  BY <1>3, <1>4, <1>6, <1>8 DEF InductiveInv, MemoryInv
<1>14. {SuperAdmin} \X Permissions \subseteq grants' /\ (Closed(grants) => Closed(grants)')
  BY <1>4 DEF InductiveInv, SuperAdminComplete, Closed
<1> QED
  BY <1>1, <1>2, <1>4, <1>7, <1>8, <1>9, <1>10, <1>11, <1>12, <1>13, <1>14, RulesStep

-----------------------------------------------------------------------------
(* Rows deleted, requests dropped.                                         *)

\* A reload in progress has missed what changes now; its other fields stay.
LEMMA MissedFields ==
  ASSUME RequestInv, NEW S \in SUBSET Procs,
         reload' = [p \in Procs |-> IF p \in S
                        THEN [reload[p] EXCEPT !.missed = reload[p].missed \/ reload[p].pc # "idle"]
                        ELSE reload[p]]
  PROVE  /\ reload' \in [Procs -> Rebuild]
         /\ \A p \in Procs :
                /\ reload'[p].pc = reload[p].pc
                /\ reload'[p].memberships = reload[p].memberships
                /\ reload'[p].grants = reload[p].grants /\ reload'[p].users = reload[p].users
                /\ p \in S /\ reload[p].pc # "idle" => reload'[p].missed
                /\ p \notin S => reload'[p].missed = reload[p].missed
<1>1. ASSUME NEW p \in Procs, p \in S
      PROVE  /\ reload'[p] \in Rebuild
             /\ reload'[p].pc = reload[p].pc
             /\ reload'[p].memberships = reload[p].memberships
             /\ reload'[p].grants = reload[p].grants /\ reload'[p].users = reload[p].users
             /\ reload[p].pc # "idle" => reload'[p].missed
  <2> DEFINE b == reload[p].missed \/ reload[p].pc # "idle"
  <2>1. reload[p] \in Rebuild
    BY DEF RequestInv
  <2>2. b \in BOOLEAN
    BY <2>1 DEF Rebuild
  <2>3. reload'[p] = [reload[p] EXCEPT !.missed = b]
    BY <1>1
  <2>4. reload[p].pc # "idle" => b
    OBVIOUS
  <2> HIDE DEF b
  <2> QED
    BY <2>1, <2>2, <2>3, <2>4 DEF Rebuild
<1>2. ASSUME NEW p \in Procs, p \notin S
      PROVE  reload'[p] = reload[p] /\ reload'[p] \in Rebuild
  BY <1>2 DEF RequestInv
<1>3. reload' \in [Procs -> Rebuild]
  BY <1>1, <1>2
<1> QED
  BY <1>1, <1>2, <1>3

\* A row goes after its rules: the process has kept it out of its snapshot, or knows it is behind.
LEMMA RowDeletedStep ==
  ASSUME TypeOK, InductiveInv, NEW r \in Requests, NEW p \in Procs, NEW shown \in BOOLEAN,
         reqs[r].at = p, reqs[r].pc = "deleteRow", RowDeleted(r, shown),
         users' \in [Users -> RowStates], roles' \in [AllRoles -> RowStates],
         roles'[SuperAdmin] = roles[SuperAdmin],
         \A u \in Users : IF u = reqs[r].user THEN ~Exists(users'[u]) ELSE users'[u] = users[u],
         \A x \in AllRoles : IF x = reqs[r].role THEN ~Exists(roles'[x]) ELSE roles'[x] = roles[x],
         ~shown => \A u \in Users : u = reqs[r].user => memory[p].users[u] = "none",
         ~shown => \A x \in AllRoles : x = reqs[r].role => x \notin memory[p].enabledRoles
  PROVE  TypeOK' /\ InductiveInv'
<1>1. /\ behind' = [q \in Procs |-> behind[q] \/ q # p \/ shown]
      /\ reload' = [q \in Procs |-> [reload[q] EXCEPT !.missed = reload[q].missed \/ reload[q].pc # "idle"]]
      /\ Notify(p) /\ Goto(r, "ok")
      /\ UNCHANGED <<memberships, grants, memory, alive, lock, crashes>>
  BY DEF RowDeleted
<1>2. /\ behind' \in [Procs -> BOOLEAN]
      /\ \A q \in Procs : ~behind'[q] => q = p /\ ~shown /\ ~behind[q]
  <2>1. ASSUME NEW q \in Procs
        PROVE  behind'[q] \in BOOLEAN /\ (~behind'[q] => q = p /\ ~shown /\ ~behind[q])
    <3> DEFINE b == behind[q] \/ q # p \/ shown
    <3>1. b \in BOOLEAN /\ (~b => q = p /\ ~shown /\ ~behind[q])
      BY DEF TypeOK
    <3>2. behind'[q] = b
      BY <1>1
    <3> HIDE DEF b
    <3> QED
      BY <3>1, <3>2
  <2> QED
    BY <1>1, <2>1
<1>3. /\ reload' \in [Procs -> Rebuild]
      /\ \A q \in Procs : reload'[q].pc = reload[q].pc /\ (reload[q].pc # "idle" => reload'[q].missed)
  <2>1. reload' = [q \in Procs |-> IF q \in Procs
                        THEN [reload[q] EXCEPT !.missed = reload[q].missed \/ reload[q].pc # "idle"]
                        ELSE reload[q]]
    BY <1>1
  <2> QED
    BY <2>1, MissedFields DEF InductiveInv
<1>4. /\ reqs' \in [Requests -> Fields] /\ \A o \in Requests \ {r} : reqs'[o] = reqs[o]
      /\ reqs'[r].pc = "ok" /\ reqs'[r].at = p
      /\ GoodRequest(reqs'[r]) /\ Placed(reqs'[r])
  BY <1>1, EndedRequest DEF InductiveInv
<1>5. TypeOK'
  <2>1. inbox' \in [Procs -> BOOLEAN]
    BY <1>1, NotifyType
  <2>2. \A o \in Requests, q \in Procs : lock'[q] = o <=> reqs'[o].at = q /\ reqs'[o].pc \in LockedSteps
    BY <1>1, <1>4 DEF TypeOK, LockedSteps
  <2>3. \A q \in Procs : reload'[q].pc # "idle" <=> lock'[q] = "reload"
    BY <1>1, <1>3 DEF TypeOK
  <2> QED
    BY <1>1, <1>2, <1>4, <2>1, <2>2, <2>3 DEF TypeOK
<1>6. RequestInv'
  BY <1>1, <1>3, <1>4 DEF InductiveInv, RequestInv
<1>7. /\ \A u \in Users : UserPending(p, u) /\ u # reqs[r].user => UserPending(p, u)'
      /\ \A x \in AllRoles : RolePending(p, x) /\ x # reqs[r].role => RolePending(p, x)'
  BY <1>4 DEF UserPending, RolePending, Pending
<1>8. MemoryInv'
  <2> SUFFICES ASSUME ~behind[p], ~shown
               PROVE  /\ memory[p].memberships = memberships /\ memory[p].grants = grants
                      /\ \A u \in Users : \/ memory[p].users[u] = RowStatus(users'[u])
                                          \/ Exists(users'[u]) /\ UserPending(p, u)'
                      /\ \A x \in AllRoles : \/ x \in memory[p].enabledRoles <=> roles'[x] = "enabled"
                                             \/ Exists(roles'[x]) /\ RolePending(p, x)'
    BY <1>1, <1>2 DEF MemoryInv, UsersUpToPending
  <2>1. /\ memory[p].memberships = memberships /\ memory[p].grants = grants
        /\ \A u \in Users : \/ memory[p].users[u] = RowStatus(users[u])
                            \/ Exists(users[u]) /\ UserPending(p, u)
        /\ \A x \in AllRoles : \/ x \in memory[p].enabledRoles <=> roles[x] = "enabled"
                               \/ Exists(roles[x]) /\ RolePending(p, x)
    BY DEF InductiveInv, MemoryInv, UsersUpToPending
  <2>2. ASSUME NEW u \in Users
        PROVE  \/ memory[p].users[u] = RowStatus(users'[u])
               \/ Exists(users'[u]) /\ UserPending(p, u)'
    <3>1. CASE u = reqs[r].user
      BY <3>1 DEF RowStatus, Exists
    <3>2. CASE u # reqs[r].user
      BY <1>7, <2>1, <3>2
    <3> QED
      BY <3>1, <3>2
  <2>3. ASSUME NEW x \in AllRoles
        PROVE  \/ x \in memory[p].enabledRoles <=> roles'[x] = "enabled"
               \/ Exists(roles'[x]) /\ RolePending(p, x)'
    <3>1. CASE x = reqs[r].role
      BY <3>1 DEF Exists
    <3>2. CASE x # reqs[r].role
      BY <1>7, <2>1, <3>2
    <3> QED
      BY <3>1, <3>2
  <2> QED
    BY <2>1, <2>2, <2>3
<1>9. ReloadInv'
  BY <1>3 DEF ReloadInv
<1>10. ReplaceInv'
  <2>1. \A o \in Requests : reqs'[o].pc \in {"add", "remove"} => o # r /\ reqs[o].at \in Procs
    BY <1>4 DEF InductiveInv, RequestInv, Placed
  <2> QED
    BY <1>1, <1>2, <1>4, <2>1 DEF InductiveInv, ReplaceInv, Replaces
<1>11. SuperAdminComplete' /\ StoredActionsHavePages'
  <2>1. StoredActionsHavePages'
    BY <1>1, <1>2 DEF InductiveInv, StoredActionsHavePages, MemoryInv, Closed
  <2> QED
    BY <1>1, <2>1 DEF InductiveInv, SuperAdminComplete
<1> QED
  BY <1>5, <1>6, <1>8, <1>9, <1>10, <1>11 DEF InductiveInv

LEMMA DeleteUserRowStep ==
  ASSUME TypeOK, InductiveInv, NEW r \in Requests, DeleteUserRow(r)
  PROVE  TypeOK' /\ InductiveInv'
<1>1. /\ GoodRequest(reqs[r]) /\ Placed(reqs[r]) /\ reqs[r].pc = "deleteRow" /\ reqs[r].op = "deleteUser"
      /\ reqs[r].user \in Users /\ reqs[r].role = NoRole /\ NoRole \notin AllRoles
  BY AuthorizationConstants DEF DeleteUserRow, InductiveInv, RequestInv, GoodRequest
<1>2. PICK p \in Procs : p = reqs[r].at
  BY <1>1 DEF Placed
<1>3. CASE ~Exists(users[reqs[r].user])
  BY <1>1, <1>3, NoRowStep DEF DeleteUserRow
<1>4. CASE Exists(users[reqs[r].user])
  <2> DEFINE shown == memory[p].users[reqs[r].user] # "none"
  <2>1. /\ users' = [users EXCEPT ![reqs[r].user] = "gone"] /\ roles' = roles
        /\ RowDeleted(r, shown)
    BY <1>2, <1>4 DEF DeleteUserRow
  <2>2. shown \in BOOLEAN /\ (~shown => \A u \in Users : u = reqs[r].user => memory[p].users[u] = "none")
    OBVIOUS
  <2>3. ~shown => \A x \in AllRoles : x = reqs[r].role => x \notin memory[p].enabledRoles
    BY <1>1
  <2> HIDE DEF shown
  <2>4. /\ users' \in [Users -> RowStates]
        /\ \A u \in Users : IF u = reqs[r].user THEN ~Exists(users'[u]) ELSE users'[u] = users[u]
    BY <1>1, <2>1 DEF TypeOK, RowStates, Exists
  <2>5. /\ roles' \in [AllRoles -> RowStates] /\ roles'[SuperAdmin] = roles[SuperAdmin]
        /\ \A x \in AllRoles : IF x = reqs[r].role THEN ~Exists(roles'[x]) ELSE roles'[x] = roles[x]
    BY <1>1, <2>1 DEF TypeOK
  <2> QED
    BY <1>1, <1>2, <2>1, <2>2, <2>3, <2>4, <2>5, RowDeletedStep
<1> QED
  BY <1>3, <1>4

LEMMA DeleteRoleRowStep ==
  ASSUME TypeOK, InductiveInv, NEW r \in Requests, DeleteRoleRow(r)
  PROVE  TypeOK' /\ InductiveInv'
<1>1. /\ GoodRequest(reqs[r]) /\ Placed(reqs[r]) /\ reqs[r].pc = "deleteRow" /\ reqs[r].op = "deleteRole"
      /\ reqs[r].user = NoUser /\ reqs[r].role \in Roles /\ reqs[r].role \in AllRoles
      /\ NoUser \notin Users /\ reqs[r].role # SuperAdmin
  BY AuthorizationConstants DEF DeleteRoleRow, InductiveInv, RequestInv, GoodRequest, AllRoles
<1>2. PICK p \in Procs : p = reqs[r].at
  BY <1>1 DEF Placed
<1>3. CASE ~Exists(roles[reqs[r].role])
  BY <1>1, <1>3, NoRowStep DEF DeleteRoleRow
<1>4. CASE Exists(roles[reqs[r].role])
  <2> DEFINE shown == reqs[r].role \in memory[p].enabledRoles
  <2>1. /\ roles' = [roles EXCEPT ![reqs[r].role] = "gone"] /\ users' = users
        /\ RowDeleted(r, shown)
    BY <1>2, <1>4 DEF DeleteRoleRow
  <2>2. shown \in BOOLEAN /\ (~shown => \A x \in AllRoles : x = reqs[r].role => x \notin memory[p].enabledRoles)
    OBVIOUS
  <2>3. ~shown => \A u \in Users : u = reqs[r].user => memory[p].users[u] = "none"
    BY <1>1
  <2> HIDE DEF shown
  <2>4. /\ users' \in [Users -> RowStates]
        /\ \A u \in Users : IF u = reqs[r].user THEN ~Exists(users'[u]) ELSE users'[u] = users[u]
    BY <1>1, <2>1 DEF TypeOK
  <2>5. /\ roles' \in [AllRoles -> RowStates] /\ roles'[SuperAdmin] = roles[SuperAdmin]
        /\ \A x \in AllRoles : IF x = reqs[r].role THEN ~Exists(roles'[x]) ELSE roles'[x] = roles[x]
    BY <1>1, <2>1 DEF TypeOK, RowStates, Exists, AllRoles
  <2> QED
    BY <1>1, <1>2, <2>1, <2>2, <2>3, <2>4, <2>5, RowDeletedStep
<1> QED
  BY <1>3, <1>4

\* A dropped request releases its lock.
LEMMA UnlockedType ==
  ASSUME TypeOK, RequestInv, NEW r \in Requests, lock' = Unlocked(r),
         reqs' \in [Requests -> Fields], reqs'[r].pc \notin LockedSteps,
         \A o \in Requests \ {r} : reqs'[o] = reqs[o],
         \A p \in Procs : reload'[p].pc = reload[p].pc
  PROVE  /\ lock' \in [Procs -> Requests \cup {NoOne, "reload"}]
         /\ \A p \in Procs : reload'[p].pc # "idle" <=> lock'[p] = "reload"
         /\ \A o \in Requests, p \in Procs : lock'[p] = o <=> reqs'[o].at = p /\ reqs'[o].pc \in LockedSteps
<1>1. ASSUME NEW p \in Procs
      PROVE  /\ lock'[p] \in Requests \cup {NoOne, "reload"}
             /\ reload'[p].pc # "idle" <=> lock'[p] = "reload"
             /\ lock'[p] # r
             /\ \A o \in Requests \ {r} : lock'[p] = o <=> lock[p] = o
  <2>1. lock'[p] = IF lock[p] = r THEN NoOne ELSE lock[p]
    BY DEF Unlocked
  <2>2. lock[p] \in Requests \cup {NoOne, "reload"} /\ (reload[p].pc # "idle" <=> lock[p] = "reload")
    BY DEF RequestInv, TypeOK
  <2> QED
    BY <2>1, <2>2, AuthorizationConstants
<1>2. lock' \in [Procs -> Requests \cup {NoOne, "reload"}]
  BY <1>1 DEF Unlocked
<1>3. ASSUME NEW o \in Requests, NEW p \in Procs
      PROVE  lock'[p] = o <=> reqs'[o].at = p /\ reqs'[o].pc \in LockedSteps
  <2>1. CASE o = r
    BY <1>1, <2>1
  <2>2. CASE o # r
    <3>1. lock'[p] = o <=> lock[p] = o
      BY <1>1, <2>2
    <3>2. reqs'[o] = reqs[o]
      BY <2>2
    <3> QED
      BY <3>1, <3>2 DEF TypeOK
  <2> QED
    BY <2>1, <2>2
<1> QED
  BY <1>1, <1>2, <1>3

\* A request dropped before its process shows a row it has written: the process is behind from now on.
LEMMA CutStep ==
  ASSUME TypeOK, InductiveInv, NEW r \in Requests, Cut(r)
  PROVE  TypeOK' /\ InductiveInv'
<1>1. /\ GoodRequest(reqs[r]) /\ Placed(reqs[r]) /\ reqs[r].pc \notin Terminal
      /\ Goto(r, "cut") /\ lock' = Unlocked(r)
      /\ UNCHANGED <<database, memory, alive, inbox, crashes>>
  BY DEF Cut, InductiveInv, RequestInv
<1>2. PICK at \in Procs : at = reqs[r].at
  BY <1>1 DEF Placed, Terminal
<1>3. /\ reqs' \in [Requests -> Fields] /\ \A o \in Requests \ {r} : reqs'[o] = reqs[o]
      /\ reqs'[r].pc = "cut" /\ reqs'[r].at = at
      /\ GoodRequest(reqs'[r]) /\ Placed(reqs'[r])
  <2>1. reqs[r].pc # "idle"
    BY <1>1 DEF Terminal
  <2> QED
    BY <1>1, <1>2, <2>1, EndedRequest DEF InductiveInv
<1>4. CASE reqs[r].pc \notin {"overlay", "deleteRow"}
  <2>1. UNCHANGED <<behind, reload>>
    BY <1>4 DEF Cut
  <2>2. /\ lock' \in [Procs -> Requests \cup {NoOne, "reload"}]
        /\ \A p \in Procs : reload[p].pc # "idle" <=> lock'[p] = "reload"
        /\ \A o \in Requests, p \in Procs : lock'[p] = o <=> reqs'[o].at = p /\ reqs'[o].pc \in LockedSteps
    <3>1. reqs'[r].pc \notin LockedSteps
      BY <1>3 DEF LockedSteps
    <3> QED
      BY <1>1, <1>3, <2>1, <3>1, UnlockedType DEF InductiveInv
  <2> QED
    BY <1>1, <1>3, <1>4, <2>1, <2>2, RequestStep
<1>5. CASE reqs[r].pc \in {"overlay", "deleteRow"}
  <2>1. /\ behind' = [behind EXCEPT ![at] = TRUE]
        /\ reload' = [reload EXCEPT ![at].missed = reload[at].missed \/ reload[at].pc # "idle"]
    BY <1>2, <1>5 DEF Cut
  <2>2. behind' \in [Procs -> BOOLEAN] /\ behind'[at] /\ \A p \in Procs \ {at} : behind'[p] = behind[p]
    BY <2>1 DEF TypeOK
  <2>3. /\ reload' \in [Procs -> Rebuild]
        /\ \A p \in Procs : reload'[p].pc = reload[p].pc
        /\ reload[at].pc # "idle" => reload'[at].missed
        /\ \A p \in Procs \ {at} : reload'[p] = reload[p]
    <3>1. reload' = [p \in Procs |-> IF p \in {at}
                        THEN [reload[p] EXCEPT !.missed = reload[p].missed \/ reload[p].pc # "idle"]
                        ELSE reload[p]]
      BY <2>1 DEF InductiveInv, RequestInv
    <3>2. \A p \in Procs \ {at} : reload'[p] = reload[p]
      BY <3>1
    <3> QED
      BY <3>1, <3>2, MissedFields DEF InductiveInv
  <2>4. /\ lock' \in [Procs -> Requests \cup {NoOne, "reload"}]
        /\ \A p \in Procs : reload'[p].pc # "idle" <=> lock'[p] = "reload"
        /\ \A o \in Requests, p \in Procs : lock'[p] = o <=> reqs'[o].at = p /\ reqs'[o].pc \in LockedSteps
    <3>1. reqs'[r].pc \notin LockedSteps
      BY <1>3 DEF LockedSteps
    <3> QED
      BY <1>1, <1>3, <2>3, <3>1, UnlockedType DEF InductiveInv
  <2>5. TypeOK'
    BY <1>1, <1>3, <2>2, <2>4 DEF TypeOK, database
  <2>6. RequestInv'
    BY <1>3, <2>3, <2>4 DEF InductiveInv, RequestInv
  <2>7. ASSUME NEW p \in Procs \ {at}
        PROVE  /\ \A u \in Users : UserPending(p, u) => UserPending(p, u)'
               /\ \A x \in AllRoles : RolePending(p, x) => RolePending(p, x)'
    BY <1>2, <1>3 DEF UserPending, RolePending, Pending
  <2>8. MemoryInv'
    <3> SUFFICES ASSUME NEW p \in Procs \ {at}, ~behind[p]
                 PROVE  /\ memory[p].memberships = memberships /\ memory[p].grants = grants
                        /\ \A u \in Users : \/ memory[p].users[u] = RowStatus(users[u])
                                            \/ Exists(users[u]) /\ UserPending(p, u)'
                        /\ \A x \in AllRoles : \/ x \in memory[p].enabledRoles <=> roles[x] = "enabled"
                                               \/ Exists(roles[x]) /\ RolePending(p, x)'
      BY <1>1, <2>2 DEF MemoryInv, UsersUpToPending, database
    <3>1. /\ memory[p].memberships = memberships /\ memory[p].grants = grants
          /\ \A u \in Users : \/ memory[p].users[u] = RowStatus(users[u])
                              \/ Exists(users[u]) /\ UserPending(p, u)
          /\ \A x \in AllRoles : \/ x \in memory[p].enabledRoles <=> roles[x] = "enabled"
                                 \/ Exists(roles[x]) /\ RolePending(p, x)
      BY DEF InductiveInv, MemoryInv, UsersUpToPending
    <3> QED
      BY <2>7, <3>1
  <2>9. ReloadInv'
    <3> SUFFICES ASSUME NEW p \in Procs \ {at}, reload[p].pc # "idle", ~reload[p].missed
                 PROVE  /\ reload[p].memberships = memberships /\ reload[p].grants = grants
                        /\ reload[p].pc = "roles" =>
                               \A u \in Users : \/ reload[p].users[u] = RowStatus(users[u])
                                                \/ Exists(users[u]) /\ UserPending(p, u)'
      BY <1>1, <2>3 DEF ReloadInv, UsersUpToPending, database
    <3>1. /\ reload[p].memberships = memberships /\ reload[p].grants = grants
          /\ reload[p].pc = "roles" =>
                 \A u \in Users : \/ reload[p].users[u] = RowStatus(users[u])
                                  \/ Exists(users[u]) /\ UserPending(p, u)
      BY DEF InductiveInv, ReloadInv, UsersUpToPending
    <3> QED
      BY <2>7, <3>1
  <2>10. ReplaceInv'
    <3>1. \A o \in Requests : reqs'[o].pc \in {"add", "remove"} => o # r /\ reqs[o].at \in Procs
      BY <1>3 DEF InductiveInv, RequestInv, Placed
    <3> QED
      BY <1>1, <1>3, <2>2, <3>1 DEF InductiveInv, ReplaceInv, Replaces, database
  <2>11. SuperAdminComplete' /\ StoredActionsHavePages'
    BY <1>1, <2>2 DEF InductiveInv, SuperAdminComplete, StoredActionsHavePages, Closed, database
  <2> QED
    BY <2>5, <2>6, <2>8, <2>9, <2>10, <2>11 DEF InductiveInv
<1> QED
  BY <1>4, <1>5

\* A save commits and its request ends there: no process shows what is stored until it reloads.
LEMMA CutAfterSaveStep ==
  ASSUME TypeOK, InductiveInv, NEW r \in Requests, CutAfterSave(r)
  PROVE  TypeOK' /\ InductiveInv'
<1> DEFINE q == reqs[r]
<1>1. /\ GoodRequest(q) /\ Placed(q) /\ Goto(r, "cut") /\ lock' = Unlocked(r)
      /\ behind' = [p \in Procs |-> TRUE]
      /\ reload' = [p \in Procs |-> [reload[p] EXCEPT !.missed = reload[p].missed \/ reload[p].pc # "idle"]]
      /\ UNCHANGED <<users, roles, memory, alive, inbox, crashes>>
      /\ q.pc \in {"add", "remove", "detachUser", "revoke", "detachRole"}
  BY DEF CutAfterSave, InductiveInv, RequestInv
<1>2. q.at \in Procs
  BY <1>1 DEF Placed
<1>3. /\ reqs' \in [Requests -> Fields] /\ \A o \in Requests \ {r} : reqs'[o] = reqs[o]
      /\ reqs'[r].pc = "cut" /\ reqs'[r].pc \notin LockedSteps
      /\ GoodRequest(reqs'[r]) /\ Placed(reqs'[r])
  <2>1. reqs[r].pc # "idle" /\ "cut" \notin LockedSteps
    BY <1>1 DEF LockedSteps
  <2> QED
    BY <1>1, <1>2, <2>1, EndedRequest DEF InductiveInv
<1>4. /\ reload' \in [Procs -> Rebuild]
      /\ \A p \in Procs : reload'[p].pc = reload[p].pc /\ (reload[p].pc # "idle" => reload'[p].missed)
  <2>1. reload' = [p \in Procs |-> IF p \in Procs
                        THEN [reload[p] EXCEPT !.missed = reload[p].missed \/ reload[p].pc # "idle"]
                        ELSE reload[p]]
    BY <1>1
  <2> QED
    BY <2>1, MissedFields DEF InductiveInv
<1>5. /\ lock' \in [Procs -> Requests \cup {NoOne, "reload"}]
      /\ \A p \in Procs : reload'[p].pc # "idle" <=> lock'[p] = "reload"
      /\ \A o \in Requests, p \in Procs : lock'[p] = o <=> reqs'[o].at = p /\ reqs'[o].pc \in LockedSteps
  BY <1>1, <1>3, <1>4, UnlockedType DEF InductiveInv
<1>6. /\ memberships' \subseteq Users \X AllRoles /\ grants' \subseteq AllRoles \X Permissions
      /\ {SuperAdmin} \X Permissions \subseteq grants'
  <2>0. /\ memberships \subseteq Users \X AllRoles /\ grants \subseteq AllRoles \X Permissions
        /\ {SuperAdmin} \X Permissions \subseteq grants
    BY DEF TypeOK, InductiveInv, SuperAdminComplete
  <2>1. CASE q.pc \in {"add", "remove"} /\ q.op = "access"
    <3>1. /\ q.add \subseteq {q.role} \X Permissions /\ q.rem \subseteq {q.role} \X Permissions
          /\ q.role \in AllRoles /\ q.role # SuperAdmin
      BY <1>1, <2>1, AuthorizationConstants DEF GoodRequest, AllRoles
    <3>2. grants' \in {grants, grants \cup q.add, grants \ q.rem} /\ memberships' = memberships
      BY <2>1 DEF CutAfterSave, Stored, AddOutcomes, RemoveOutcomes
    <3> QED
      BY <2>0, <3>1, <3>2
  <2>2. CASE q.pc \in {"add", "remove"} /\ q.op # "access"
    <3>1. q.op \in RowsOps
      BY <1>1, <2>2 DEF GoodRequest
    <3>2. /\ q.user \in Users /\ q.add \subseteq {q.user} \X AllRoles /\ q.rem \subseteq {q.user} \X AllRoles
      BY <1>1, <3>1 DEF GoodRequest
    <3>3. memberships' \in {memberships, memberships \cup q.add, memberships \ q.rem} /\ grants' = grants
      BY <2>2 DEF CutAfterSave, Stored, AddOutcomes, RemoveOutcomes
    <3> QED
      BY <2>0, <3>2, <3>3
  <2>3. CASE q.pc = "detachUser" \/ q.pc = "detachRole"
    <3>1. memberships' \subseteq memberships /\ grants' = grants
      BY <2>3 DEF CutAfterSave
    <3> QED
      BY <2>0, <3>1
  <2>4. CASE q.pc = "revoke"
    <3>1. memberships' = memberships /\ grants' = {x \in grants : x[1] # q.role}
      BY <2>4 DEF CutAfterSave
    <3>2. q.role # SuperAdmin
      BY <1>1, <2>4, AuthorizationConstants DEF GoodRequest
    <3> QED
      BY <2>0, <3>1, <3>2
  <2> QED
    BY <1>1, <2>1, <2>2, <2>3, <2>4
<1>7. TypeOK'
  <2>1. behind' \in [Procs -> BOOLEAN]
    BY <1>1
  <2> QED
    BY <1>1, <1>3, <1>5, <1>6, <2>1 DEF TypeOK
<1>8. RequestInv'
  BY <1>3, <1>4, <1>5 DEF InductiveInv, RequestInv
<1>9. MemoryInv' /\ ReloadInv'
  BY <1>1, <1>4 DEF MemoryInv, ReloadInv
<1>10. ReplaceInv'
  <2>1. \A o \in Requests : reqs'[o].pc \in {"add", "remove"} => reqs'[o].at \in Procs
    BY <1>8 DEF RequestInv, Placed
  <2> QED
    BY <1>1, <2>1 DEF ReplaceInv
<1>11. SuperAdminComplete' /\ StoredActionsHavePages'
  BY <1>1, <1>2, <1>6 DEF InductiveInv, SuperAdminComplete, StoredActionsHavePages
<1> QED
  BY <1>7, <1>8, <1>9, <1>10, <1>11 DEF InductiveInv

-----------------------------------------------------------------------------
(* Reloads and crashes.                                                    *)

LEMMA NoReloadFields ==
  /\ NoReload \in Rebuild /\ NoReload.pc = "idle"
  /\ NoSnapshot \in Snapshots
BY DEF NoReload, NoSnapshot, Rebuild, Snapshots

\* Where requests and rows do not change, what is pending does not either.
LEMMA SamePending ==
  ASSUME UNCHANGED <<users, reqs>>
  PROVE  /\ \A p, u : UserPending(p, u)' <=> UserPending(p, u)
         /\ \A p, x : RolePending(p, x)' <=> RolePending(p, x)
         /\ \A p, facts : (\A u \in Users : \/ facts[u] = RowStatus(users'[u])
                                            \/ Exists(users'[u]) /\ UserPending(p, u)')
                              <=> UsersUpToPending(p, facts)
<1>1. /\ \A p, u : UserPending(p, u)' <=> UserPending(p, u)
      /\ \A p, x : RolePending(p, x)' <=> RolePending(p, x)
  BY DEF UserPending, RolePending, Pending
<1> QED
  BY <1>1 DEF UsersUpToPending

LEMMA StartReloadStep ==
  ASSUME TypeOK, InductiveInv, NEW p \in Procs, StartReload(p)
  PROVE  TypeOK' /\ InductiveInv'
<1> DEFINE k == [NoReload EXCEPT !.pc = "users", !.memberships = memberships, !.grants = grants]
<1>1. /\ reload[p].pc = "idle" /\ lock[p] = NoOne /\ lock' = [lock EXCEPT ![p] = "reload"]
      /\ reload' = [reload EXCEPT ![p] = k] /\ inbox' = [inbox EXCEPT ![p] = FALSE]
      /\ UNCHANGED <<database, memory, alive, reqs, crashes, behind>>
  BY DEF StartReload
<1>2. k \in Rebuild /\ k.pc = "users" /\ k.memberships = memberships /\ k.grants = grants
  BY DEF TypeOK, NoReload, Rebuild
<1> HIDE DEF k
<1>3. /\ reload' \in [Procs -> Rebuild] /\ reload'[p] = k
      /\ \A q \in Procs \ {p} : reload'[q] = reload[q]
  BY <1>1, <1>2 DEF InductiveInv, RequestInv
<1>4. /\ lock' \in [Procs -> Requests \cup {NoOne, "reload"}] /\ lock'[p] = "reload"
      /\ \A q \in Procs \ {p} : lock'[q] = lock[q]
  BY <1>1 DEF InductiveInv, RequestInv
<1>5. TypeOK'
  <2>1. inbox' \in [Procs -> BOOLEAN]
    BY <1>1 DEF TypeOK
  <2>2. \A q \in Procs : reload'[q].pc # "idle" <=> lock'[q] = "reload"
    BY <1>2, <1>3, <1>4 DEF TypeOK
  <2>3. \A o \in Requests, q \in Procs : lock'[q] = o <=> reqs[o].at = q /\ reqs[o].pc \in LockedSteps
    BY <1>1, <1>4, AuthorizationConstants DEF TypeOK
  <2> QED
    BY <1>1, <2>1, <2>2, <2>3 DEF TypeOK, database
<1>6. RequestInv'
  BY <1>1, <1>3, <1>4 DEF InductiveInv, RequestInv
<1>7. MemoryInv'
  <2> SUFFICES ASSUME NEW q \in Procs, ~behind[q]
               PROVE  /\ memory[q].memberships = memberships /\ memory[q].grants = grants
                      /\ \A u \in Users : \/ memory[q].users[u] = RowStatus(users'[u])
                                          \/ Exists(users'[u]) /\ UserPending(q, u)'
                      /\ \A x \in AllRoles : \/ x \in memory[q].enabledRoles <=> roles[x] = "enabled"
                                             \/ Exists(roles[x]) /\ RolePending(q, x)'
    BY <1>1 DEF MemoryInv, UsersUpToPending, database
  <2> QED
    BY <1>1, SamePending DEF InductiveInv, MemoryInv, database
<1>8. ReloadInv'
  <2> SUFFICES ASSUME NEW q \in Procs, reload'[q].pc # "idle", ~reload'[q].missed
               PROVE  /\ reload'[q].memberships = memberships /\ reload'[q].grants = grants
                      /\ reload'[q].pc = "roles" =>
                             \A u \in Users : \/ reload'[q].users[u] = RowStatus(users'[u])
                                              \/ Exists(users'[u]) /\ UserPending(q, u)'
    BY <1>1 DEF ReloadInv, UsersUpToPending, database
  <2>1. CASE q = p
    BY <1>2, <1>3, <2>1
  <2>2. CASE q # p
    BY <1>1, <1>3, <2>2, SamePending DEF InductiveInv, ReloadInv, database
  <2> QED
    BY <2>1, <2>2
<1>9. ReplaceInv' /\ SuperAdminComplete' /\ StoredActionsHavePages'
  BY <1>1 DEF InductiveInv, ReplaceInv, Replaces, SuperAdminComplete, StoredActionsHavePages, Closed, database
<1> QED
  BY <1>5, <1>6, <1>7, <1>8, <1>9 DEF InductiveInv

LEMMA ReadUsersStep ==
  ASSUME TypeOK, InductiveInv, NEW p \in Procs, ReadUsers(p)
  PROVE  TypeOK' /\ InductiveInv'
<1> DEFINE k == [reload[p] EXCEPT !.pc = "roles", !.users = UserFacts]
<1>1. /\ reload[p].pc = "users" /\ reload' = [reload EXCEPT ![p] = k]
      /\ UNCHANGED <<database, memory, alive, lock, inbox, reqs, crashes, behind>>
  BY DEF ReadUsers
<1>2. /\ k \in Rebuild /\ k.pc = "roles" /\ k.memberships = reload[p].memberships
      /\ k.grants = reload[p].grants /\ k.missed = reload[p].missed
      /\ \A u \in Users : k.users[u] = RowStatus(users[u])
  <2>1. reload[p] \in Rebuild
    BY DEF InductiveInv, RequestInv
  <2>2. UserFacts \in [Users -> {"none", "enabled", "disabled"}]
    BY DEF UserFacts, RowStatus
  <2> QED
    BY <2>1, <2>2 DEF Rebuild, UserFacts
<1> HIDE DEF k
<1>3. /\ reload' \in [Procs -> Rebuild] /\ reload'[p] = k
      /\ \A q \in Procs \ {p} : reload'[q] = reload[q]
  BY <1>1, <1>2 DEF InductiveInv, RequestInv
<1>4. TypeOK'
  <2>1. \A q \in Procs : reload'[q].pc # "idle" <=> lock'[q] = "reload"
    BY <1>1, <1>2, <1>3 DEF TypeOK
  <2> QED
    BY <1>1, <2>1 DEF TypeOK, database
<1>5. RequestInv'
  BY <1>1, <1>3 DEF InductiveInv, RequestInv
<1>6. MemoryInv'
  <2> SUFFICES ASSUME NEW q \in Procs, ~behind[q]
               PROVE  /\ memory[q].memberships = memberships /\ memory[q].grants = grants
                      /\ \A u \in Users : \/ memory[q].users[u] = RowStatus(users'[u])
                                          \/ Exists(users'[u]) /\ UserPending(q, u)'
                      /\ \A x \in AllRoles : \/ x \in memory[q].enabledRoles <=> roles[x] = "enabled"
                                             \/ Exists(roles[x]) /\ RolePending(q, x)'
    BY <1>1 DEF MemoryInv, UsersUpToPending, database
  <2> QED
    BY <1>1, SamePending DEF InductiveInv, MemoryInv, database
<1>7. ReloadInv'
  <2> SUFFICES ASSUME NEW q \in Procs, reload'[q].pc # "idle", ~reload'[q].missed
               PROVE  /\ reload'[q].memberships = memberships /\ reload'[q].grants = grants
                      /\ reload'[q].pc = "roles" =>
                             \A u \in Users : \/ reload'[q].users[u] = RowStatus(users'[u])
                                              \/ Exists(users'[u]) /\ UserPending(q, u)'
    BY <1>1 DEF ReloadInv, UsersUpToPending, database
  <2>1. CASE q = p
    BY <1>1, <1>2, <1>3, <2>1 DEF InductiveInv, ReloadInv, database
  <2>2. CASE q # p
    BY <1>1, <1>3, <2>2, SamePending DEF InductiveInv, ReloadInv, database
  <2> QED
    BY <2>1, <2>2
<1>8. ReplaceInv' /\ SuperAdminComplete' /\ StoredActionsHavePages'
  BY <1>1 DEF InductiveInv, ReplaceInv, Replaces, SuperAdminComplete, StoredActionsHavePages, Closed, database
<1> QED
  BY <1>4, <1>5, <1>6, <1>7, <1>8 DEF InductiveInv

\* A reload ends: the lock is free again, and no request had it.
LEMMA EndReloadFields ==
  ASSUME TypeOK, RequestInv, NEW p \in Procs, reload[p].pc = "roles", EndReload(p)
  PROVE  /\ reload' \in [Procs -> Rebuild] /\ reload'[p].pc = "idle"
         /\ \A q \in Procs \ {p} : reload'[q] = reload[q]
         /\ lock' \in [Procs -> Requests \cup {NoOne, "reload"}]
         /\ \A q \in Procs : reload'[q].pc # "idle" <=> lock'[q] = "reload"
         /\ \A o \in Requests, q \in Procs : lock'[q] = o <=> reqs[o].at = q /\ reqs[o].pc \in LockedSteps
         /\ \A o \in Requests : reqs[o].at = p => reqs[o].pc \notin LockedSteps
         /\ UNCHANGED <<database, inbox, reqs, crashes>>
<1>1. /\ reload' = [reload EXCEPT ![p] = NoReload] /\ lock' = [lock EXCEPT ![p] = NoOne]
      /\ UNCHANGED <<database, inbox, reqs, crashes>>
  BY DEF EndReload
<1>2. /\ reload' \in [Procs -> Rebuild] /\ reload'[p].pc = "idle"
      /\ \A q \in Procs \ {p} : reload'[q] = reload[q]
  BY <1>1, NoReloadFields DEF RequestInv
<1>3. /\ lock' \in [Procs -> Requests \cup {NoOne, "reload"}] /\ lock'[p] = NoOne
      /\ \A q \in Procs \ {p} : lock'[q] = lock[q]
  BY <1>1 DEF RequestInv
<1>4. lock[p] = "reload" /\ "reload" \notin Requests /\ NoOne \notin Requests /\ NoOne # "reload"
  BY AuthorizationConstants DEF TypeOK
<1>5. \A o \in Requests : reqs[o].at = p => reqs[o].pc \notin LockedSteps
  BY <1>4 DEF TypeOK
<1>6. \A q \in Procs : reload'[q].pc # "idle" <=> lock'[q] = "reload"
  BY <1>2, <1>3, <1>4 DEF TypeOK
<1>7. ASSUME NEW o \in Requests, NEW q \in Procs
      PROVE  lock'[q] = o <=> reqs[o].at = q /\ reqs[o].pc \in LockedSteps
  <2>1. CASE q = p
    BY <1>3, <1>4, <1>5, <2>1
  <2>2. CASE q # p
    BY <1>3, <2>2 DEF TypeOK
  <2> QED
    BY <2>1, <2>2
<1> QED
  BY <1>1, <1>2, <1>3, <1>5, <1>6, <1>7

\* Where p holds the lock for its reload, none of its requests is between two saves.
LEMMA ReloadStepRest ==
  ASSUME TypeOK, InductiveInv, NEW p \in Procs, reload[p].pc = "roles", EndReload(p),
         behind' \in [Procs -> BOOLEAN], \A q \in Procs \ {p} : behind'[q] = behind[q]
  PROVE  /\ RequestInv' /\ ReloadInv' /\ ReplaceInv' /\ SuperAdminComplete'
<1>1. /\ reload' \in [Procs -> Rebuild] /\ reload'[p].pc = "idle"
      /\ \A q \in Procs \ {p} : reload'[q] = reload[q]
      /\ lock' \in [Procs -> Requests \cup {NoOne, "reload"}]
      /\ \A o \in Requests : reqs[o].at = p => reqs[o].pc \notin LockedSteps
      /\ UNCHANGED <<database, inbox, reqs, crashes>>
  BY EndReloadFields DEF InductiveInv
<1>2. RequestInv'
  BY <1>1 DEF InductiveInv, RequestInv
<1>3. ReloadInv'
  <2> SUFFICES ASSUME NEW q \in Procs \ {p}, reload[q].pc # "idle", ~reload[q].missed
               PROVE  /\ reload[q].memberships = memberships /\ reload[q].grants = grants
                      /\ reload[q].pc = "roles" =>
                             \A u \in Users : \/ reload[q].users[u] = RowStatus(users'[u])
                                              \/ Exists(users'[u]) /\ UserPending(q, u)'
    BY <1>1 DEF ReloadInv, UsersUpToPending, database
  <2> QED
    BY <1>1, SamePending DEF InductiveInv, ReloadInv, database
<1>4. ReplaceInv'
  <2> SUFFICES ASSUME NEW o \in Requests, reqs[o].op = "access", reqs[o].pc \in {"add", "remove"},
                      ~behind'[reqs[o].at]
               PROVE  Replaces(reqs[o], reqs[o].pc, grants)
    BY <1>1 DEF ReplaceInv, Replaces, database
  <2>1. reqs[o].at \in Procs \ {p}
    BY <1>1 DEF InductiveInv, RequestInv, Placed, LockedSteps
  <2> QED
    BY <2>1 DEF InductiveInv, ReplaceInv
<1>5. SuperAdminComplete'
  BY <1>1 DEF InductiveInv, SuperAdminComplete, database
<1> QED
  BY <1>2, <1>3, <1>4, <1>5

\* What a reload read is stored still, or it knows that it has missed a change.
LEMMA InstallStep ==
  ASSUME TypeOK, InductiveInv, NEW p \in Procs, Install(p)
  PROVE  TypeOK' /\ InductiveInv'
<1> DEFINE k == Candidate(p)
<1>1. /\ reload[p].pc = "roles" /\ Valid(p) /\ EndReload(p)
      /\ memory' = [memory EXCEPT ![p] = k] /\ alive' = alive \cup {p}
      /\ behind' = [behind EXCEPT ![p] = reload[p].missed]
  BY DEF Install
<1>2. reload[p] \in Rebuild
  BY DEF InductiveInv, RequestInv
<1>3. /\ k \in Snapshots /\ k.memberships = reload[p].memberships /\ k.grants = reload[p].grants
      /\ k.users = reload[p].users
      /\ \A x \in AllRoles : x \in k.enabledRoles <=> roles[x] = "enabled"
  BY <1>2 DEF Candidate, Snapshots, Rebuild, EnabledRoles
<1> HIDE DEF k
<1>4. /\ memory' \in [Procs -> Snapshots] /\ memory'[p] = k
      /\ \A q \in Procs \ {p} : memory'[q] = memory[q]
  BY <1>1, <1>3 DEF TypeOK
<1>5. /\ behind' \in [Procs -> BOOLEAN] /\ behind'[p] = reload[p].missed
      /\ \A q \in Procs \ {p} : behind'[q] = behind[q]
  BY <1>1, <1>2 DEF TypeOK, Rebuild
<1>6. /\ \A q \in Procs : reload'[q].pc # "idle" <=> lock'[q] = "reload"
      /\ \A o \in Requests, q \in Procs : lock'[q] = o <=> reqs[o].at = q /\ reqs[o].pc \in LockedSteps
      /\ UNCHANGED <<database, inbox, reqs, crashes>>
  BY <1>1, EndReloadFields DEF InductiveInv
<1>7. TypeOK'
  BY <1>1, <1>4, <1>5, <1>6 DEF TypeOK, database
<1>8. RequestInv' /\ ReloadInv' /\ ReplaceInv' /\ SuperAdminComplete'
  BY <1>1, <1>5, ReloadStepRest
<1>9. ASSUME ~reload[p].missed
      PROVE  /\ reload[p].memberships = memberships /\ reload[p].grants = grants
             /\ UsersUpToPending(p, reload[p].users)
  BY <1>1, <1>9 DEF InductiveInv, ReloadInv
<1>10. MemoryInv'
  <2> SUFFICES ASSUME NEW q \in Procs, ~behind'[q]
               PROVE  /\ memory'[q].memberships = memberships /\ memory'[q].grants = grants
                      /\ \A u \in Users : \/ memory'[q].users[u] = RowStatus(users'[u])
                                          \/ Exists(users'[u]) /\ UserPending(q, u)'
                      /\ \A x \in AllRoles : \/ x \in memory'[q].enabledRoles <=> roles[x] = "enabled"
                                             \/ Exists(roles[x]) /\ RolePending(q, x)'
    BY <1>6 DEF MemoryInv, UsersUpToPending, database
  <2>1. CASE q = p
    BY <1>3, <1>4, <1>5, <1>6, <1>9, <2>1, SamePending DEF database
  <2>2. CASE q # p
    <3>1. memory'[q] = memory[q] /\ ~behind[q]
      BY <1>4, <1>5, <2>2
    <3> QED
      BY <1>6, <3>1, SamePending DEF InductiveInv, MemoryInv, database
  <2> QED
    BY <2>1, <2>2
<1>11. StoredActionsHavePages'
  <2> SUFFICES ASSUME \A q \in Procs : ~behind'[q]
               PROVE  Closed(grants)
    BY <1>6 DEF StoredActionsHavePages, Closed, database
  <2>1. reload[p].grants = grants
    BY <1>5, <1>9
  <2> QED
    BY <1>1, <2>1 DEF Valid, Loadable
<1> QED
  BY <1>7, <1>8, <1>10, <1>11 DEF InductiveInv

LEMMA RejectStep ==
  ASSUME TypeOK, InductiveInv, NEW p \in Procs, Reject(p)
  PROVE  TypeOK' /\ InductiveInv'
<1>1. reload[p].pc = "roles" /\ EndReload(p) /\ UNCHANGED <<memory, alive, behind>>
  BY DEF Reject
<1>2. /\ \A q \in Procs : reload'[q].pc # "idle" <=> lock'[q] = "reload"
      /\ \A o \in Requests, q \in Procs : lock'[q] = o <=> reqs[o].at = q /\ reqs[o].pc \in LockedSteps
      /\ UNCHANGED <<database, inbox, reqs, crashes>>
  BY <1>1, EndReloadFields DEF InductiveInv
<1>3. TypeOK'
  BY <1>1, <1>2 DEF TypeOK, database
<1>4. RequestInv' /\ ReloadInv' /\ ReplaceInv' /\ SuperAdminComplete'
  BY <1>1, ReloadStepRest DEF TypeOK
<1>5. MemoryInv'
  <2> SUFFICES ASSUME NEW q \in Procs, ~behind[q]
               PROVE  /\ memory[q].memberships = memberships /\ memory[q].grants = grants
                      /\ \A u \in Users : \/ memory[q].users[u] = RowStatus(users'[u])
                                          \/ Exists(users'[u]) /\ UserPending(q, u)'
                      /\ \A x \in AllRoles : \/ x \in memory[q].enabledRoles <=> roles[x] = "enabled"
                                             \/ Exists(roles[x]) /\ RolePending(q, x)'
    BY <1>1, <1>2 DEF MemoryInv, UsersUpToPending, database
  <2> QED
    BY <1>2, SamePending DEF InductiveInv, MemoryInv, database
<1>6. StoredActionsHavePages'
  BY <1>1, <1>2 DEF InductiveInv, StoredActionsHavePages, Closed, database
<1> QED
  BY <1>3, <1>4, <1>5, <1>6 DEF InductiveInv

\* A process stops: its requests are gone, and it knows nothing until it reloads.
LEMMA CrashStep ==
  ASSUME TypeOK, InductiveInv, NEW p \in Procs, Crash(p)
  PROVE  TypeOK' /\ InductiveInv'
<1>1. /\ crashes < MaxCrashes /\ crashes' = crashes + 1 /\ alive' = alive \ {p}
      /\ memory' = [memory EXCEPT ![p] = NoSnapshot] /\ lock' = [lock EXCEPT ![p] = NoOne]
      /\ reload' = [reload EXCEPT ![p] = NoReload] /\ inbox' = [inbox EXCEPT ![p] = FALSE]
      /\ reqs' = [r \in Requests |-> IF reqs[r].at = p /\ reqs[r].pc \notin Terminal
                                     THEN [reqs[r] EXCEPT !.pc = "cut"] ELSE reqs[r]]
      /\ behind' = [behind EXCEPT ![p] = TRUE]
      /\ UNCHANGED database
  BY DEF Crash
<1>2. /\ reload' \in [Procs -> Rebuild] /\ reload'[p].pc = "idle"
      /\ \A q \in Procs \ {p} : reload'[q] = reload[q]
  BY <1>1, NoReloadFields DEF InductiveInv, RequestInv
<1>3. /\ lock' \in [Procs -> Requests \cup {NoOne, "reload"}] /\ lock'[p] = NoOne
      /\ \A q \in Procs \ {p} : lock'[q] = lock[q]
  BY <1>1 DEF InductiveInv, RequestInv
<1>4. ASSUME NEW r \in Requests
      PROVE  /\ reqs'[r] \in Fields /\ reqs'[r].at = reqs[r].at
             /\ GoodRequest(reqs'[r]) /\ Placed(reqs'[r])
             /\ reqs[r].at # p => reqs'[r] = reqs[r]
             /\ reqs[r].at = p => reqs'[r].pc \in Terminal
  <2>1. reqs[r] \in Fields /\ GoodRequest(reqs[r]) /\ Placed(reqs[r])
    BY DEF TypeOK, InductiveInv, RequestInv
  <2>2. CASE reqs[r].at = p /\ reqs[r].pc \notin Terminal
    <3> DEFINE k == [reqs[r] EXCEPT !.pc = "cut"]
    <3>1. reqs'[r] = k
      BY <1>1, <2>2
    <3>2. /\ k \in Fields /\ k.pc = "cut" /\ k.at = reqs[r].at /\ k.op = reqs[r].op /\ k.user = reqs[r].user
          /\ k.role = reqs[r].role /\ k.want = reqs[r].want /\ k.add = reqs[r].add /\ k.rem = reqs[r].rem
          /\ k.to = reqs[r].to
      BY <2>1, FieldSets DEF Steps, Terminal
    <3> HIDE DEF k
    <3>3. GoodRequest(k) /\ Placed(k)
      BY <2>1, <2>2, <3>2 DEF GoodRequest, Placed, Terminal
    <3>4. k.pc \in Terminal
      BY <3>2 DEF Terminal
    <3> QED
      BY <2>2, <3>1, <3>2, <3>3, <3>4
  <2>3. CASE ~(reqs[r].at = p /\ reqs[r].pc \notin Terminal)
    <3>1. reqs'[r] = reqs[r]
      BY <1>1, <2>3
    <3> QED
      BY <2>1, <2>3, <3>1
  <2> QED
    BY <2>2, <2>3
<1>5. reqs' \in [Requests -> Fields]
  BY <1>1, <1>4
<1>6. /\ behind' \in [Procs -> BOOLEAN] /\ behind'[p]
      /\ \A q \in Procs \ {p} : behind'[q] = behind[q]
  BY <1>1 DEF TypeOK
<1>7. TypeOK'
  <2>1. inbox' \in [Procs -> BOOLEAN] /\ memory' \in [Procs -> Snapshots]
    BY <1>1, NoReloadFields DEF TypeOK
  <2>2. crashes' \in 0..MaxCrashes
    BY <1>1, AuthorizationConstants DEF TypeOK
  <2>3. \A q \in Procs : reload'[q].pc # "idle" <=> lock'[q] = "reload"
    BY <1>2, <1>3, AuthorizationConstants DEF TypeOK
  <2>4. ASSUME NEW o \in Requests, NEW q \in Procs
        PROVE  lock'[q] = o <=> reqs'[o].at = q /\ reqs'[o].pc \in LockedSteps
    <3>1. CASE q = p
      BY <1>3, <1>4, <3>1, AuthorizationConstants DEF Terminal, LockedSteps
    <3>2. CASE q # p
      BY <1>3, <1>4, <3>2 DEF TypeOK
    <3> QED
      BY <3>1, <3>2
  <2> QED
    BY <1>1, <1>5, <1>6, <2>1, <2>2, <2>3, <2>4 DEF TypeOK, database
<1>8. RequestInv'
  BY <1>2, <1>3, <1>4 DEF RequestInv
<1>9. ASSUME NEW q \in Procs \ {p}
      PROVE  /\ \A u \in Users : UserPending(q, u) => UserPending(q, u)'
             /\ \A x \in AllRoles : RolePending(q, x) => RolePending(q, x)'
  BY <1>4 DEF UserPending, RolePending, Pending
<1>10. MemoryInv'
  <2> SUFFICES ASSUME NEW q \in Procs \ {p}, ~behind[q]
               PROVE  /\ memory[q].memberships = memberships /\ memory[q].grants = grants
                      /\ \A u \in Users : \/ memory[q].users[u] = RowStatus(users[u])
                                          \/ Exists(users[u]) /\ UserPending(q, u)'
                      /\ \A x \in AllRoles : \/ x \in memory[q].enabledRoles <=> roles[x] = "enabled"
                                             \/ Exists(roles[x]) /\ RolePending(q, x)'
    <3>1. \A q \in Procs \ {p} : memory'[q] = memory[q]
      BY <1>1 DEF TypeOK
    <3> QED
      BY <1>1, <1>6, <3>1 DEF MemoryInv, UsersUpToPending, database
  <2>1. /\ memory[q].memberships = memberships /\ memory[q].grants = grants
        /\ \A u \in Users : \/ memory[q].users[u] = RowStatus(users[u])
                            \/ Exists(users[u]) /\ UserPending(q, u)
        /\ \A x \in AllRoles : \/ x \in memory[q].enabledRoles <=> roles[x] = "enabled"
                               \/ Exists(roles[x]) /\ RolePending(q, x)
    BY DEF InductiveInv, MemoryInv, UsersUpToPending
  <2> QED
    BY <1>9, <2>1
<1>11. ReloadInv'
  <2> SUFFICES ASSUME NEW q \in Procs \ {p}, reload[q].pc # "idle", ~reload[q].missed
               PROVE  /\ reload[q].memberships = memberships /\ reload[q].grants = grants
                      /\ reload[q].pc = "roles" =>
                             \A u \in Users : \/ reload[q].users[u] = RowStatus(users[u])
                                              \/ Exists(users[u]) /\ UserPending(q, u)'
    BY <1>1, <1>2 DEF ReloadInv, UsersUpToPending, database
  <2>1. /\ reload[q].memberships = memberships /\ reload[q].grants = grants
        /\ reload[q].pc = "roles" =>
               \A u \in Users : \/ reload[q].users[u] = RowStatus(users[u])
                                \/ Exists(users[u]) /\ UserPending(q, u)
    BY DEF InductiveInv, ReloadInv, UsersUpToPending
  <2> QED
    BY <1>9, <2>1
<1>12. ReplaceInv'
  <2> SUFFICES ASSUME NEW o \in Requests, reqs'[o].op = "access", reqs'[o].pc \in {"add", "remove"},
                      ~behind'[reqs'[o].at]
               PROVE  Replaces(reqs'[o], reqs'[o].pc, grants)
    BY <1>1 DEF ReplaceInv, Replaces, database
  <2>1. reqs'[o].at \in Procs /\ reqs'[o].pc \notin Terminal
    BY <1>4 DEF Placed, Terminal
  <2>2. reqs'[o] = reqs[o] /\ reqs[o].at \in Procs \ {p}
    BY <1>4, <1>6, <2>1
  <2> QED
    BY <1>6, <2>2 DEF InductiveInv, ReplaceInv
<1>13. SuperAdminComplete' /\ StoredActionsHavePages'
  BY <1>1, <1>6 DEF InductiveInv, SuperAdminComplete, StoredActionsHavePages, database
<1> QED
  BY <1>7, <1>8, <1>10, <1>11, <1>12, <1>13 DEF InductiveInv

-----------------------------------------------------------------------------
(* The invariant is inductive.                                             *)

LEMMA InitInv == Init => TypeOK /\ InductiveInv
<1> SUFFICES ASSUME Init
             PROVE  TypeOK /\ InductiveInv
  OBVIOUS
<1>1. PICK d \in InitDatabases :
        users = d.users /\ roles = d.roles /\ memberships = d.memberships /\ grants = d.grants
  BY DEF Init
<1>2. /\ users \in [Users -> RowStates] /\ roles \in [AllRoles -> RowStates]
      /\ memberships \subseteq Users \X AllRoles /\ grants \subseteq AllRoles \X Permissions
  BY <1>1, AuthorizationConstants
<1>3. /\ memory = [p \in Procs |-> FromDatabase] /\ alive = Procs
      /\ lock = [p \in Procs |-> NoOne] /\ reload = [p \in Procs |-> NoReload]
      /\ inbox = [p \in Procs |-> FALSE] /\ reqs = [r \in Requests |-> Idle]
      /\ crashes = 0 /\ behind = [p \in Procs |-> FALSE] /\ StoredLoadable
  BY DEF Init
<1>4. /\ FromDatabase \in Snapshots
      /\ FromDatabase.memberships = memberships /\ FromDatabase.grants = grants
      /\ \A u \in Users : FromDatabase.users[u] = RowStatus(users[u])
      /\ \A x \in AllRoles : x \in FromDatabase.enabledRoles <=> roles[x] = "enabled"
  BY <1>2 DEF FromDatabase, Snapshots, UserFacts, EnabledRoles, RowStatus
<1>5. TypeOK
  <2>1. memory \in [Procs -> Snapshots] /\ reqs \in [Requests -> Fields]
    BY <1>3, <1>4, IdleRequest
  <2>2. crashes \in 0..MaxCrashes
    BY <1>3, AuthorizationConstants
  <2>3. \A p \in Procs : reload[p].pc # "idle" <=> lock[p] = "reload"
    BY <1>3, NoReloadFields, AuthorizationConstants
  <2>4. \A r \in Requests, p \in Procs : lock[p] = r <=> reqs[r].at = p /\ reqs[r].pc \in LockedSteps
    BY <1>3, IdleRequest, AuthorizationConstants DEF LockedSteps
  <2> QED
    BY <1>2, <1>3, <2>1, <2>2, <2>3, <2>4 DEF TypeOK
<1>6. RequestInv
  BY <1>3, NoReloadFields, IdleRequest DEF RequestInv, Placed
<1>7. MemoryInv
  BY <1>3, <1>4 DEF MemoryInv, UsersUpToPending
<1>8. ReloadInv /\ ReplaceInv
  BY <1>3, NoReloadFields, IdleRequest DEF ReloadInv, ReplaceInv
<1>9. SuperAdminComplete /\ StoredActionsHavePages
  BY <1>3 DEF StoredLoadable, Loadable, SuperAdminComplete, StoredActionsHavePages
<1> QED
  BY <1>5, <1>6, <1>7, <1>8, <1>9 DEF InductiveInv

LEMMA StutterStep ==
  ASSUME TypeOK, InductiveInv, UNCHANGED vars
  PROVE  TypeOK' /\ InductiveInv'
<1>1. TypeOK'
  BY DEF vars, database, TypeOK
<1>2. RequestInv' /\ ReplaceInv'
  BY DEF vars, database, InductiveInv, RequestInv, ReplaceInv, Replaces
<1>3. MemoryInv'
  <2> SUFFICES ASSUME NEW q \in Procs, ~behind[q]
               PROVE  /\ memory[q].memberships = memberships /\ memory[q].grants = grants
                      /\ \A u \in Users : \/ memory[q].users[u] = RowStatus(users'[u])
                                          \/ Exists(users'[u]) /\ UserPending(q, u)'
                      /\ \A x \in AllRoles : \/ x \in memory[q].enabledRoles <=> roles[x] = "enabled"
                                             \/ Exists(roles[x]) /\ RolePending(q, x)'
    BY DEF vars, database, MemoryInv, UsersUpToPending
  <2> QED
    BY SamePending DEF vars, database, InductiveInv, MemoryInv
<1>4. ReloadInv'
  <2> SUFFICES ASSUME NEW q \in Procs, reload[q].pc # "idle", ~reload[q].missed
               PROVE  /\ reload[q].memberships = memberships /\ reload[q].grants = grants
                      /\ reload[q].pc = "roles" =>
                             \A u \in Users : \/ reload[q].users[u] = RowStatus(users'[u])
                                              \/ Exists(users'[u]) /\ UserPending(q, u)'
    BY DEF vars, database, ReloadInv, UsersUpToPending
  <2> QED
    BY SamePending DEF vars, database, InductiveInv, ReloadInv
<1>5. SuperAdminComplete' /\ StoredActionsHavePages'
  BY DEF vars, database, InductiveInv, SuperAdminComplete, StoredActionsHavePages, Closed
<1> QED
  BY <1>1, <1>2, <1>3, <1>4, <1>5 DEF InductiveInv

LEMMA NextInv == TypeOK /\ InductiveInv /\ [Next]_vars => (TypeOK /\ InductiveInv)'
<1> SUFFICES ASSUME TypeOK, InductiveInv, [Next]_vars
             PROVE  TypeOK' /\ InductiveInv'
  OBVIOUS
<1>1. CASE \E r \in Requests : IssueSome(r) \/ Step(r) \/ Cut(r) \/ CutAfterSave(r)
  <2>1. PICK r \in Requests : IssueSome(r) \/ Step(r) \/ Cut(r) \/ CutAfterSave(r)
    BY <1>1
  <2>2. CASE Step(r)
    BY <2>2, ValidateStep, DiffStep, AddStep, RemoveStep, WriteRowStep, OverlayStep, BootstrapStep,
       DetachUserStep, RevokeStep, DetachRoleStep, DeleteUserRowStep, DeleteRoleRowStep DEF Step
  <2> QED
    BY <2>1, <2>2, IssueSomeStep, CutStep, CutAfterSaveStep
<1>2. CASE \E p \in Procs : Reload(p) \/ Crash(p)
  BY <1>2, StartReloadStep, ReadUsersStep, InstallStep, RejectStep, CrashStep DEF Reload
<1>3. CASE UNCHANGED vars
  BY <1>3, StutterStep
<1> QED
  BY <1>1, <1>2, <1>3 DEF Next

\* Whatever requests, dropped requests, reloads and crashes interleave, the types and the
\* inductive invariant hold: what a process that has missed no change keeps in its snapshot
\* (EnforcementEngine) is what is stored, up to the rows that its own requests are about to show.
THEOREM Invariance == Spec => [](TypeOK /\ InductiveInv)
<1>1. Init => TypeOK /\ InductiveInv
  BY InitInv
<1>2. TypeOK /\ InductiveInv /\ [Next]_vars => (TypeOK /\ InductiveInv)'
  BY NextInv
<1> QED
  BY <1>1, <1>2, PTL DEF Spec

-----------------------------------------------------------------------------
(* What follows for decisions, views and saves.                            *)

\* No sequence of requests, saved or cut short, makes rules that validate_loaded_policy refuses
\* for the sake of the protected role, nor, where every process is up to date, of an action
\* without its page (require_mutable_role, normalize_role_access).
THEOREM RulesStayValid == Spec => []StoredRulesValidate
<1>1. TypeOK /\ InductiveInv => StoredRulesValidate
  BY DEF InductiveInv, StoredRulesValidate
<1> QED
  BY <1>1, Invariance, PTL

\* A settled process that has missed no change has no row of its own to show.
LEMMA SettledMemory ==
  ASSUME TypeOK, InductiveInv, NEW p \in Procs, Settled(p), ~behind[p]
  PROVE  /\ memory[p].memberships = memberships /\ memory[p].grants = grants
         /\ \A u \in Users : memory[p].users[u] = RowStatus(users[u])
         /\ \A x \in AllRoles : x \in memory[p].enabledRoles <=> roles[x] = "enabled"
         /\ memory[p].enabledRoles \subseteq AllRoles
<1>1. \A r \in Requests : ~Pending(reqs[r], p)
  BY DEF Settled, Pending
<1>2. (\A u \in Users : ~UserPending(p, u)) /\ (\A x \in AllRoles : ~RolePending(p, x))
  BY <1>1 DEF UserPending, RolePending
<1>3. memory[p] \in Snapshots
  BY DEF TypeOK
<1> QED
  BY <1>2, <1>3 DEF InductiveInv, MemoryInv, UsersUpToPending, Snapshots

LEMMA SettledDecisions == TypeOK /\ InductiveInv => DecisionsFollowDatabase
<1> SUFFICES ASSUME TypeOK, InductiveInv, NEW p \in Procs, Settled(p), ~behind[p],
                    NEW u \in Users, NEW perm \in Permissions
             PROVE  Allowed(memory[p], u, perm) <=> AllowedByDatabase(u, perm)
  BY DEF DecisionsFollowDatabase
<1>1. /\ memory[p].memberships = memberships /\ memory[p].grants = grants
      /\ memory[p].users[u] = RowStatus(users[u])
      /\ \A x \in AllRoles : x \in memory[p].enabledRoles <=> roles[x] = "enabled"
      /\ memory[p].enabledRoles \subseteq AllRoles
  BY SettledMemory
<1>2. /\ FromDatabase.memberships = memberships /\ FromDatabase.grants = grants
      /\ FromDatabase.users[u] = RowStatus(users[u])
      /\ \A x : x \in FromDatabase.enabledRoles <=> x \in AllRoles /\ roles[x] = "enabled"
  BY DEF FromDatabase, UserFacts, EnabledRoles
<1>3. memory[p].enabledRoles = FromDatabase.enabledRoles
  BY <1>1, <1>2
<1> QED
  BY <1>1, <1>2, <1>3 DEF Allowed, AllowedByDatabase

\* A process that has missed no change decides as the database does, whatever reloads and
\* requests it interleaves under its mutation_lock.
THEOREM ReloadsKeepDecisions == Spec => []DecisionsFollowDatabase
BY SettledDecisions, Invariance, PTL

LEMMA SettledViews == TypeOK /\ InductiveInv => AccessViewMatchesDecisions
<1> SUFFICES ASSUME TypeOK, InductiveInv, NEW p \in Procs, Settled(p), ~behind[p]
             PROVE  /\ \A u \in Users : memory[p].users[u] = "enabled" =>
                           /\ AccessView(p, u).effective = {perm \in Permissions : Allowed(memory[p], u, perm)}
                           /\ AccessView(p, u).assigned =
                                  {r \in AllRoles : Exists(roles[r]) /\ <<u, r>> \in memberships}
                    /\ \A r \in AllRoles : Exists(roles[r]) => RoleAccessView(p, r) = PermissionsIn(grants, r)
  BY DEF AccessViewMatchesDecisions
<1>1. /\ memory[p].memberships = memberships /\ memory[p].grants = grants
      /\ \A x \in AllRoles : x \in memory[p].enabledRoles <=> roles[x] = "enabled"
      /\ memory[p].enabledRoles \subseteq AllRoles
  BY SettledMemory
<1>2. \A r \in AllRoles : RoleAccessView(p, r) = PermissionsIn(grants, r)
  BY <1>1 DEF RoleAccessView
<1>3. ASSUME NEW u \in Users, memory[p].users[u] = "enabled"
      PROVE  /\ AccessView(p, u).effective = {perm \in Permissions : Allowed(memory[p], u, perm)}
             /\ AccessView(p, u).assigned = {r \in AllRoles : Exists(roles[r]) /\ <<u, r>> \in memberships}
  <2>1. {x \in ActiveRoles(p, u) : Exists(roles[x])} = ActiveRoles(p, u)
    BY <1>1 DEF ActiveRoles, Exists
  <2>2. EffectivePermissions(p, u) = UNION {PermissionsIn(grants, r) : r \in ActiveRoles(p, u)}
    BY <1>1, <2>1 DEF EffectivePermissions
  <2>3. \A perm : perm \in EffectivePermissions(p, u) <=>
                      \E r \in ActiveRoles(p, u) : perm \in PermissionsIn(grants, r)
    BY <2>2
  <2>4. \A perm : perm \in EffectivePermissions(p, u) => perm \in Permissions
    BY <2>3 DEF PermissionsIn
  <2>5. \A perm : Allowed(memory[p], u, perm) <=>
                      \E r \in ActiveRoles(p, u) : perm \in PermissionsIn(grants, r)
    BY <1>1, <1>3 DEF Allowed, ActiveRoles
  <2>6. EffectivePermissions(p, u) = {perm \in Permissions : Allowed(memory[p], u, perm)}
    BY <2>3, <2>4, <2>5
  <2>7. {r \in RolesIn(memory[p].memberships, u) : Exists(roles[r])}
            = {r \in AllRoles : Exists(roles[r]) /\ <<u, r>> \in memberships}
    BY <1>1 DEF RolesIn
  <2> QED
    BY <2>6, <2>7 DEF AccessView
<1> QED
  BY <1>2, <1>3

\* The views of such a process list exactly what requests are granted and what is stored
\* (Accounts::access, RoleService::access), although they walk the snapshot another way.
THEOREM ViewsTellTruth == Spec => []AccessViewMatchesDecisions
BY SettledViews, Invariance, PTL

\* A step shows a rule only if it is stored now, or was when the reload read it.
LEMMA StepShowsSavedRules ==
  ASSUME TypeOK, InductiveInv, [Next]_vars, NEW p \in Procs
  PROVE  /\ memory'[p].memberships \ memory[p].memberships \subseteq memberships' \cup reload[p].memberships
         /\ memory'[p].grants \ memory[p].grants \subseteq grants' \cup reload[p].grants
<1> USE DEF Snapshots
<1>1. memory \in [Procs -> Snapshots] /\ memory[p] \in Snapshots
  BY DEF TypeOK
<1>2. CASE memory' = memory
  BY <1>2
<1>3. ASSUME NEW r \in Requests, NEW o, NEW add, NEW rem, NEW next, Save(r, next, o, add, rem), o.ok,
             add \subseteq o.rules
      PROVE  /\ memory'[p].memberships \ memory[p].memberships \subseteq memberships'
             /\ memory'[p].grants \ memory[p].grants \subseteq grants'
  <2>1. PICK at : at = reqs[r].at
    OBVIOUS
  <2>2. CASE reqs[r].op = "access"
    <3>1. memory' = [memory EXCEPT ![at].grants = (memory[at].grants \cup add) \ rem] /\ grants' = o.rules
      BY <1>3, <2>1, <2>2 DEF Save
    <3>2. /\ memory'[p].memberships = memory[p].memberships
          /\ memory'[p].grants = memory[p].grants \/ memory'[p].grants = (memory[p].grants \cup add) \ rem
      BY <1>1, <3>1
    <3> QED
      BY <1>3, <3>1, <3>2
  <2>3. CASE reqs[r].op # "access"
    <3>1. /\ memory' = [memory EXCEPT ![at].memberships = (memory[at].memberships \cup add) \ rem]
          /\ memberships' = o.rules
      BY <1>3, <2>1, <2>3 DEF Save
    <3>2. /\ memory'[p].grants = memory[p].grants
          /\ \/ memory'[p].memberships = memory[p].memberships
             \/ memory'[p].memberships = (memory[p].memberships \cup add) \ rem
      BY <1>1, <3>1
    <3> QED
      BY <1>3, <3>1, <3>2
  <2> QED
    BY <2>2, <2>3
<1>4. ASSUME NEW r \in Requests, Add(r)
      PROVE  /\ memory'[p].memberships \ memory[p].memberships \subseteq memberships'
             /\ memory'[p].grants \ memory[p].grants \subseteq grants'
  <2>1. PICK o \in AddOutcomes(Stored(reqs[r]), reqs[r].add) :
          Save(r, IF reqs[r].rem = {} THEN "ok" ELSE "remove", o, reqs[r].add, {})
    BY <1>4 DEF Add
  <2>2. CASE o.ok
    BY <1>3, <2>1, <2>2 DEF AddOutcomes
  <2>3. CASE ~o.ok
    BY <1>2, <2>1, <2>3 DEF Save
  <2> QED
    BY <2>2, <2>3
<1>5. ASSUME NEW r \in Requests, Remove(r)
      PROVE  /\ memory'[p].memberships \ memory[p].memberships \subseteq memberships'
             /\ memory'[p].grants \ memory[p].grants \subseteq grants'
  <2>1. PICK o \in RemoveOutcomes(Stored(reqs[r]), reqs[r].rem) : Save(r, "ok", o, {}, reqs[r].rem)
    BY <1>5 DEF Remove
  <2>2. CASE o.ok
    BY <1>3, <2>1, <2>2
  <2>3. CASE ~o.ok
    BY <1>2, <2>1, <2>3 DEF Save
  <2> QED
    BY <2>2, <2>3
<1>6. ASSUME NEW r \in Requests, Overlay(r) \/ DetachUser(r) \/ Revoke(r) \/ DetachRole(r)
      PROVE  memory'[p].memberships \subseteq memory[p].memberships /\ memory'[p].grants \subseteq memory[p].grants
  <2>1. PICK at : at = reqs[r].at
    OBVIOUS
  <2>2. CASE Overlay(r)
    <3>1. memory' = [memory EXCEPT ![at] = WithStatus(memory[at], reqs[r])]
      BY <2>1, <2>2 DEF Overlay
    <3>2. /\ WithStatus(memory[p], reqs[r]).memberships = memory[p].memberships
          /\ WithStatus(memory[p], reqs[r]).grants = memory[p].grants
      BY <1>1 DEF WithStatus
    <3>3. memory'[p] = memory[p] \/ memory'[p] = WithStatus(memory[p], reqs[r])
      BY <1>1, <3>1
    <3> QED
      BY <3>2, <3>3
  <2>3. CASE DetachUser(r)
    <3>1. PICK o \in FilteredOutcomes(memberships, memory[at].memberships, {reqs[r].user} \X AllRoles) :
            memory' = [memory EXCEPT ![at].memberships = o.held, ![at].users[reqs[r].user] = "none"]
      BY <2>1, <2>3 DEF DetachUser
    <3>2. o.held \subseteq memory[at].memberships
      BY FilteredRules
    <3> DEFINE k == [memory[at] EXCEPT !.memberships = o.held, !.users[reqs[r].user] = "none"]
    <3>3. memory' = [memory EXCEPT ![at] = k]
      BY <3>1
    <3>4. at = p => k.memberships = o.held /\ k.grants = memory[p].grants
      BY <1>1
    <3> HIDE DEF k
    <3>5. memory'[p] = IF at = p THEN k ELSE memory[p]
      BY <1>1, <3>3
    <3> QED
      BY <3>2, <3>4, <3>5
  <2>4. CASE Revoke(r)
    <3>1. PICK o \in FilteredOutcomes(grants, memory[at].grants, {reqs[r].role} \X Permissions) :
            memory' = [memory EXCEPT ![at].grants = o.held]
      BY <2>1, <2>4 DEF Revoke
    <3>2. o.held \subseteq memory[at].grants
      BY FilteredRules
    <3> DEFINE k == [memory[at] EXCEPT !.grants = o.held]
    <3>3. memory' = [memory EXCEPT ![at] = k]
      BY <3>1
    <3>4. at = p => k.grants = o.held /\ k.memberships = memory[p].memberships
      BY <1>1
    <3> HIDE DEF k
    <3>5. memory'[p] = IF at = p THEN k ELSE memory[p]
      BY <1>1, <3>3
    <3> QED
      BY <3>2, <3>4, <3>5
  <2>5. CASE DetachRole(r)
    <3>1. PICK o \in FilteredOutcomes(memberships, memory[at].memberships, Users \X {reqs[r].role}) :
            memory' = [memory EXCEPT ![at].memberships = o.held,
                                     ![at].enabledRoles = memory[at].enabledRoles \ {reqs[r].role}]
      BY <2>1, <2>5 DEF DetachRole
    <3>2. o.held \subseteq memory[at].memberships
      BY FilteredRules
    <3> DEFINE k == [memory[at] EXCEPT !.memberships = o.held,
                                       !.enabledRoles = memory[at].enabledRoles \ {reqs[r].role}]
    <3>3. memory' = [memory EXCEPT ![at] = k]
      BY <3>1
    <3>4. at = p => k.memberships = o.held /\ k.grants = memory[p].grants
      BY <1>1
    <3> HIDE DEF k
    <3>5. memory'[p] = IF at = p THEN k ELSE memory[p]
      BY <1>1, <3>3
    <3> QED
      BY <3>2, <3>4, <3>5
  <2> QED
    BY <1>6, <2>2, <2>3, <2>4, <2>5
<1>7. ASSUME NEW q \in Procs, Install(q)
      PROVE  /\ memory'[p].memberships \ memory[p].memberships \subseteq reload[p].memberships
             /\ memory'[p].grants \ memory[p].grants \subseteq reload[p].grants
  <2>1. memory' = [memory EXCEPT ![q] = Candidate(q)]
    BY <1>7 DEF Install
  <2>2. memory'[p] = memory[p] \/ memory'[p] = Candidate(p)
    BY <1>1, <2>1
  <2> QED
    BY <2>2 DEF Candidate
<1>8. ASSUME NEW q \in Procs, Crash(q)
      PROVE  memory'[p].memberships \subseteq memory[p].memberships /\ memory'[p].grants \subseteq memory[p].grants
  <2>1. memory'[p] = memory[p] \/ memory'[p] = NoSnapshot
    BY <1>1, <1>8 DEF Crash
  <2> QED
    BY <2>1 DEF NoSnapshot
<1>9. ASSUME NEW r \in Requests, IssueSome(r) \/ Cut(r) \/ CutAfterSave(r)
      PROVE  memory' = memory
  BY <1>9 DEF IssueSome, IssueAssign, IssueAccess, IssueUserStatus, IssueRoleStatus, IssueDeleteUser,
              IssueDeleteRole, IssueCreateUser, IssueCreateRole, IssueEnsureAdmin, Issue, Cut, CutAfterSave
<1>10. ASSUME NEW r \in Requests,
              \/ Validate(r) \/ Diff(r) \/ UpdateUser(r) \/ UpdateRole(r) \/ InsertUser(r) \/ InsertRole(r)
              \/ UpsertAdmin(r) \/ Bootstrap(r) \/ DeleteUserRow(r) \/ DeleteRoleRow(r)
       PROVE  memory' = memory
  BY <1>10 DEF Validate, Diff, UpdateUser, UpdateRole, InsertUser, InsertRole, UpsertAdmin, Bootstrap,
               DeleteUserRow, DeleteRoleRow, SetUser, SetRole, NoRow, RowDeleted
<1>11. ASSUME NEW q \in Procs, StartReload(q) \/ ReadUsers(q) \/ Reject(q)
       PROVE  memory' = memory
  BY <1>11 DEF StartReload, ReadUsers, Reject
<1>12. CASE UNCHANGED vars
  BY <1>2, <1>12 DEF vars
<1>13. CASE \E r \in Requests : IssueSome(r) \/ Step(r) \/ Cut(r) \/ CutAfterSave(r)
  <2>1. PICK r \in Requests : IssueSome(r) \/ Step(r) \/ Cut(r) \/ CutAfterSave(r)
    BY <1>13
  <2>2. CASE Step(r)
    BY <1>2, <1>4, <1>5, <1>6, <1>10, <2>2 DEF Step
  <2> QED
    BY <1>2, <1>9, <2>1, <2>2
<1>14. CASE \E q \in Procs : Reload(q) \/ Crash(q)
  BY <1>2, <1>7, <1>8, <1>11, <1>14 DEF Reload
<1> QED
  BY <1>12, <1>13, <1>14 DEF Next

\* A failed save grants nothing: a rule that enters a snapshot is stored, or was when the reload
\* of that process read it (replace_user_roles, replace_role_permissions).
THEOREM OnlySavedRulesEnter == Spec => NoUnsavedRule
<1>1. TypeOK /\ InductiveInv /\ [Next]_vars =>
          [\A p \in Procs :
              /\ memory'[p].memberships \ memory[p].memberships
                     \subseteq memberships' \cup reload[p].memberships
              /\ memory'[p].grants \ memory[p].grants \subseteq grants' \cup reload[p].grants]_vars
  BY StepShowsSavedRules
<1> QED
  BY <1>1, Invariance, PTL DEF Spec, NoUnsavedRule

=============================================================================
