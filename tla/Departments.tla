------------------------------ MODULE Departments ------------------------------
(***************************************************************************)
(* The department tree (crates/iam/src/departments).  A move checks the    *)
(* new parent in one statement and writes it in another, without a         *)
(* transaction; a deletion locks its row, counts what is below it and      *)
(* deletes it in one transaction.  The ids come from the client, and only  *)
(* the foreign key asks whether they are there.  PostgreSQL lets nobody    *)
(* reference or change a row that is locked for update, and sets the       *)
(* parent of what is left below a deleted row to null.                     *)
(***************************************************************************)
EXTENDS Naturals, FiniteSets

CONSTANTS
    Depts,          \* department ids, serial and never reused
    NoDept,         \* SQL null
    DeptRequests    \* moves and deletions in progress

ASSUME DeptConstants == NoDept \notin Depts /\ IsFiniteSet(Depts)

VARIABLES
    depts,          \* sys_depts: the parent of every department there is
    freshDepts,     \* ids that were not given out yet
    deptReqs,       \* requests between two of their statements
    deptRingRisk    \* history: a step was taken that can close a ring

deptVars == <<depts, freshDepts, deptReqs, deptRingRisk>>

NoDeptRequest == [pc |-> "idle", dept |-> NoDept, parent |-> NoDept, locks |-> {}]

-----------------------------------------------------------------------------
(* The recursive queries and the tree of the answers.                      *)

ParentOf(d) == IF d \in DOMAIN depts THEN depts[d] ELSE NoDept

\* d, its parent, the parent of that, and so on.
AtAndAbove(d) ==
    LET up[k \in 0..Cardinality(Depts)] == IF k = 0 THEN d ELSE ParentOf(up[k - 1])
    IN  {up[k] : k \in 0..Cardinality(Depts)} \ {NoDept}

\* The rows found level by level below the given parents.
BelowDepts(roots) ==
    LET level[k \in 0..Cardinality(Depts)] ==
            IF k = 0 THEN roots ELSE {d \in DOMAIN depts : depts[d] \in level[k - 1]}
    IN  UNION {level[k] : k \in 0..Cardinality(Depts)}

InRing(d) == d \in DOMAIN depts /\ \E c \in DOMAIN depts : depts[c] = d /\ c \in AtAndAbove(d)

\* The query for ancestors is a union all: it comes back unless it runs into a
\* ring that does not hold what it looks for.
AncestorQueryEnds(from, sought) ==
    sought \in AtAndAbove(from) \/ \A d \in AtAndAbove(from) : ~InRing(d)

\* build_dept_tree: rows without a parent, or with one that is not listed, are roots.
ShownDepts == BelowDepts({d \in DOMAIN depts : depts[d] \notin DOMAIN depts})

\* Variant: the row is read without for update.
LockedForUpdateNever(d, others) == FALSE

\* The transaction of another request holds the row.
LockedForUpdate(d, others) == \E o \in others : d \in deptReqs[o].locks

\* The foreign key: the parent is there and nobody else is about to delete it.
MayReference(p, others) == p = NoDept \/ (p \in DOMAIN depts /\ ~LockedForUpdate(p, others))

OtherDepts(r) == DeptRequests \ {r}

-----------------------------------------------------------------------------
(* Operations.                                                             *)

GotoDept(r, pc) == deptReqs' = [deptReqs EXCEPT ![r].pc = pc]
EndDept(r) == deptReqs' = [deptReqs EXCEPT ![r] = NoDeptRequest]

\* create: one insert.  The parent may be the new row, should the client guess
\* its id; and it may be the one that a move waits to go below, created under
\* the department that is moved.
CreateDept(d) ==
    \E p \in DOMAIN depts \cup {d, NoDept} :
        /\ d \in freshDepts
        /\ p = d \/ MayReference(p, DeptRequests)
        /\ depts' = [x \in DOMAIN depts \cup {d} |-> IF x = d THEN p ELSE depts[x]]
        /\ freshDepts' = freshDepts \ {d}
        /\ deptRingRisk' = (\/ deptRingRisk \/ p = d
                            \/ \E r \in DeptRequests :
                                  /\ deptReqs[r].pc = "checked" /\ deptReqs[r].parent = d
                                  /\ deptReqs[r].dept \in AtAndAbove(p))
        /\ UNCHANGED deptReqs

\* Variant: only the department itself is refused.
MayMoveUnchecked(d, p) == p # d

\* update: the department itself or one below it is refused as a parent.
MayMove(d, p) ==
    /\ p # d
    /\ p # NoDept => AncestorQueryEnds(p, d) /\ d \notin AtAndAbove(p)

\* Nothing is above an id that is not there: it is not refused.
CheckMove(r) ==
    \E d \in Depts, p \in Depts \cup {NoDept} :
        /\ deptReqs[r].pc = "idle"
        /\ MayMove(d, p)
        /\ deptReqs' = [deptReqs EXCEPT ![r] = [pc |-> "checked", dept |-> d, parent |-> p, locks |-> {}]]
        /\ deptRingRisk' = (deptRingRisk \/ \E o \in DeptRequests : deptReqs[o].pc = "checked")
        /\ UNCHANGED <<depts, freshDepts>>

\* A row that is not there is not updated, and that is no error.
WriteMove(r) ==
    LET q == deptReqs[r]
    IN  /\ q.pc = "checked"
        /\ ~LockedForUpdate(q.dept, OtherDepts(r))
        /\ q.dept \in DOMAIN depts /\ depts[q.dept] # q.parent => MayReference(q.parent, OtherDepts(r))
        /\ depts' = [d \in DOMAIN depts |-> IF d = q.dept THEN q.parent ELSE depts[d]]
        /\ EndDept(r)
        /\ UNCHANGED <<freshDepts, deptRingRisk>>

\* A row that is not there is not locked.
LockDept(r) ==
    \E d \in Depts :
        /\ deptReqs[r].pc = "idle"
        /\ ~LockedForUpdate(d, OtherDepts(r))
        /\ deptReqs' = [deptReqs EXCEPT ![r] = [pc |-> "locked", dept |-> d, parent |-> NoDept,
                                                locks |-> {d} \cap DOMAIN depts]]
        /\ UNCHANGED <<depts, freshDepts, deptRingRisk>>

\* The departments at any depth below are counted: none is there if none is a child.
CountBelow(r) ==
    LET d == deptReqs[r].dept
    IN  /\ deptReqs[r].pc = "locked"
        /\ \A c \in DOMAIN depts : depts[c] # d
        /\ GotoDept(r, "counted")
        /\ UNCHANGED <<depts, freshDepts, deptRingRisk>>

\* What is deleted is the row of that id, locked before or not.  The foreign key
\* sets the parent of what is below to null.
DeleteDept(r) ==
    LET d == deptReqs[r].dept
    IN  /\ deptReqs[r].pc = "counted"
        /\ \A x \in DOMAIN depts : x = d \/ depts[x] = d => ~LockedForUpdate(x, OtherDepts(r))
        /\ depts' = [x \in DOMAIN depts \ {d} |-> IF depts[x] = d THEN NoDept ELSE depts[x]]
        /\ EndDept(r)
        /\ UNCHANGED <<freshDepts, deptRingRisk>>

\* Refused, failed, or dropped by its client: nothing of it stays.
AbortDept(r) ==
    /\ deptReqs[r].pc # "idle"
    /\ EndDept(r)
    /\ UNCHANGED <<depts, freshDepts, deptRingRisk>>

DeptInit ==
    /\ depts = [d \in {} |-> NoDept]
    /\ freshDepts = Depts
    /\ deptReqs = [r \in DeptRequests |-> NoDeptRequest]
    /\ deptRingRisk = FALSE

DeptNext ==
    \/ \E d \in Depts : CreateDept(d)
    \/ \E r \in DeptRequests :
           \/ CheckMove(r)
           \/ WriteMove(r)
           \/ LockDept(r)
           \/ CountBelow(r)
           \/ DeleteDept(r)
           \/ AbortDept(r)

DeptSpec == DeptInit /\ [][DeptNext]_deptVars

-----------------------------------------------------------------------------
(* Properties.                                                             *)

\* Types, and every parent exists (the foreign key of sys_depts).
DeptTypeOK ==
    /\ DOMAIN depts \subseteq Depts \ freshDepts
    /\ \A d \in DOMAIN depts : depts[d] \in DOMAIN depts \cup {NoDept}
    /\ freshDepts \subseteq Depts
    /\ deptReqs \in [DeptRequests -> [pc : {"idle", "checked", "locked", "counted"},
                                      dept : Depts \cup {NoDept}, parent : Depts \cup {NoDept},
                                      locks : SUBSET Depts]]
    /\ deptRingRisk \in BOOLEAN

\* The tree shows every department there is, unless a step was taken that can put
\* departments into a ring no root leads to: a move was checked while another one
\* was in progress, so that each sees a tree the other is changing; the parent of
\* a move was created after its check, below what is moved; or a department was
\* created below itself.  Nothing else makes a ring, whatever ids are given: no
\* deletion, no refused or late request, no move that meets it (create, update).
EveryDepartmentShown == ~deptRingRisk => ShownDepts = DOMAIN depts

\* Types, and the tree is whole.
DepartmentTreeHolds == DeptTypeOK /\ EveryDepartmentShown

\* No deletion cuts off a department below: none is created or moved there
\* between the count and the deletion, so the foreign key's set null never
\* finds a row, unless the deletion was asked for before there was a row that
\* it could lock (delete).
NoDepartmentCutOff ==
    [][\A d \in DOMAIN depts :
          depts[d] # NoDept /\ depts[d] \notin DOMAIN depts' =>
              \/ d \notin DOMAIN depts'
              \/ \E r \in DeptRequests : /\ deptReqs[r].dept = depts[d] /\ deptReqs[r].locks = {}
                                        /\ deptReqs'[r] # deptReqs[r]]_deptVars

=============================================================================
