--------------------------- MODULE MCAdministration ---------------------------
(* The administrated tables that share no state: menus, departments and    *)
(* dictionaries.  A behaviour is one of the component that focus names,    *)
(* while the others rest, so that one run checks the three.                *)
EXTENDS MenuCatalog, Departments, Dictionaries, TLC

CONSTANTS m1, m2, m3, m4

VARIABLE focus

Node(m, parents, codes) ==
    {[type |-> type, parent |-> p, enabled |-> e,
      permission |-> IF type = "directory" THEN NoPermission ELSE c] :
        type \in {"directory", "page", "action"}, p \in parents \cup {NoMenu},
        e \in BOOLEAN, c \in codes}
NodeOf(type, m, parents) == {n \in Node(m, parents, {m}) : n.type = type}

\* Every table of three rows, one of them perhaps with a blank permission, ...
Small ==
    LET ids == {m1, m2, m3}
    IN  {m1 :> a @@ m2 :> b @@ m3 :> c :
            a \in Node(m1, ids, {m1, Blank}), b \in Node(m2, ids, {m2}), c \in Node(m3, ids, {m3})}

\* ... and every one of two directories, a page and an action: the full depth.
Deep ==
    LET ids == {m1, m2, m3, m4}
    IN  {m1 :> a @@ m2 :> b @@ m3 :> c @@ m4 :> d :
            a \in NodeOf("directory", m1, ids), b \in NodeOf("directory", m2, ids),
            c \in NodeOf("page", m3, ids), d \in NodeOf("action", m4, ids)}

MCTables == Small \cup Deep

\* Ids of dictionaries and details are interchangeable.
MCSymmetry == Permutations(Dicts) \cup Permutations(Details) \cup Permutations(DictRequests)

MCInit ==
    /\ MenuInit /\ DeptInit /\ DictInit
    /\ focus \in {"menus", "departments", "dictionaries"}

MCNext ==
    /\ \/ focus = "menus" /\ MenuNext /\ UNCHANGED <<deptVars, dictVars>>
       \/ focus = "departments" /\ DeptNext /\ UNCHANGED <<menuVars, dictVars>>
       \/ focus = "dictionaries" /\ DictNext /\ UNCHANGED <<menuVars, deptVars>>
    /\ UNCHANGED focus

MCSpec == MCInit /\ [][MCNext]_<<menuVars, deptVars, dictVars, focus>>

=============================================================================
