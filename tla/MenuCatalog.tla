------------------------------ MODULE MenuCatalog ------------------------------
(***************************************************************************)
(* The menu table as the access catalog (crates/iam/src/access/catalog):   *)
(* a starting process accepts or refuses it, and then answers from the     *)
(* index it built, which permissions exist, what a role may be given, and  *)
(* which menus a user navigates.  The policy check of the engine asks the  *)
(* same question of the table itself, in SQL, at every reload.             *)
(*                                                                         *)
(* No service writes the table: the migrations fill it, and operators      *)
(* change the status of a row by hand, as the tests do.                    *)
(***************************************************************************)
EXTENDS Naturals, FiniteSets

CONSTANTS
    Menus,          \* menu ids
    NoMenu,         \* no parent
    Blank,          \* the empty permission code
    NoPermission,   \* SQL null
    Tables,         \* tables a migration may have left
    MaxEdits        \* bound on changes of a status by hand

\* A permission belongs to one menu, so the id names it.
Permissions == Menus \cup {Blank}

Row == [type : {"directory", "page", "action"}, parent : Menus \cup {NoMenu},
        enabled : BOOLEAN, permission : Permissions \cup {NoPermission}]

\* What the constraints of sys_menus let a table hold.
Storable(t) ==
    /\ DOMAIN t \subseteq Menus /\ IsFiniteSet(DOMAIN t)
    /\ \A m \in DOMAIN t :
           /\ t[m] \in Row
           /\ t[m].parent \in DOMAIN t \cup {NoMenu}
           /\ t[m].type = "directory" <=> t[m].permission = NoPermission
    /\ \A m, n \in DOMAIN t :
           m # n /\ t[m].permission # NoPermission => t[m].permission # t[n].permission

ASSUME MenuConstants ==
    /\ NoMenu \notin Menus /\ Blank \notin Menus /\ NoPermission \notin Permissions
    /\ \A t \in Tables : Storable(t)
    /\ MaxEdits \in Nat

VARIABLES
    table,      \* sys_menus
    index,      \* the menu index of the process: the rows it was built from
    serving,    \* "down", "up" or "refused" by the catalog
    granted,    \* the permissions of a role, as replace_access stored them
    tree,       \* the navigation a user of that role was last shown
    edits       \* changes by hand so far

menuVars == <<table, index, serving, granted, tree, edits>>

NoTree == [menus |-> {}, permissions |-> {}]

-----------------------------------------------------------------------------
(* Walks up the parents.  A row has as many ancestors as there are rows,   *)
(* unless its parents form a cycle.                                        *)

Parent(t, m) == IF m \in DOMAIN t THEN t[m].parent ELSE NoMenu

\* The k-th ancestor of m.
Up(t, m) ==
    LET up[k \in 0..Cardinality(DOMAIN t)] == IF k = 0 THEN m ELSE Parent(t, up[k - 1])
    IN  up

Ancestors(t, m) == {Up(t, m)[k] : k \in 1..Cardinality(DOMAIN t)} \ {NoMenu}

\* validate_node: the walk fails when it meets the row itself or any row twice.
OnCycle(t, m) == Up(t, m)[Cardinality(DOMAIN t)] # NoMenu

ParentType(type) ==
    CASE type = "action" -> {"page"}
      [] type = "page" -> {"directory"}
      [] type = "directory" -> {"directory"}

ValidNode(t, m) ==
    /\ t[m].type = "directory" <=> t[m].permission = NoPermission
    /\ t[m].permission # Blank
    /\ t[m].type = "action" => t[m].parent # NoMenu
    /\ t[m].parent # NoMenu => t[t[m].parent].type \in ParentType(t[m].type)
    /\ ~OnCycle(t, m)

\* MenuIndex::from_nodes.
Accepted(t) == \A m \in DOMAIN t : ValidNode(t, m)

\* Variant: only the row and its parent count.
EffectivelyEnabledNear(t, m) ==
    t[m].enabled /\ (t[m].parent # NoMenu => t[t[m].parent].enabled)

\* node_is_effectively_enabled.
EffectivelyEnabled(t, m) ==
    /\ t[m].enabled
    /\ \A a \in Ancestors(t, m) : t[a].enabled
    /\ ~OnCycle(t, m)

EnabledMenus(t) == {m \in DOMAIN t : EffectivelyEnabled(t, m)}
EnabledPermissions(t) == {t[m].permission : m \in EnabledMenus(t)} \ {NoPermission}

\* policy_facts: the recursive query goes down from the roots, level by level,
\* with the status of every row on the way; a cycle is never reached.
SqlLevel(t) ==
    LET level[k \in 0..Cardinality(DOMAIN t)] ==
            IF k = 0
            THEN {<<m, t[m].enabled>> : m \in {x \in DOMAIN t : t[x].parent = NoMenu}}
            ELSE {<<x[1], x[2][2] /\ t[x[1]].enabled>> :
                    x \in {y \in (DOMAIN t) \X level[k - 1] : t[y[1]].parent = y[2][1]}}
    IN  level

SqlPermissions(t) ==
    {t[x[1]].permission :
        x \in {y \in UNION {SqlLevel(t)[k] : k \in 0..Cardinality(DOMAIN t)} :
                  y[2] /\ t[y[1]].type \in {"page", "action"} /\ t[y[1]].permission # NoPermission}}

\* policy_facts: action_pages.
ActionPages(t) ==
    {<<t[a].permission, t[t[a].parent].permission>> :
        a \in {x \in DOMAIN t : t[x].type = "action" /\ t[x].parent # NoMenu
                                /\ t[t[x].parent].type = "page"}}

-----------------------------------------------------------------------------
(* Answers from the index.                                                 *)

\* Every requested code must be that of an effectively enabled page or action.
Grantable(t, requested) ==
    /\ Blank \notin requested
    /\ requested \subseteq EnabledPermissions(t)

\* Variant: an action does not bring its page.
NormalizeRequested(t, requested) == requested

\* normalize_role_access: an action brings its page.
Normalize(t, requested) ==
    requested \cup {t[t[m].parent].permission :
                       m \in {x \in DOMAIN t : t[x].type = "action" /\ t[x].permission \in requested}}

\* navigation_menu_ids: the enabled pages of a permission set and what is above them.
NavigationMenus(t, permissions) ==
    LET pages == {m \in EnabledMenus(t) : t[m].type = "page" /\ t[m].permission \in permissions}
    IN  pages \cup ((UNION {Ancestors(t, m) : m \in pages}) \cap EnabledMenus(t))

\* build_tree puts the rows it keeps below their parents, and build_children
\* collects what hangs below the given row.
Below(kept, t, root) ==
    LET level[k \in 0..Cardinality(DOMAIN t)] ==
            IF k = 0 THEN {m \in kept : t[m].parent = root}
            ELSE {m \in kept : t[m].parent \in level[k - 1]}
    IN  UNION {level[k] : k \in 0..Cardinality(DOMAIN t)}

\* Variant: the status in the database is not looked at again.
KeptStale(t, allowed) == {m \in DOMAIN t : m \in allowed /\ t[m].type # "action"}

Kept(t, allowed) == {m \in DOMAIN t : m \in allowed /\ t[m].enabled /\ t[m].type # "action"}

-----------------------------------------------------------------------------
(* Steps.                                                                  *)

\* The migrations fill the table before any process is started.
Migrate ==
    /\ DOMAIN table = {} /\ serving = "down"
    /\ table' \in Tables
    /\ UNCHANGED <<index, serving, granted, tree, edits>>

\* A process starts: AccessCatalog::load.
LoadCatalog ==
    /\ serving # "up"
    /\ DOMAIN table # {}
    /\ serving' = IF Accepted(table) THEN "up" ELSE "refused"
    /\ index' = IF Accepted(table) THEN table ELSE index
    /\ UNCHANGED <<table, granted, tree, edits>>

\* replace_access for a role, as far as the catalog has a say.
GrantAccess ==
    \E requested \in SUBSET Permissions :
        /\ serving = "up"
        /\ Grantable(index, requested)
        /\ granted' = Normalize(index, requested)
        /\ UNCHANGED <<table, index, serving, tree, edits>>

\* MenuService::current: ids from the index, rows from the table.
ShowMenu ==
    LET kept == Kept(table, NavigationMenus(index, granted))
    IN  /\ serving = "up"
        /\ tree' = [menus |-> Below(kept, table, NoMenu),
                    permissions |-> granted \cap EnabledPermissions(index)]
        /\ UNCHANGED <<table, index, serving, granted, edits>>

\* An operator changes the status of a row; what was shown before is forgotten.
EditStatus ==
    \E m \in DOMAIN table :
        /\ edits < MaxEdits
        /\ edits' = edits + 1
        /\ table' = [table EXCEPT ![m].enabled = ~@]
        /\ tree' = NoTree
        /\ UNCHANGED <<index, serving, granted>>

\* The process stops; the rights it granted stay.
StopCatalog ==
    /\ serving # "down"
    /\ serving' = "down"
    /\ index' = <<>>
    /\ tree' = NoTree
    /\ UNCHANGED <<table, granted, edits>>

MenuInit ==
    /\ table = <<>> /\ index = <<>>
    /\ serving = "down"
    /\ granted = {}
    /\ tree = NoTree
    /\ edits = 0

MenuNext ==
    \/ Migrate
    \/ LoadCatalog
    \/ GrantAccess
    \/ ShowMenu
    \/ EditStatus
    \/ StopCatalog

MenuSpec == MenuInit /\ [][MenuNext]_menuVars

-----------------------------------------------------------------------------
(* Properties.                                                             *)

\* Types, and a process serves from rows that from_nodes accepted.
MenuTypeOK ==
    /\ Storable(table) /\ Storable(index)
    /\ serving \in {"down", "up", "refused"}
    /\ serving = "up" <=> DOMAIN index # {}
    /\ granted \subseteq Permissions
    /\ tree \in [menus : SUBSET Menus, permissions : SUBSET Permissions]
    /\ edits \in 0..MaxEdits

\* A table with a row that hangs below nothing, directly or in a ring of
\* directories, is not served from: every row leads up to a root (validate_node).
EveryMenuReachable == Below(DOMAIN index, index, NoMenu) = DOMAIN index

\* The catalog of the process and the policy check in SQL agree on which
\* permissions are enabled, so that a super_admin that has all permissions of
\* the one passes the other (from_nodes and policy_facts).
PolicyAgreesWithCatalog ==
    serving = "up" /\ table = index => EnabledPermissions(index) = SqlPermissions(table)

\* Types, and a table that is served from has one meaning: a tree that reaches every row,
\* and the same enabled permissions in the process and in the database.
CatalogHasOneMeaning == MenuTypeOK /\ EveryMenuReachable /\ PolicyAgreesWithCatalog

\* What replace_access stores passes the policy check of the next reload: enabled
\* permissions only, and no action without its page (normalize_role_access).
GrantsAreLoadable ==
    [][granted' # granted /\ table = index =>
          /\ granted' \subseteq SqlPermissions(table)
          /\ \A x \in ActionPages(table) : x[1] \in granted' => x[2] \in granted']_menuVars

\* A user is shown a page if and only if the permission is granted and both the
\* catalog and the database enable the page and all that is above it; no
\* page is lost because its place in the tree is, and while the two agree no
\* directory is shown that leads to no page (MenuService::current).
NavigationShowsGrantedPages ==
    [][ShowMenu =>
          LET pages == {m \in tree'.menus : table[m].type = "page"}
          IN  /\ pages = {m \in DOMAIN table : table[m].type = "page"
                             /\ table[m].permission \in
                                    granted \cap EnabledPermissions(index) \cap SqlPermissions(table)}
              /\ table = index => tree'.menus = pages \cup UNION {Ancestors(table, m) : m \in pages}
              ]_menuVars

=============================================================================
