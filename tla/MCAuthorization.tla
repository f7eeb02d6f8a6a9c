-------------------------- MODULE MCAuthorization --------------------------
(* The state the seed and one administrator leave behind: two accounts,    *)
(* the protected role, one normal role, and a page with an action.                 *)
EXTENDS Authorization

CONSTANTS admin, member, r1, super, page, act

MCUsers == {admin, member}
MCRoles == {r1}
MCPermissions == {page, act}
MCPageOf == [a \in {act} |-> page]
MCDeptOf == [u \in MCUsers |-> "dept"]

Rows(other, role) == [users |-> [u \in MCUsers |-> IF u = member THEN other ELSE "enabled"],
                      roles |-> [r \in {super, r1} |-> IF r = r1 THEN role ELSE "enabled"],
                      memberships |-> {<<admin, super>>},
                      grants |-> {super} \X MCPermissions]

\* The member and the role exist and belong together; the role is vacant; neither exists.
Staffed == [Rows("enabled", "enabled") EXCEPT !.memberships = @ \cup {<<member, r1>>},
                                              !.grants = @ \cup {<<r1, page>>}]
Vacant == Rows("enabled", "enabled")
MCBothStarts == {Staffed, Vacant}
MCVacant == {Vacant}
MCAnyStart == {Staffed, Rows("new", "new")}

=============================================================================
