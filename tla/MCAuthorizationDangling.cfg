SPECIFICATION Spec
CONSTANTS
    Procs = {p1}
    Requests = {q1, q2}
    admin = admin
    member = member
    r1 = r1
    super = super
    page = page
    act = act
    Users <- MCUsers
    Roles <- MCRoles
    SuperAdmin <- super
    Permissions <- MCPermissions
    PageOf <- MCPageOf
    DeptOf <- MCDeptOf
    InitDatabases <- MCVacant
    Ops = {"assign", "deleteRole"}
    Cuts = FALSE
    MaxCrashes = 0
    NoOne = NoOne
    NoUser = NoUser
    NoRole = NoRole
PROPERTY AssignedRolesExist
