SPECIFICATION MCSpec
CONSTANTS
    m1 = m1
    m2 = m2
    m3 = m3
    m4 = m4
    Menus = {m1, m2, m3, m4}
    NoMenu = NoMenu
    Blank = Blank
    NoPermission = NoPermission
    Tables <- MCTables
    MaxEdits = 1
    Depts = {d1, d2, d3}
    NoDept = NoDept
    DeptRequests = {p1, p2}
    Dicts = {i1, i2}
    Details = {a, b, c}
    NoDict = NoDict
    NoDetail = NoDetail
    DictRequests = {r1, r2}
    MaxOverlaps = 1
SYMMETRY MCSymmetry
INVARIANT CatalogHasOneMeaning
INVARIANT DepartmentTreeHolds
INVARIANT DetailsFitDictionaries
INVARIANT RecursiveQueriesEnd
PROPERTY GrantsAreLoadable
PROPERTY NavigationShowsGrantedPages
PROPERTY NoDepartmentCutOff
