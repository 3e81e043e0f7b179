SPECIFICATION BoardSpec
CONSTANTS
    r1 = r1
    r2 = r2
    u1 = u1
    u2 = u2
    p1 = p1
    p2 = p2
    Boards = {"apec", "hellowork", "wttj"}
    Runs = {r1, r2}
    Users = {u1, u2}
    Personas = {p1, p2}
    OwnerOf <- OfFirst
    j1 = j1
    j2 = j2
    Processes = {j1, j2}
    FormSites = {"apec", "hellowork", "wttj"}
    Wants <- ThreeWants
    InARow = 2
    Overlap = FALSE
SYMMETRY Jobs
CHECK_DEADLOCK FALSE
INVARIANTS
    JarNeverReplayed
    SubmitsAsItsUser
    NoJarLeftBehind
    FiltersFollowTheSearch
