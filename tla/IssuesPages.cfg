SPECIFICATION Spec
CONSTANTS
    NULL = NULL
    r1 = r1
    n1 = n1
    Notes = {n1}
    Repos = {r1}
    Configs = {{}, {r1}}
    Issues = {1, 2}
    RepoOf <- OneRepo
    PER_PAGE = 1
    MAX_PAGES = 2
INVARIANTS
    TypeOK
    OneCard
    NoteFollowsIssues
    HandDecisionsStick
    ScanSettlesBoard
