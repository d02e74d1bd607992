SPECIFICATION FairSpec
CONSTANTS
    NULL = NULL
    n1 = n1
    todo = todo
    done = done
    other = other
    Notes = {n1}
    Lines = {todo, done, other}
    Files <- Contents
    TagOf <- Tags
    IsDone <- Marks
    BACKLOG_ABSENT_PUSHES = 2
    HTTP_RETRIES = 1
    MAX_EDITS = 2
INVARIANTS
    TypeOK
    HandDecisionsStick
    NoteFollowsLine
PROPERTIES
    BoardCatchesUp
CHECK_DEADLOCK FALSE
