CONSTANTS
    Notes = {n1}
    NULL = NULL
    TRANSCRIBE_MAX_ATTEMPTS = 2
    RETENTION = 1
    AUDIO_CEILING_MULTIPLE = 2
    PART_MAX_AGE = 0
    HTTP_RETRIES = 0
    MAX_POSTS = 2
    Faults = {"dies", "unlink", "statement", "lost", "environment"}
SPECIFICATION Spec
INVARIANTS
    TypeOK
    WordsSurvive
PROPERTIES
    KeepsUntilGround
    GoesOnGround
    PendingSettles
CHECK_DEADLOCK FALSE
